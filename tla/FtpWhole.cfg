CONSTANTS
  Ports = {p1, p2}
  NoPort = "none"
  Names <- MCNames
  NoName = "none"
  Files <- MCFiles
  FileLen <- MCFileLen
  MaxCmd = 2
  MaxList = 1
  Window = 2
  Chunk = 2
  SigPipe = TRUE
  ClientMayDie = FALSE
  ServerMayStop = FALSE
SPECIFICATION Spec
INVARIANT ReceivedIsWhole
