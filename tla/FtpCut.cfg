CONSTANTS
  Ports = {p1}
  NoPort = "none"
  Names <- MCNames
  NoName = "none"
  Files <- MCFiles
  FileLen <- MCFileLen
  MaxCmd = 1
  MaxList = 1
  Window = 2
  Chunk = 2
  SigPipe = TRUE
  ClientMayDie = FALSE
  ServerMayStop = TRUE
SPECIFICATION FairSpec
PROPERTY CommandEnds
