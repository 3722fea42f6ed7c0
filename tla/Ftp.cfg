CONSTANTS
  Ports = {p1, p2}
  NoPort = "none"
  Names <- MCNames
  NoName = "none"
  Files <- MCFiles
  FileLen <- MCFileLen
  MaxCmd = 2
  MaxList = 2
  Window = 2
  Chunk = 2
  SigPipe = TRUE
  ClientMayDie = TRUE
  ServerMayStop = TRUE
SPECIFICATION FairSpec
INVARIANTS
  TypeOK
  NothingLeftOpen
  NoReplyLeftOver
  TransferIsOwn
  ReceivedIsWholeInStep
PROPERTIES
  LocalChangesAfterOk
  KeepsPromise
  CommandEndsUnlessCut
  SessionEnds
