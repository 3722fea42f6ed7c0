CONSTANTS
  Clients = {c1, c2, c3}
  Main = main
  Nobody = nobody
  Backlog = 1
  MaxSockets = 2
  ThreadsRunOut = TRUE
  SigPipe = TRUE
SPECIFICATION FairSpec
INVARIANTS
  TypeOK
  LinesAreWhole
PROPERTIES
  InterruptEnds
  EachIsServed
CHECK_DEADLOCK FALSE
