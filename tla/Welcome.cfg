CONSTANTS
  Callers = {"server", "LS", "GET"}
  Conns = {c1, c2}
  WaitTime = 2
  Limit = 3
  SelectUpdates = TRUE
  AbortRemoves = FALSE
SPECIFICATION FairSpec
INVARIANTS
  TypeOK
  NoDescriptorLost
  StopIsNoticed
  InTime
PROPERTIES
  WelcomeEnds
  QueueMoves
CHECK_DEADLOCK FALSE
