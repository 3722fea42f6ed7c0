CONSTANTS
  HeaderLen = 2
  MaxPayload = 2
  MaxSent = 3
  Endings = {"closed", "reset", "silent"}
SPECIFICATION FairSpec
INVARIANTS
  TypeOK
  InFrame
PROPERTIES
  IsQueue
  CallReturnsWhileUp
CHECK_DEADLOCK FALSE
