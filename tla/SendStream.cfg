CONSTANTS
  MaxLen = 10
  Chunk = 3
  IntMax = 7
  Partial = TRUE
SPECIFICATION Spec
INVARIANTS
  TypeOK
  SentUnlessAgain
  CountMeetsSize
CHECK_DEADLOCK FALSE
