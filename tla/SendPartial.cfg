CONSTANTS
  MaxLen = 10
  Chunk = 3
  IntMax = 7
  Partial = TRUE
SPECIFICATION Spec
INVARIANT SentIsStream
CHECK_DEADLOCK FALSE
