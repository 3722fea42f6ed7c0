CONSTANTS
  Sessions = {s1, s2}
  Names <- MCNames
  BadNames <- MCBad
  OldFiles <- MCOld
  Old = old
  Hole = hole
  Sizes = {0, 2}
  Window = 1
  MayCrash = TRUE
SPECIFICATION FairSpec
INVARIANTS
  TypeOK
  OldFilesKept
  StoredIsOwn
  GetIsStored
PROPERTIES
  StoredStays
  PutEnds
CHECK_DEADLOCK FALSE
