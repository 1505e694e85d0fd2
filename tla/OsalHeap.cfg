SPECIFICATION Spec
CONSTANTS
  BucketLen = 6
  Last = 15
  SmallBlk = 3
  MinBlk = 2
  HdrSz = 2
  Sizes = {1, 4, 5, 8}
  Data = Data
INVARIANTS TypeOK BlocksOwned FirstFree
PROPERTIES FailsOnlyWhenFull
CHECK_DEADLOCK FALSE
