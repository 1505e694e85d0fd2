SPECIFICATION Spec
CONSTANTS
  TxSize = 4
  RxSize = 3
  Lengths = {1, 2, 4}
  IntEnable = TRUE
  MayWriteWhenFull = TRUE
  NoByte = 0
  MaxBytes = 9
INVARIANTS SentInOrder
CHECK_DEADLOCK FALSE
