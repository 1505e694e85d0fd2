SPECIFICATION Spec
CONSTANTS
  TxSize = 4
  RxSize = 3
  Lengths = {1, 2, 4}
  IntEnable = TRUE
  MayWriteWhenFull = FALSE
  NoByte = 0
  MaxBytes = 9
INVARIANTS TypeOK RingHoldsUnsent ReadInOrder
PROPERTIES ImplementsByteLine
CHECK_DEADLOCK FALSE
