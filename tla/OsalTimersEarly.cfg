SPECIFICATION Spec
CONSTANTS
  TimerIds = {t1, t2}
  Deleted = Deleted
  NoRecord = NoRecord
  Timeouts = {1, 3}
  ByteRange = 2
  MaxRecords = 3
  MaxTime = 4
  MaxCalls = 4
SYMMETRY TimerSymmetry

PROPERTIES ExpiresAfterTimeout
CHECK_DEADLOCK FALSE
