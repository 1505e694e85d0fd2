\* One transmit and one other call of the high level while two frames arrive.
SPECIFICATION Spec
CONSTANTS
  Flags = {idle, poll}
  POLL = poll
  MaxBackoffs = 1
  MaxFifo = 3
  MaxFrames = 2
  MaxTx = 1
  MaxCalls = 1
INVARIANTS TypeOK AssertsHold ReceiveFlagsAgree TransmitGoesOn QueuedBehindReceive SleepIsQuiet
PROPERTIES TransmitEnds
CHECK_DEADLOCK FALSE
