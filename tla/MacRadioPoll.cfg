\* A transmit switches the receiver off in the middle of a receive.
SPECIFICATION Spec
CONSTANTS
  Flags = {idle, poll}
  POLL = poll
  MaxBackoffs = 1
  MaxFifo = 3
  MaxFrames = 1
  MaxTx = 1
  MaxCalls = 0
INVARIANT ReceiverKept
CHECK_DEADLOCK FALSE
