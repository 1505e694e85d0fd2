SPECIFICATION Spec
CONSTANTS
  sensingTime = 4
  preparingDelta = 3
  sendAliveTime = 2
  numRescanTry = 1
  PollFailLimit = 1
  TickPeriod = 4
  MaxFound = 2
  MaxReqs = 2
  MaxBufs = 1
  MaxInbox = 1
CHECK_DEADLOCK FALSE
PROPERTY ScanWithoutGatewayFails
