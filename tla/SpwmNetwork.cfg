\* One node in full and one more device; three grants go round a table of
\* two.
SPECIFICATION Spec
CONSTANTS
  Devices = {n1, n2}
  Nodes = {n1}
  NumChannels = 3
  Energies = {0, 1}
  MaxDeviceNum = 2
  MaxGwInbox = 1
  sensingTime = 2
  preparingDelta = 1
  sendAliveTime = 1
  numRescanTry = 1
  PollFailLimit = 0
  TickPeriod = 2
  MaxFound = 1
  MaxReqs = 1
  MaxBufs = 0
  MaxInbox = 1
  MaxAsked = 3
CHECK_DEADLOCK FALSE
INVARIANTS TypeOK AddressesComeRound StartupGoesOn
PROPERTIES StartsOnQuietest ImplementsNodeApp
