SPECIFICATION FairSpec
CONSTANTS
  tasksCnt = 3
  Msgs = {m1, m2}
  Events = {e1}
  NoTask = NoTask
  SYS = SYS
  MaxWork = 6
INVARIANTS TypeOK QueueOwnership NoLostWakeup
PROPERTIES EventsKept EventsServed ImplementsMailbox MessagesTaken
