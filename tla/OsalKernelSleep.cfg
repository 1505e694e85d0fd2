SPECIFICATION FairSpec
CONSTANTS
  tasksCnt = 2
  Msgs = {m1, m2}
  Events = {e1}
  NoTask = NoTask
  SYS = SYS
  MaxWork = 6

PROPERTIES SleepsOnlyWhenIdle
