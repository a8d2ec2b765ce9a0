SPECIFICATION FairSpec
CONSTANTS
  Jobs = {j1, j2}
  Pollers = {p1}
  DataListeners = 0
  WriteFaults = 0
  MaxStops = 2
INVARIANTS
  RowFollowsStatus
  NoStuckRow
PROPERTIES
  KeepsLifecycle
  JobSettles
CHECK_DEADLOCK FALSE
