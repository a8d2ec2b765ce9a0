SPECIFICATION FairSpec
CONSTANTS
  Jobs = {j1}
  Pollers = {p1}
  DataListeners = 0
  WriteFaults = 1
  MaxStops = 0
PROPERTIES
  NeverHangsRunning
CHECK_DEADLOCK FALSE
