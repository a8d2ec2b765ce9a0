SPECIFICATION Spec
CONSTANTS
  Jobs = {j1, j2}
  Pollers = {p1}
  DataListeners = 0
  WriteFaults = 0
  MaxStops = 0
SYMMETRY JobSymmetry
INVARIANTS
  PersistedOnlyIsTerminal
CHECK_DEADLOCK FALSE
