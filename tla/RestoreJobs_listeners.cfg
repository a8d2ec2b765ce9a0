SPECIFICATION Spec
CONSTANTS
  Jobs = {j1, j2}
  Pollers = {p1, p2}
  DataListeners = 1
  WriteFaults = 1
  MaxStops = 0
SYMMETRY JobSymmetry
INVARIANTS
  CancelWins
  ActiveJobHasTask
  ListIsComplete
PROPERTIES
  OutcomeIsFinal
CHECK_DEADLOCK FALSE
