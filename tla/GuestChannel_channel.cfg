SPECIFICATION FairSpec
CONSTANTS
  c1 = c1
  c2 = c2
  c3 = c3
  g1 = g1
  Callers = {c1, c2, c3}
  Guests = {g1}
  GuestOf <- OneGuest
  Commands <- Mix
  Attempts = 2
  MaxPolls = 2
  Gap = 1
INVARIANTS
  NoOverlap
  RunsOnce
PROPERTIES
  GapKept
  EveryCallEnds
CHECK_DEADLOCK FALSE
