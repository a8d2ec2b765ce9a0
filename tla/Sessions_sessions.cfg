SPECIFICATION FairSpec
CONSTANTS
  Browsers = {b1, b2}
  Ids = {s1, s2}
  Flows = {f1}
  Requests = {r1, r2}
  IdleLimit = 1
  RefreshAge = 1
  TicketLife = 2
  None = None
INVARIANTS
  FreshWhileUsed
  OwnSession
PROPERTIES
  NeverResurrected
  IdleTabTimesOut
CHECK_DEADLOCK FALSE
