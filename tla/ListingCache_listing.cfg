SPECIFICATION FairSpec
CONSTANTS
  u1 = u1
  u2 = u2
  c1 = c1
  c2 = c2
  c3 = c3
  p1 = p1
  Users = {u1, u2}
  Volumes = {v1}
  Callers = {c1, c2, c3}
  Pages = {p1}
  Fetches = {t1, t2}
  UserOf <- TwoTabs
  Cap = 1
  None = None
INVARIANTS
  OwnListing
  NoStampede
PROPERTIES
  GoodRowsStay
  AccessEnds
  EveryCallAnswered
CHECK_DEADLOCK FALSE
