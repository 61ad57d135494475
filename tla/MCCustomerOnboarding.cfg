SPECIFICATION MCSpec
CONSTANTS
  Workers = {w1, w2}
  m1 = m1
  m2 = m2
  m3 = m3
  Merchants = {m1, m2, m3}
  Established = {m1}
  MaxOps = 3
  Users = {u}
  MaxSubmissions = 2
INVARIANTS
  TypeOK
  EventsExplainStatus
  ActiveCleared
  ApprovedOnce
PROPERTIES
  ClosedForGood
  OverdueSuspended
CHECK_DEADLOCK FALSE
