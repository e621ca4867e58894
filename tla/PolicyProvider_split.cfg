SPECIFICATION Spec
CONSTANTS
  c1 = c1  c2 = c2  p1 = p1  i1 = i1  i2 = i2  i3 = i3  r1 = r1  r2 = r2
  None = None
  Calls = {c1, c2}
  Ids = {i1, i2}
  ExecRefs = {r1, r2}
  Principals = {p1}
  Actions <- MCActions
  Permitted <- MCActions
  OpenTimes <- MCOpenTimes
  DailyLimit = 2
  HumanAbove = 1
  DecisionTtl = 2
  RequestTtl = 2
  PolicyExpiry = 2
  MaxTime = 2
  Days = {0, 1}
  DayKey <- MCDayKey
  AtomicStore = FALSE
SYMMETRY MCSymmetry
INVARIANTS SpendNeverOverstated

