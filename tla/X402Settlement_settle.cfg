SPECIFICATION FairSpec
CONSTANTS
  c1 = c1  c2 = c2  d1 = d1  d2 = d2  r1 = r1  r2 = r2
  None = None
  Callers = {c1, c2}
  Decisions = {d1, d2}
  ExecRefs = {r1, r2}
  Integrations <- MCBoth
  t1 = t1  t2 = t2
  Terms = {t1, t2}
  Covers <- MCCovers
  Requests <- MCRequests
  MaxSettles = 2
INVARIANTS TypeOK SettledOnce SettleNeedsConsumption JournalAgreesWithRail AnswersAreTrue
PROPERTIES ImplementsExecution OperationsOnlyAdvance UnresolvedIsResolved
CHECK_DEADLOCK FALSE
