SPECIFICATION FairSpec
CONSTANTS
    c1 = c1  c2 = c2
    d1 = d1
    r1 = r1  r2 = r2
    Callers <- MCCallers
    Decisions = {d1}
    ExecRefs <- MCExecRefs
    MaxFailures = 2
    None = None
    d2 = d2
PROPERTY RetryCompletes
CHECK_DEADLOCK FALSE
