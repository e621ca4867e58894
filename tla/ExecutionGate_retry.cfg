SPECIFICATION Spec
CONSTANTS
    c1 = c1  c2 = c2
    i1 = i1  i2 = i2
    v1 = v1  v2 = v2
    d1 = d1  d2 = d2  d3 = d3
    Kinds = {"ap2"}
    Callers = {c1, c2}
    Items = {i1}
    Variants = {v1, v2}
    Workload <- TwoTasks
    Decisions = {d1, d2, d3}
    DailyLimit = 2
    MaxFailures = 1
    None = None
INVARIANT CompletedRetryReplays
CHECK_DEADLOCK FALSE
