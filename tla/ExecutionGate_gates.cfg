SPECIFICATION Spec
CONSTANTS
    c1 = c1  c2 = c2
    i1 = i1  i2 = i2
    v1 = v1  v2 = v2
    d1 = d1  d2 = d2  d3 = d3
    Kinds = {"a2a", "ap2", "evm"}
    Callers = {c1, c2}
    Items = {i1, i2}
    Variants = {v1, v2}
    Workload <- TwoTasks
    Decisions = {d1, d2}
    DailyLimit = 2
    MaxFailures = 2
    None = None
SYMMETRY Symmetry
INVARIANTS TypeOK RunsWithAuthority PaidBeforeRun 
PROPERTY ImplementsExecution
CHECK_DEADLOCK FALSE
