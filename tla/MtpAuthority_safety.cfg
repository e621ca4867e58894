SPECIFICATION Spec
CONSTANTS
    c1 = c1  c2 = c2
    d1 = d1  d2 = d2
    r1 = r1  r2 = r2
    Callers <- MCCallers
    Decisions <- MCDecisions
    ExecRefs <- MCExecRefs
    MaxFailures = 1
    None = None
SYMMETRY Symmetry
INVARIANTS TypeOK LocalNeedsMtp RecordAgreesWithMtp OneDecisionPerReference SuccessIsTrue
PROPERTIES ResumesLocally ImplementsExecution
CHECK_DEADLOCK FALSE
