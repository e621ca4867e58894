SPECIFICATION Spec
CONSTANTS
    c1 = c1  c2 = c2
    a1 = a1  a2 = a2
    p1 = p1  p2 = p2  p3 = p3  p4 = p4
    d1 = d1  d2 = d2
    r1 = r1  r2 = r2
    Callers <- MCCallers
    Agents <- MCAgents
    Proofs <- MCProofs
    Owner <- MCOwner
    Decisions <- MCDecisions
    ExecRefs <- MCExecRefs
    Expires = 1
    Skew = 1
    Retention = 3
    Instants = {0, 2, 3, 4, 5}
    MaxRequests = 3
    MaxFailures = 1
    None = None
SYMMETRY Symmetry
INVARIANTS TypeOK ConsumedUnderAuthority KnownDecisionsAreProtected ApprovalKeepsAuthority ProofAcceptedOnce
CHECK_DEADLOCK FALSE
