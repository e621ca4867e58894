SPECIFICATION Spec
CONSTANTS
    k1 = k1  k2 = k2  k3 = k3
    r1 = r1  r2 = r2
    Keys <- MCKeys
    FirstKey = k1
    Replicas <- MCReplicas
    MaxTime = 2
    MaxDecisions = 2
    None = None
SYMMETRY Symmetry
INVARIANTS TypeOK IssuedDecisionsVerify SomeKeyCanIssue OneKeyPerInstant
CHECK_DEADLOCK FALSE
