CONSTANTS
    s1 = s1
    s2 = s2
    s3 = s3
    m = m
    r1 = r1
    None = None
    Sentinel = {s1, s2, s3}
    Instance = {m, r1}
    InitMaster = m
    Quorum = 1
    ParallelSyncs = 1
    MaxEpoch = 1
    Timely = FALSE
    Budgets <- SomeEvents
SPECIFICATION Spec
INVARIANTS VoteOnce OneLeader
SYMMETRY Symmetry
CHECK_DEADLOCK FALSE
