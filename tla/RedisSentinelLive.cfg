CONSTANTS
    s1 = s1
    s2 = s2
    s3 = s3
    m = m
    r1 = r1
    r2 = r2
    None = None
    Sentinel = {s1, s2, s3}
    Instance = {m, r1, r2}
    InitMaster = m
    Quorum = 2
    ParallelSyncs = 1
    MaxEpoch = 1
    Timely = TRUE
    Budgets <- AtMostACrash
SPECIFICATION FairSpec
 
PROPERTIES  EventuallyFollowed
CHECK_DEADLOCK FALSE
