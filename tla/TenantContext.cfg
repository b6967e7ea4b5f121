SPECIFICATION FairSpec
CONSTANTS
    t1 = t1
    t2 = t2
    t3 = t3
    Task = {t1, t2, t3}
    a = a
    b = b
    Tenant = {a, b}
    c1 = c1
    Conn = {c1}
    x1 = x1
    x2 = x2
    x3 = x3
    Txn = {x1, x2, x3}
    None = None
INVARIANTS Isolation
PROPERTY WaitersServed
CHECK_DEADLOCK FALSE
