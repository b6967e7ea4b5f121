SPECIFICATION FairSpec
CONSTANTS
    t1 = t1
    t2 = t2
    State = {t1, t2}
    s1 = s1
    s2 = s2
    Session = {s1, s2}
    c1 = c1
    c2 = c2
    Callback = {c1, c2}
    k1 = k1
    Call = {k1}
    Attempts = 2
    MaxFaults = 1
    None = None
INVARIANT TypeOK
INVARIANT OneExchange
INVARIANT DisconnectedIsEmpty
INVARIANT StoredIsLive
 
CHECK_DEADLOCK FALSE
