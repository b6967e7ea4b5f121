CONSTANTS
    NULL = NULL
    Users = {u1, u2}
    Requests = {r1, r2}
    MaxSessions = 2
    MaxTokens = 4
SYMMETRY AuthSymmetry
SPECIFICATION Spec
INVARIANTS SingleUse ReuseEndsSession LogoutEndsSession 
PROPERTIES ImplementsStore
CHECK_DEADLOCK FALSE
