CONSTANTS
    NULL = NULL
    Hour = 2
    InitialWindow = 4320
    Overlap = 4
    Workers = {w1, w2}
    Orders = {1, 2}
    SimulatedIds = {1, 2}
    PageSize = 1
    MaxRestarts = 1
    FetchErrors = {}
    Histories <- LaterPass
    ClosingTimes <- OneClosingTime
    MaxClock = 0
    MaxVersion = 1
    MaxPages = 0
SYMMETRY WorkerSymmetry
SPECIFICATION Spec
PROPERTY LateResponseIsRejected
