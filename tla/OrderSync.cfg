CONSTANTS
    NULL = NULL
    Hour = 2
    InitialWindow = 4320
    Overlap = 4
    Workers = {w1, w2}
    Orders = {1, 2}
    SimulatedIds = {1, 2}
    PageSize = 2
    MaxRestarts = 1
    FetchErrors = {"RATE_LIMITED"}
    Histories <- AllHistories
    ClosingTimes <- OneClosingTime
    MaxClock = 6
    MaxVersion = 2
    MaxPages = 3
SYMMETRY WorkerSymmetry
SPECIFICATION Spec
INVARIANTS FencedWithinPass RestartBudget AccountMirrorsFailure CursorCovered NoGap CompleteIsWhole ShownCountIsStored
PROPERTIES ExhaustedIsFinal WindowIsFixed RollbackOnlyAcrossReopen
