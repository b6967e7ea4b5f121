CONSTANTS
    Settings <- NoFaults
    MaxFaults = 0
    MaxWrites = 1
SPECIFICATION Spec
INVARIANT ToldSynced
CHECK_DEADLOCK FALSE
