CONSTANTS
    Settings <- AllSettings
    MaxFaults = 2
    MaxWrites = 2
SPECIFICATION FairSpec
INVARIANTS CrashRecovers ToldSurvives
PROPERTIES ImplementsLog OrderKept  EventuallyOn
CHECK_DEADLOCK FALSE
