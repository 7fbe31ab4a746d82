SPECIFICATION FairSystemSpec
CONSTANTS
    Command <- Single
    InitialFence <- Empty
    MaxGeneration = 7
    MaxBatch = 1
    MaxRecords = 3
    TargetRecords = 2
    MaxTotal = 4
    TargetTotal = 3
    MaxFaults = 1
    MaxCrashes = 1
    MaxCommands = 2
    MaxPoisoned = 1
    MaxTimeouts = 1
    MaxSubmissions = 2
    MaxFreezes = 1
    None = None
INVARIANTS SettledIsStored
PROPERTIES EveryCommandSettles
