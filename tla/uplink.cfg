SPECIFICATION Spec
CONSTANTS
    Command <- WithCanary
    InitialFence <- Empty
    MaxGeneration = 2
    MaxBatch = 1
    MaxRecords = 2
    TargetRecords = 1
    MaxTotal = 3
    TargetTotal = 2
    MaxFaults = 1
    MaxCrashes = 1
    None = None
INVARIANTS AppliedOnce DoneIsFenced
PROPERTIES UnknownIsFinal
