SPECIFICATION MCSpec
CONSTANTS
    None = None
    Limit <- MCLimit
    PerTenant <- MCPerTenant
    Transactions <- MCTransactions
    Disks <- MCDisks
    Target = 4
    BatchFrames = 2
    FaultModels <- MCFaultModels
    MaxHistory = 4
    MaxGeneration = 3
    MaxFaults = 2
    EvCases <- MCCases
    EventOf <- MCEvents
    checkpointStride = 2
    MaxDeltaRecords = 2
    Lifetime = 1
    MaxChallengeVariants = 2
    MaxCaptureFrames = 2
    CaptureTTL = 1
    Challenges = {1, 2, 3, 4, 5}
INVARIANTS  RecoveredExactly  CaptureIsComplete
CHECK_DEADLOCK FALSE
