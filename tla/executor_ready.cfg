CONSTANTS
    Instances = 2
    MaxGeneration = 1
    MaxPolicy = 2
    Leased = {1}
    MaxFaults = 1
    MaxCrashes = 1
    MaxDrifts = 1
    MaxTroubles = 2
    Drifts <- AllDrifts

SPECIFICATION Spec
INVARIANTS ReadyIsCoherent
CHECK_DEADLOCK FALSE
