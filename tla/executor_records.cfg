CONSTANTS
    Instances = 1
    MaxGeneration = 2
    MaxPolicy = 2
    Leased = {1}
    MaxFaults = 2
    MaxCrashes = 1
    MaxDrifts = 1
    MaxTroubles = 2
    Drifts = {"agentExits", "agentLost", "gatewayRestarts"}

SPECIFICATION Spec
INVARIANTS RecordedOrPending
 
CHECK_DEADLOCK FALSE
