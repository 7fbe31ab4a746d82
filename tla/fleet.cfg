SPECIFICATION MCSpec
CONSTANTS
    None = None
    n1 = n1
    n2 = n2
    Nodes = {n1, n2}
    Fleets <- SafetyFleets
    Span = 2
    MaxVersion = 2
    LeaseDuration = 1
    RenewBefore = 0
    Skew = 1
    MaxForksPerSnapshot = 1
    FlCases <- FleetCases
    FlStale = 2
    FlMaxPools = 1
    FlMaxQuarantines = 1
    FlMaxInt = 3
    FlMaxRevision = 3
    IdCases <- IdentityCases
    IdEnd = 2
    IdPending = 2
    OpCases <- OperationsCases
    OpEnd = 3
    OpStaleAfter = 2
    OpWarning = 80
    OpPage = 2
INVARIANTS NoStrayWorkload GenerationPlacedOnce BudgetKept RevokedStaysOut 
 
CHECK_DEADLOCK FALSE
