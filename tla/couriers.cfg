CONSTANTS
    None = None
    Cases <- CourierCases
    MaxSchedules = 1
    MaxSession = 2
    Batch = 2
    LeaseTime = 1
    ObservationDelay = 1
    MaxTime = 4
    Ends = {"completed"}
    MgCases <- MessageCases
    MgTenant <- TenantDef
    MgLimit <- LimitDef
    MgEnd = 2
SPECIFICATION MCSpec
INVARIANTS SettledHonestly CreatedOnce
PROPERTIES EveryTaskEnds 
CHECK_DEADLOCK FALSE
