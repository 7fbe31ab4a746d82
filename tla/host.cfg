SPECIFICATION MCSpec
CONSTANTS
    SvCases <- MCCases
    CommandOf <- MCCommandOf
    MaxRefs = 4
    MaxProcs = 3
    MaxPids = 2
    DefaultMaxInstances = 2
    persistentFailureThreshold = 2
    queueBackpressureThreshold = 2
    Sources = {n1, n2, n3}
    RlCases <- MCRlCases
    MaxTime = 5
    Lineages = {"a", "b"}
    Snapshots = {"s1"}
    SourceOf <- SourceDef
    StCases <- StCasesDef
    RouteGrants = {"g1", "g2", "g3"}
    Granted <- GrantedDef
    EgressCalls = {"r1", "r2"}
    RouteConfigs <- RouteConfigsDef
    KeyFiles <- KeyFilesDef
    RtCases <- RtCasesDef
    MostConcurrent = 2
    GrantDenials = 1
    TenantDenials = 2
    HostDenials = 4
    Minute = 2
    SitePolicies <- SitePoliciesDef
    Capsules <- CapsulesDef
    Delegations <- DelegationsDef
    SignedCommands <- SignedCommandsDef
    HostRequests <- HostRequestsDef
    Registry <- RegistryDef
    ConnectorAuthorities <- AuthoritiesDef
    ThisNode = "n"
    Scheduling <- SchedulingDef
    HostAdmin = TRUE
    CommandLifetime = 3
    DelegationLifetime = 3
    ForkLifetime = 4
    LeaseDuration = 4
    ClockSkew = 1
    MaxClock = 3
    MaxRestarts = 3
    MaxWaiting = 2
INVARIANTS RunningIsReal SweepInvisible BoundHasDataset WithinRouteLimit AdmissionsAdvance NoAmplification
PROPERTIES SnapshotSettles
CHECK_DEADLOCK FALSE
