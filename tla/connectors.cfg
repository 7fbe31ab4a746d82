CONSTANTS
    ta = ta  tb = tb
    acme = acme
    g1 = g1
    h1 = h1  h2 = h2
    None = None
    Task = {ta, tb}
    Tenant = {acme}
    Grant = {g1}
    Run = {}
    Calls <- ContextCalls
    Quota <- ContextQuota
    TerminalReserve = 1
    LineSizes = {1}
    InferenceMax = 0
    Handler = {h1, h2}
    ContextRequired = {g1}
    GrantConcurrency = 2
    MaxCallsPerGrant <- Twice
    MaxRevocations <- Once
    MaxUnregisters <- Once
    MaxStops = 1
SPECIFICATION Spec
INVARIANTS EffectOnce FenceCoversLedger
PROPERTIES EffectInsideAuthorization
CHECK_DEADLOCK FALSE
SYMMETRY HandlerSymmetry
