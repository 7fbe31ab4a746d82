CONSTANTS
    ta = ta tb = tb tc = tc
    acme = acme
    g1 = g1
    h1 = h1 h2 = h2
    r1 = r1 r2 = r2
    None = None
    Task = {ta, tb, tc}
    Tenant = {acme}
    Grant = {g1}
    Run = {r1, r2}
    Calls <- AllCalls
    Quota <- TaskQuota
    TerminalReserve = 1
    LineSizes = {1}
    InferenceMax = 0
    Handler = {h1, h2}
    MaxRevocations <- Once
    MaxUnregisters <- Once
    MaxStops = 1
SPECIFICATION Spec
INVARIANTS TaskContactedOnce StatusMatchesLedger ReplacementSafe
CHECK_DEADLOCK FALSE
SYMMETRY HandlerSymmetry
