CONSTANTS
    ta = ta  tb = tb  ts = ts  ti = ti  tk = tk  tc = tc
    acme = acme  apex = apex
    g1 = g1  g2 = g2
    r1 = r1  r2 = r2
    None = None
    Task = {ta, tb, ts, ti, tk, tc}
    Tenant = {acme, apex}
    Grant = {g1, g2}
    Run = {r1, r2}
    Calls <- HistoryCalls
    Quota <- HistoryQuota
    TerminalReserve = 2
    LineSizes = {1}
    InferenceMax = 1
SPECIFICATION LedgerSpec
INVARIANTS AuthorizedOnce RunOwnedByOneTask ScopedInferenceInsideParent RemainingRecordsFit
PROPERTIES CustodySpec
CHECK_DEADLOCK FALSE
