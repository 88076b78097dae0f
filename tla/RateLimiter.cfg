SPECIFICATION Spec
CONSTANTS
    Callers = {a, b, c}
    Proxies <- MCProxies
    Headers <- MCHeaders
    Buckets = {"auth"}
    Limit <- MCLimit
    Window <- MCWindow
    MaxWindows = 2
    Threads = {t1, t2}
    MaxClock = 5
    MaxStale = 1
SYMMETRY MCSymmetry
CHECK_DEADLOCK FALSE
INVARIANTS
    TypeOK
    AtMostTwoWindows
    DeniedFairly
    RememberedWhileSeen
