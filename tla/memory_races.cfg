SPECIFICATION MCSpec
CONSTANTS
    IDs = {a, b}
    Secrets = {s1, s2}
    Procs = {p1, p2}
    None = None
    MaxCacheCapacity = 2
    MaxProbe = 8
    TTL = 1
    NoEviction = FALSE
    SlidingTTL = TRUE
    MaxSessions = 3
    MaxTime = 3
    MaxCalls = 5
    MaxInteractions = 2
SYMMETRY Symmetry
INVARIANTS
    HandleAuthorised
PROPERTIES
    KeepsPromise
