SPECIFICATION MCSpec
CONSTANTS
    IDs = {a}
    Secrets = {s1}
    Procs = {p1, p2}
    None = None
    MaxCacheCapacity = 1
    MaxProbe = 8
    TTL = 1
    NoEviction = FALSE
    SlidingTTL = TRUE
    MaxSessions = 2
    MaxTime = 2
    MaxCalls = 6
    MaxInteractions = 2
    MaxRestarts = 0
SYMMETRY Symmetry
INVARIANTS
    DeliveredUnderOwnKey
