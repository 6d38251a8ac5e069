SPECIFICATION MCSpec
CONSTANTS
    IDs = {a, b, c, d}
    Secrets = {s1}
    Procs = {p1, p2}
    None = None
    MaxCacheCapacity = 3
    MaxProbe = 2
    TTL = 1
    NoEviction = FALSE
    SlidingTTL = TRUE
    MaxSessions = 5
    MaxTime = 3
    MaxCalls = 5
    MaxInteractions = 1
SYMMETRY Symmetry
INVARIANTS
    LRUCoherent
    CapacityRespected
    SessionConservation
PROPERTIES
    EvictionJustified
    VictimNotMostRecent
