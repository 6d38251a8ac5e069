SPECIFICATION Spec
CONSTANTS
    IDs = {"a", "b"}
    Sessions = {1, 2}
    WeakKeys = {2}
    Domains <- MCDomains
    None = None
    Arrivals <- MCArrivals
    Pollers = {1}
    Wildcard = TRUE
    Extra = TRUE
    ScanEverywhere = TRUE
    MaxMessages = 2
    MaxParts = 4
    MaxPolls = 2
    MaxFaults = 1
INVARIANTS WildcardNotBehind OffsetsAnswered AnsweredIsCaptured RawTextOnce
