SPECIFICATION FairSpec
CONSTANTS
    MaxWrites = 6
    Domains <- MCDomains
    None = None
    MaxAges = 2
    MaxRestarts = 1
    MaxFaults = 2
    MaxReadFaults = 2
INVARIANTS
    RecordsAreOrders
    GapExplained
PROPERTIES
    RotationServed
    ExpiringHandled
