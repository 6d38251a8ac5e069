SPECIFICATION FairSpec
CONSTANTS
    Loops = {1, 2}
    Slots = {1, 2}
    MaxItems = 1
    KeepAlive = TRUE
    Lossy = TRUE
    Evicts = TRUE
    None = None
INVARIANTS
    OneLoopWhilePolling
    InOnePlace
    NoRegistrationAfterDeregistration
PROPERTIES
    CloseReturns
    EvictedComesBack
    CapturedIsCalled
