SPECIFICATION Spec
CONSTANTS
    Loops = {1}
    Slots = {1, 2}
    MaxItems = 1
    KeepAlive = TRUE
    Lossy = TRUE
    Evicts = TRUE
    None = None
INVARIANT ClosedIsDeregistered
