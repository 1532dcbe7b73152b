SPECIFICATION Spec
CONSTANTS
    None = None
    w1 = w1
    startup = startup
    r1 = r1
    r2 = r2
    Sender <- MCSender
    Startup <- startup
    Request <- MCRequest
    WindowOf <- MCWindowOf
    Setting <- MCPairs
    Parts = 2
    MaxSession = 2
    MaxChanges = 1
    MaxExpiries = 1
INVARIANTS NoOrphanJob CatalogIsCurrent WaitingIsInHand
PROPERTIES WorkIsWanted
CHECK_DEADLOCK FALSE
