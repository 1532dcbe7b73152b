SPECIFICATION Spec
CONSTANTS
    None = None
    MaxHelpers = 3
    MaxCalls = 3
    MaxFaults = 2
    MaxLosses = 1
INVARIANTS
    TypeOK
    ReliedOnIsDurable
PROPERTIES
    NothingIsLost
CHECK_DEADLOCK FALSE
