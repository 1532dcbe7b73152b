SPECIFICATION Spec
CONSTANTS
    Caller = {a, b}
    Check = Check
    MaxLaunches = 2
    MaxFaults = 1
    Slots = 1
    None = None
INVARIANTS
    SlotsAccounted
    NoClientIsLost
PROPERTIES
    OperationsEnd
CHECK_DEADLOCK FALSE
