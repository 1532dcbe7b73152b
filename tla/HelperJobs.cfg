SPECIFICATION JobsSpec
CONSTANTS
    Job = {j1, j2}
    DraftJob = {j2}
    j1 = j1
    j2 = j2
    MaxPerHost = 1
    MaxClaims = 3
INVARIANTS
    JobsTypeOK
    CancelledHasNoResult
    StoppedLeavesNetwork
PROPERTIES
    JobsEnd
CHECK_DEADLOCK FALSE
