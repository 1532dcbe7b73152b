SPECIFICATION Spec
CONSTANTS
    a = a
    c = c
    None = None
    Profile = {a}
    Window = {"w1"}
    InitialProfiles <- MCStored
    InitialActivation <- MCEnabled
    Migrating = FALSE
    MaxRequests = 2
    MaxFaults = 3
INVARIANTS
    FailedChangeIsNotStored
CHECK_DEADLOCK FALSE
