SPECIFICATION FairSpec
CONSTANTS
    a = a
    c = c
    None = None
    Profile = {a, c}
    Window = {"w1", "w2"}
    InitialProfiles <- MCStored
    InitialActivation <- MCEnabled
    Migrating = TRUE
    MaxRequests = 3
    MaxFaults = 2
INVARIANTS
    BelievesAStoredPicture
    AnswersAreTrue
PROPERTIES
    InService
    NumbersNameOnePicture
CHECK_DEADLOCK FALSE
