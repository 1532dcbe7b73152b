SPECIFICATION FairSpec
CONSTANTS
    None = None
    Track = {"srt"}
    MaxEpoch = 1
    MaxAttempts = 2
    MaxFaults = 1
INVARIANTS
    SidebarTellsView
    NeverRefused
    NothingLeft
PROPERTIES
    SourceIsSelected
    PreparationReturns
CHECK_DEADLOCK FALSE
