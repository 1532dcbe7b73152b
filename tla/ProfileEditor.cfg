SPECIFICATION MCSpec
CONSTANTS
    None = None
    Profile = {p}
    MaxVersion = 2
    MaxDrawers = 2
    MaxRequests = 2
    MaxEdits = 1
    MaxQueue = 2
CONSTRAINT MCUnderWay
INVARIANTS
    SaveExpectsWhatIsShown TestTellsTheDraft KeyBelongsToTheDrawer RequestsAreOwned WaitsEnd
CHECK_DEADLOCK FALSE
