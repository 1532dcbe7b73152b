SPECIFICATION Spec
CONSTANTS
    srtA = srtA
    srtB = srtB
    endpoint = endpoint
    None = None
    Source = {srtA, srtB}
    Cue = {1, 2}
    CuesOf <- MCCuesOf
    StartMs <- MCStart
    EndMs <- MCEnd
    CodePoints <- MCCodePoints
    Position = {1}
    fr = fr
    ja = ja
    p1 = p1
    p2 = p2
    Language = {fr, ja}
    Selection = {p1, p2}
    Endpoint = {endpoint}
    EndpointOf <- MCEndpointOf
    Lookahead = 1
    MaxWindow = 2
    MaxBatch = 2
    MaxBatchCodePoints = 2
    LastAttempt = 1
    MaxSessionEpoch = 4
    MaxWindowEpoch = 1
    MaxRequests = 2
INVARIANTS
    TypeOK
    NothingStale
    OverlayExact
    LiveCallIsCurrent
    CacheMirrorsTranslations
PROPERTIES
    NoRepeatedWork
    ImplementsSession
SYMMETRY MCSymmetry
CHECK_DEADLOCK FALSE
