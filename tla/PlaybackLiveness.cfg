SPECIFICATION FairSpec
CONSTANTS
    srtA = srtA
    srtB = srtB
    endpoint = endpoint
    None = None
    Source = {srtA}
    Cue = {1, 2, 3}
    CuesOf <- MCCuesOf
    StartMs <- MCStart
    EndMs <- MCEnd
    CodePoints <- MCOversizedFirst
    Position = {1, 2}
    fr = fr
    ja = ja
    p1 = p1
    p2 = p2
    Language = {fr}
    Selection = {p1}
    Endpoint = {endpoint}
    EndpointOf <- MCEndpointOf
    Lookahead = 1
    MaxWindow = 3
    MaxBatch = 1
    MaxBatchCodePoints = 2
    LastAttempt = 3
    MaxSessionEpoch = 2
    MaxWindowEpoch = 1
    MaxRequests = 4
PROPERTIES
    WantedCuesSettle
CHECK_DEADLOCK FALSE
