SPECIFICATION Spec
CONSTANTS
    Events = {1, 2}
    Endpoints = {e1, e2}
    Publishers = {p1}
    Matches <- MCMatches
    BatchLimit = 2
    MaxAttempts = 2
    MaxCrashes = 1
SYMMETRY PublisherSymmetry
CHECK_DEADLOCK FALSE
INVARIANTS
    TypeOK
    PublishedWasReceived
    DeliveryHistoryExact
    GivenUpInTheEnd
    RetriesBounded
