SPECIFICATION FairSpec
CONSTANTS
    Events = {1, 2}
    Endpoints = {e1}
    Publishers = {p1, p2}
    Matches <- MCMatches
    BatchLimit = 1
    MaxAttempts = 2
    MaxCrashes = 1
CHECK_DEADLOCK FALSE
PROPERTIES
    OneRunAtATime
    EventsSettle
    ImplementsDelivery
