SPECIFICATION Spec
CONSTANTS
    Events = {1, 2}
    Endpoints = {e1, e2}
    Publishers = {p1}
    Matches <- MCMatches
    BatchLimit = 2
    MaxAttempts = 2
    MaxCrashes = 0
CHECK_DEADLOCK FALSE
INVARIANTS
    AtMostMaxAttempts
