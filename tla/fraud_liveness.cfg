SPECIFICATION FairSpec
CONSTANTS
    Workers = {w1}
    NumRequests = 2
    Malformed = {}
    Established = TRUE
    Retention = FALSE
    MaxErrors = 0
    MaxExpiries = 0
    MaxRevokes = 0
    MaxStops = 0
INVARIANTS
    TypeOK
    MarkedIsSettled
PROPERTIES
    EveryRequestSettled
CHECK_DEADLOCK FALSE
