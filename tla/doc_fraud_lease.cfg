SPECIFICATION Spec
CONSTANTS
    Workers = {w1}
    NumRequests = 1
    Malformed = {}
    Established = TRUE
    Retention = FALSE
    MaxErrors = 0
    MaxExpiries = 0
    MaxRevokes = 0
    MaxStops = 0
INVARIANTS
    LeaseReleasedOnCompletion
CHECK_DEADLOCK FALSE
