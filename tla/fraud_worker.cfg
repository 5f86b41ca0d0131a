SPECIFICATION Spec
CONSTANTS
    Workers = {w1, w2}
    NumRequests = 2
    Malformed = {2}
    Established = TRUE
    Retention = TRUE
    MaxErrors = 1
    MaxExpiries = 1
    MaxRevokes = 1
    MaxStops = 1
INVARIANTS FlaggedIsStored CommitOnlyIfSettled NoDoubleScoring
CHECK_DEADLOCK FALSE
