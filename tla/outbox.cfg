SPECIFICATION FairOutboxSpec
CONSTANTS
    Events = {1, 2}
    Backlog = {}
    Publishers = {p1, p2}
    BatchSize = 2
    MaxFaults = 2
INVARIANTS
    MarkedIsProduced
PROPERTIES
    EveryEventProduced
CHECK_DEADLOCK FALSE
