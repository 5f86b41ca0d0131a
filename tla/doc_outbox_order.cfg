SPECIFICATION OutboxSpec
CONSTANTS
    Events = {1, 2}
    Backlog = {1, 2}
    Publishers = {p1, p2}
    BatchSize = 1
    MaxFaults = 0
INVARIANTS DrainedInOrder
CHECK_DEADLOCK FALSE
