SPECIFICATION Spec
CONSTANTS
    p1 = p1
    p2 = p2
    Payments = {p1, p2}
    Procs = {c1}
    Commands <- TwoCommands
    MaxAttempts = 2
    MaxCrashes = 0
    MaxErrors = 1
    MaxMoves = 0
INVARIANTS
    OffsetBehindResults
CHECK_DEADLOCK FALSE
