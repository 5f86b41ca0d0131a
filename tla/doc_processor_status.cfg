SPECIFICATION Spec
CONSTANTS
    p1 = p1
    p2 = p2
    Payments = {p1, p2}
    Procs = {c1, c2}
    Commands <- TwoCommands
    MaxAttempts = 2
    MaxCrashes = 0
    MaxErrors = 0
    MaxMoves = 1
PROPERTIES
    StatusIsFinal
CHECK_DEADLOCK FALSE
