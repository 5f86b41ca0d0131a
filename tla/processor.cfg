SPECIFICATION FairSpec
CONSTANTS
    p1 = p1
    p2 = p2
    Payments = {p1}
    Procs = {c1, c2}
    Commands <- DuplicatedCommands
    MaxAttempts = 2
    MaxCrashes = 1
    MaxErrors = 1
    MaxMoves = 1
CONSTRAINT OneFault
INVARIANTS
    CompletedIsCharged
    CommitOnlyIfPublished
    ResultIsStable
    CallsBounded
PROPERTIES
    EveryCommandAnswered
CHECK_DEADLOCK FALSE
