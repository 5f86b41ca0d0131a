SPECIFICATION Spec
CONSTANTS
    Payments = {p1, p2}
    Workers = {w1, w2}
    Funded = {p1}
    NoPayment = NoPayment
    Decisions = {"read_resume"}
    ReviewTTL = "on"
    MaxResults = 1
    MaxFlags = 1
    MaxCrashes = 1
    MaxErrors = 1
SYMMETRY Symmetry
CONSTRAINT OneFault
INVARIANTS
    ConfirmOnlyIfCharged
    TerminalRowIsTrue
    CommitOnlyIfKept
PROPERTIES
    KeepsOutcome
CHECK_DEADLOCK FALSE
