CONSTANTS
    u1 = u1
    u2 = u2
    p1 = p1
    p2 = p2
    k1 = k1
    None = None
    Users = {u1, u2}
    Payments = {p1, p2}
    Burst = 2
    RefillEvery = 2
    MaxClock = 4
    Alg = "RS256"
    Owner = u1
    Entries = {1, 2, 3}
    Limit = 1
    MaxRequests = 5
    MaxOpen = 2
    MaxLost = 0
    Requests <- MCRequests
    Together <- MCTogether
SPECIFICATION Spec
CONSTRAINT Bounds
\* TLC stops at the first that is violated: check one at a time.
INVARIANT ConflictIs409
INVARIANT FundsIs422
CHECK_DEADLOCK FALSE
