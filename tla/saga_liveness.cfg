SPECIFICATION FairSpec
CONSTANTS
    Payments = {p1, p2}
    Workers = {w1}
    Funded = {p1, p2}
    NoPayment = NoPayment
    Decisions = {}
    ReviewTTL = "off"
    MaxResults = 2
    MaxFlags = 0
    MaxCrashes = 1
    MaxErrors = 0
PROPERTIES
    SagaEnds
    ServesAgain
CHECK_DEADLOCK FALSE
