SPECIFICATION FairSpec
CONSTANTS
    Payments = {p1}
    Workers = {w1}
    Funded = {p1}
    NoPayment = NoPayment
    Decisions = {}
    ReviewTTL = "on"
    MaxResults = 2
    MaxFlags = 1
    MaxCrashes = 0
    MaxErrors = 0
PROPERTIES
    SagaEnds
CHECK_DEADLOCK FALSE
