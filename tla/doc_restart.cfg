SPECIFICATION FairSpec
CONSTANTS
    Payments = {p1}
    Workers = {w1}
    Funded = {}
    NoPayment = NoPayment
    Decisions = {"read_resume", "read_reject"}
    ReviewTTL = "off"
    MaxResults = 1
    MaxFlags = 0
    MaxCrashes = 1
    MaxErrors = 0
PROPERTIES
    ServesAgain
CHECK_DEADLOCK FALSE
