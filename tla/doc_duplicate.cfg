SPECIFICATION Spec
CONSTANTS
    Payments = {p1}
    Workers = {w1, w2}
    Funded = {p1}
    NoPayment = NoPayment
    Decisions = {"read_resume", "read_reject"}
    ReviewTTL = "off"
    MaxResults = 1
    MaxFlags = 0
    MaxCrashes = 0
    MaxErrors = 0
PROPERTIES
    DuplicateStartReturnsExisting
CHECK_DEADLOCK FALSE
