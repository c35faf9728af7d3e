CONSTANTS
    Callers = {"c1", "c2"}
    Period = 2
    Rate = 2
    BackoffLimit = 3
    BackoffStart = 1
    BackoffMax = 3
    HalfWord = 16
    Periods = 2
SPECIFICATION FairSpec
INVARIANTS
    BurstBound
    BackoffGrows
PROPERTIES
    CallsReturn
