CONSTANTS
    MaxMsgs = 6
    Before = 4
    PageMax = 2
SPECIFICATION FairSpec
INVARIANTS
    TypeOK
    NothingMissed
    PagesInOrder
PROPERTIES
    EventuallyListed
CHECK_DEADLOCK FALSE
