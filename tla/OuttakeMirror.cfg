CONSTANTS
    Msgs = {1, 2, 3}
    Labels = {"A"}
    Listed = {1}
    Base = 1
    MaxHistoryId = 4
    MayExpire = TRUE
    PageMax = 1
    Unparseable = {1}
SPECIFICATION FairSpec
INVARIANTS
    MirrorCovered
PROPERTIES
    EventuallyExact
