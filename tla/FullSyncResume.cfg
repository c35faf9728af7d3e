CONSTANTS
    Msgs = {1, 2, 3}
    Labels = {"L"}
    Listed = {1, 2}
    Base = 2
    MaxHistoryId = 3
    MayExpire = TRUE
    MaxKeys = 5
    Unparseable = {2}
    PageMax = 1
    ConcurrentDownloads = 1
    MessageBufferSize = 1
    MayForce = TRUE
    MaxKills = 1
SPECIFICATION FairSpec
INVARIANTS
    UnchangedExact
    DeletesOnlyGone
    CacheTrue
PROPERTIES
    Completes
CHECK_DEADLOCK FALSE
