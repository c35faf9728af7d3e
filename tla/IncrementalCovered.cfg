CONSTANTS
    Msgs = {1, 2, 3}
    Labels = {"A"}
    Listed = {1}
    Base = 2
    MaxHistoryId = 5
    MayExpire = TRUE
    MaxKeys = 5
    Unparseable = {3}
    ConcurrentDownloads = 2
    MessageBufferSize = 1
    MaxKills = 1
SPECIFICATION IncSpec
INVARIANTS
    PresenceCovered
    SingleChange
    NobodyStuck
CHECK_DEADLOCK FALSE
