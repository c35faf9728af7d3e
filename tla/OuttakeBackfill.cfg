CONSTANTS
    Msgs = {1, 2}
    Labels = {"A"}
    Listed = {1}
    Base = 1
    MaxHistoryId = 3
    MayExpire = TRUE
    PageMax = 1
    Unparseable = {}
SPECIFICATION Spec
INVARIANT
    Backfilled
