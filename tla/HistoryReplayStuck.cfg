CONSTANTS
    m1 = m1
    m2 = m2
    A = A
    B = B
    NoMsg = NoMsg
    Msgs = {m1, m2}
    Labels = {A}
    Listed = {m1}
    Base = 1
    MaxHistoryId = 3
    MayExpire = TRUE
    Unparseable = {}
    FirstListed = m1
    InitialCursors = {1}
    PageMax = 1
    Overrides = {}
    MayFail = FALSE
SPECIFICATION FairSpec
PROPERTY
    ReplayContinues
CHECK_DEADLOCK FALSE
