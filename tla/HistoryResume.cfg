CONSTANTS
    m1 = m1
    m2 = m2
    A = A
    B = B
    NoMsg = NoMsg
    Msgs = {m1, m2}
    Labels = {A, B}
    Listed = {m1}
    Base = 1
    MaxHistoryId = 3
    MayExpire = FALSE
    Unparseable = {}
    FirstListed = m1
    InitialCursors = {0, 1}
    PageMax = 2
    Overrides = {}
    MayFail = TRUE
SYMMETRY LabelSymmetry
SPECIFICATION Spec
INVARIANTS
    TypeOK
    ResumeCovered
    JournalCovered
CHECK_DEADLOCK FALSE
