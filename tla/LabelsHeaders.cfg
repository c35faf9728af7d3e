CONSTANTS
    m1 = m1
    m2 = m2
    L1 = L1
    L2 = L2
    w1 = w1
    w2 = w2
    Work = Work
    Home = Home
    NoWorker = NoWorker
    Msgs = {m1, m2}
    Ids = {L1, L2}
    NamePool = {{Work}, {Home}}
    Workers = {w1, w2}
    MaxChanges = 3
    MayFail = TRUE
SYMMETRY Symmetry
SPECIFICATION Spec
INVARIANTS
    TypeOK
    HeaderInSync
    RawToTheEnd
    LockHeld
CHECK_DEADLOCK FALSE
