CONSTANTS
    m1 = m1
    m2 = m2
    w1 = w1
    w2 = w2
    Msgs = {m1, m2}
    N = 3
    MsgOf <- TwiceListed
    Unparseable = {m2}
    Workers = {w1, w2}
    BufferSize = 1
    BatchSize = 3
    FlushEvery = 2
    MayFail = TRUE
SPECIFICATION FairSpec
INVARIANTS
    TypeOK
    CheckpointCovers
    CompleteWhenOk
    OnePlace
PROPERTIES
    RunEnds
    EventuallyThrough
    ImplementsCheckpoint
