SPECIFICATION FairSpec
CONSTANTS
    c1 = c1
    c2 = c2
    c3 = c3
    w1 = w1
    w2 = w2
    Conns = {c1, c2}
    Client <- OneClient
    NFds = 2
    Prealloc = 2
    Workers = {w1, w2}
    Kinds <- KeepKinds
    MaxReq = 2
    MaxPerClient = 4
    MaxKeep = 4
    FreeIdle = FALSE
    PartialReads = FALSE
    PartialWrites = FALSE
    HalfCloses = FALSE
    MaxResets = 0
    MasksOverlap = TRUE
    None = None
PROPERTY Answered
