SPECIFICATION Spec
CONSTANTS
    c1 = c1
    c2 = c2
    c3 = c3
    w1 = w1
    w2 = w2
    Conns = {c1, c2}
    Client <- OneClient
    NFds = 2
    Prealloc = 2
    Workers = {w1, w2}
    Kinds <- OwnKinds
    MaxReq = 2
    MaxPerClient = 4
    MaxKeep = 4
    FreeIdle = FALSE
    PartialReads = TRUE
    PartialWrites = TRUE
    HalfCloses = TRUE
    MaxResets = 0
    MasksOverlap = FALSE
    None = None
INVARIANT OwnResponses
SYMMETRY Symmetry
