SPECIFICATION Spec
CONSTANTS
    c1 = c1
    c2 = c2
    c3 = c3
    w1 = w1
    w2 = w2
    Conns = {c1, c2, c3}
    Client <- OneClient
    NFds = 3
    Prealloc = 2
    Workers = {w1, w2}
    Kinds <- CloseKinds
    MaxReq = 1
    MaxPerClient = 4
    MaxKeep = 4
    FreeIdle = TRUE
    PartialReads = FALSE
    PartialWrites = TRUE
    HalfCloses = FALSE
    MaxResets = 1
    MasksOverlap = FALSE
    None = None
INVARIANTS  ListBounded OneStructPerSocket 
SYMMETRY Symmetry
