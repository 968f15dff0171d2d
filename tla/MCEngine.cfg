SPECIFICATION EngineSpec
CONSTANTS
    b1 = b1
    b2 = b2
    b3 = b3
    b4 = b4
    b5 = b5
    Blocks = {b1, b2, b3, b4, b5}
    Reserved = 2
    Clients = {a, b}
    NSocks = 2
    LimitRate = 1
    LimitDelay = 1
    SimThreshold = 1
    PoolReserved = 1
    MaxClock = 3
    MaxBacklog = 2
    MaxRestarts = 1
    Limiters <- OneLimiter
    NoClient = NoClient
    RecvBuffer = 8
    MaxHeaders = 11
    StoreInFile = 8
    MaxBody = 10
    BufReserved = 9
    Fragments = 1
    MaxRequests = 1
    UintMod = 64
    Wire <- SomeRequests
    Vectors <- SomeVectors
    FileSize = 3
    RangeHeaders <- SomeRanges
    IntMod = 16
    MaxResponses = 2
    WdWorkers = {w1, w2}
    TplFiles = {f, g}
    TplUpdates = {0, 1}
    MaxTplEdits = 1
    MaxRenders = 3
    CacheNames <- SomeNames
    CacheData = {"u", "v"}
    MaxEntries = 3
    MaxUpdates = 2
    Addresses = {1, 2, 3}
    MaxHandlers = 3
    MaxList = 4
    VarCtxs = {"g", "c"}
    GlobalCtx = "g"
    VarNames = {"n", "m"}
    VarValues = {"u", "v"}
    MaxSets = 4
    SelFds = {1, 2, 3}
    SelMax = 2
    SelWorkers = {w1, w2}
    SelConns = 3
    KqFds = {1, 2}
    KqBatch = 2
    KqConns = 3
    LogThreads = {"t1", "t2"}
    Errors = {0, 1}
    LogOutputs = {"both", "unknown"}
    MaxMessages = 2
    t1 = t1
    t2 = t2
    Callers = {t1, t2}
    CallsOf <- EntryCalls
    NArenas = 2
    MaxInits = 2
INVARIANTS
    PoolSound LimitsHold ReceiveExact   VarsExact CacheFinds HeapOwned
       LocksSound
PROPERTY IsAllocator
CHECK_DEADLOCK FALSE
