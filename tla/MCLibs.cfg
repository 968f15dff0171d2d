SPECIFICATION LibsSpec
CONSTANTS
    TplTexts <- SomeTexts
    TplContexts <- SomeContexts
    TplLibrary <- SomeLibrary
    TplDepth = 12
    HtInputs <- SomeInputs
    PathPrealloc = 5
    CfgFiles <- SomeFiles
    CfgMain = "m"
    CfgSpaces <- SomeSpaces
    CfgLoads <- SomeLoads
    CfgPathLen = 6
    DbNodes = {"n1", "n2"}
    DbSets = {"rs", "other"}
    DbSeeds <- SomeSeeds
    OwnSet = "rs"
    DbLists <- SomeServers
    Answer <- SomeAnswer
    QueryLimits = {0, 1, 2}
    Tailable = TRUE
    MaxSeen = 4
    WriteDocs <- SomeDocs
    Users = {"u"}
    Passwords = {"p", "q"}
    ChunkSize = 4
    MaxBytes = 9
    OffsetBits = 8
    IntBits = 4
    Texts <- SomeBytes
    BufferSize = 6
    Appends <- SomeAppends
    Copies <- SomeCopies
    IntMax = 1000
    ShortMax = 15
    MaxDepth = 2
    MaxCalls = 3
    TreeKeys <- SomeKeys
    SizeCases <- SomeSizeCases
    Drawers = {t1, t2}
    CapFiles <- SomeImages
    MinChars = 1
    MaxChars = 1
    PngSizes = {1, 2}
    MaxImages = 3
    CapCases <- SomeCapCases
    DigCases <- SomeMessages
    KnownDigests <- SomeDigests
    LenMod = 512
    ScrFiles = {"f", "g"}
    ScrMaps <- SomeMaps
    ScrPaths <- SomePaths
    ScrUpdate = {0, 1}
    MaxMaps = 2
    MaxMtime = 2
    t1 = t1
    t2 = t2
    Slots <- TwoSlots
    LastPage = 3
    HeaderPages = 1
    DirtyMax = 2
    BinInfo <- OneBin
    PageCounts = {1, 3}
    ElmBits = 1
    Mallocers = {t1, t2}
    Resizers = {t1}
    MaxLive = 3
    Threads = {t1, t2}
    ChunkUnits = 2
    AddressSpace = 18
    Places = {0, 3}
    Requests <- SomeHugeRequests
    Pagefile = TRUE
    BaseNodes = 3
    MaxHeld = 1
    MaxPallocs = 1
INVARIANTS
    TemplatesExpand  ConfigRead DatabaseSound  
    TreeSound  SizesExact UtilsSound 
CHECK_DEADLOCK FALSE
