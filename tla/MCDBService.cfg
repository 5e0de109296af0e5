CONSTANTS
    k1 = k1
    k2 = k2
    p1 = p1
    Keys = {k1, k2}
    PlainKeys = {p1}
    Hash <- MCHash
    PlatHash <- MCPlatHash
    GoroutineNum = 3
    ChannelNum = 1
    CacheCompress = TRUE
    MaxReq = 3
    MaxPlain = 1
    Requests <- MCRequests
    Stock <- MCStock
    Vals = {1}
    NoField = NoField
    Empty = Empty
    NoEntry = NoEntry
    Garbled = Garbled
    NoData = NoData
    Both = Both
SPECIFICATION FairSpec
INVARIANTS
    TypeOK
    CacheCoherent
PROPERTIES
    ImplementsRowService
    EveryRequestEnds
