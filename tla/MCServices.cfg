SPECIFICATION ServicesSpec
CONSTANTS
    Key = {k1, k2}
    Data = {d1}
    MutableKey = TRUE
    MaxId = 3
    MaxDepth = 2
    MaxRevision = 2
    Nodes = {"a", "b", "c", "d", "e"}
    Firewalled = {"c"}
    ChainOf <- MCChainOf
    Desired <- OneEach
    Maximum <- MCMaximum
    Routes <- MCRoutes
    MaxDials = 1
    Worlds <- MCWorlds
    Payloads = {"s", "m", "h"}
    Items = {"i"}
    SizeOf <- MCSizeOf
    IdSize = 2
    HeaderBytes = 2
    BlockBytes = 4
    SizeModulus = 64
    MaxMessageSize = 6
    MaxQueued = 7
    BufferBlocks = 2
    MaxSent = 3
    SocketFaults = 1
    Threads = {1, 2, 3}
    Locks = 2
    MaxCalls = 5
    Trxs = {"t1", "t2", "t3"}
    Expiration <- MCExpiration
    TrxSize <- MCTrxSize
    Author <- MCAuthor
    Spends <- MCSpends
    MaxUntilExpiration = 3
    BlockSizeLimit = 5
    HeaderEstimate = 1
    HeaderSize = 2
    BandwidthWindow = 3
    Bandwidth = 3
    Gaps = {1, 2}
    MaxForeign = 2
    LastTrxTime = 6
    SignKeys = {1, 2, 3}
    Signatories = {1, 2, 3, 4}
    Temp = 4
    MaxSigCheckDepth = 1
    Graphs <- MCGraphs
    Requirements <- MCRequirements
    Withdrawers = {2, 3}
    Dev = 0
    TrackedRanges <- MCTrackedRanges
    MaxHistory = 4
INVARIANTS ConnectionsSound MessagesSound SquashNeverNA AuthoritiesSound HistorySound
PROPERTIES TransactionsSound EverythingSettles EverybodyEnds
CHECK_DEADLOCK FALSE
