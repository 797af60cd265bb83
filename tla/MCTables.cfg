CONSTANTS
    s = s
    a = a
    b = b
    v = v
    n1 = n1
    n2 = n2
    n3 = n3
    Ids = {s}
    Tokens = {a, b}
    NoToken = NoToken
    Viewers = {v}
    Default = Default
    Nodes = {n1}
    NodeIds = {n1, n2, n3}
    NoNode = NoNode
    ApiTokens = {a}
    NoApi = NoApi
    Proposals <- TableProposals
    Quorums = {{n1}}
    MaxLog = 4
    MaxCrashes = 1
    CrashAt = {"free", "apply", "build", "publish", "indexed"}
    Builders = {}
    MaxUnlocked = 1
    HlsViewers = {"v"}
    Clients = {"a", "b"}
    Slots = {1, 2, 3}
    HlsCap = 2
    MaxHlsFaults = 1
    NoEntry = NoEntry
    KeyViewers = {"d", "v", "w"}
    KeyOf <- MCKeyOf
    DefaultViewer = "d"
    Players = {"a", "b"}
    ShardOf <- MCShardOf
    MaxGeneration = 3
    Nobody = Nobody
    StatIds = {1, 2, 3}
    MaxMedia = 3
    NoBytes = NoBytes
    Conns = {"w", "x", "n", "d", "e", "f"}
    PartConns <- MCPartConns
    Kind <- MCKind
    Source <- MCSource
    Members = {"A"}
    Size <- MCSize
    MaxPreauth <- MCMaxPreauth
    MaxPerIp = 1
    MaxMember = 1
    MaxInflight = 1
    MaxBytes = 1
SPECIFICATION TablesSpec
INVARIANTS CaughtUpAgree KeysRemain EpochsNameGrants HlsSlotsFound RevocationHolds TrafficCharged ControlHolds
PROPERTIES DeletesAreMeant
CHECK_DEADLOCK FALSE
