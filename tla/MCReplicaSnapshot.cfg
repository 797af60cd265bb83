CONSTANTS
    s = s
    a = a
    b = b
    v = v
    n1 = n1
    n2 = n2
    n3 = n3
    Ids = {s}
    Tokens = {a, b}
    NoToken = NoToken
    Viewers = {v}
    Default = Default
    Nodes = {n1, n2}
    NodeIds = {n1, n2, n3}
    NoNode = NoNode
    ApiTokens = {a}
    NoApi = NoApi
    Proposals <- SnapshotProposals
    Quorums = {{n1}}
    MaxLog = 3
    MaxCrashes = 1
    CrashAt = {"free", "apply", "build", "publish", "indexed"}
    Builders = {n1, n2}
    MaxUnlocked = 1
SPECIFICATION Spec
INVARIANTS TablesMatchLog SnapshotsMatchLog MembersMatchLog PurgedCovered
CHECK_DEADLOCK FALSE
