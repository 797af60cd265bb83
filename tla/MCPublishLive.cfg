CONSTANTS
    Conns = {c1, c2}
    Streams = {s1}
    NoConn = NoConn
    NoStream = NoStream
    MaxSessions = 2
    MaxFaults = 1
    MayFail = {"close", "retry", "release"}
    Deletable = {}
    QueueCapacity = 2
    FinalizeAttempts = 2
    MaxRestarts = 0
    Republish = FALSE
SPECIFICATION FairSpec
PROPERTIES RequestsResolved StreamsUnblocked
CHECK_DEADLOCK FALSE
