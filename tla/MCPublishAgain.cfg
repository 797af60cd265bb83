CONSTANTS
    Conns = {c1, c2}
    Streams = {s1, s2}
    NoConn = NoConn
    NoStream = NoStream
    MaxSessions = 3
    MaxFaults = 1
    MayFail = {"prior", "acquire", "restore"}
    Deletable = {}
    QueueCapacity = 2
    FinalizeAttempts = 2
    MaxRestarts = 0
    Republish = TRUE
SPECIFICATION Spec
INVARIANTS OneActivePublisher
SYMMETRY ConnStreamSymmetry
CHECK_DEADLOCK FALSE
