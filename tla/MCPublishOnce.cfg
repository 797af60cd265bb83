CONSTANTS
    Conns = {c1, c2}
    Streams = {s1}
    NoConn = NoConn
    NoStream = NoStream
    MaxSessions = 2
    MaxFaults = 2
    MayFail = {"acquire", "close", "persist", "drop", "release", "retry", "begin", "finalize", "rollback", "recover"}
    Deletable = {s1}
    QueueCapacity = 1
    FinalizeAttempts = 2
    MaxRestarts = 1
    Republish = FALSE
SPECIFICATION Spec
INVARIANTS OneActivePublisher NoOrphanRow FastSessionsDrain
SYMMETRY ConnSymmetry
CHECK_DEADLOCK FALSE
