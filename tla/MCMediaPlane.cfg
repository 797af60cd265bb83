CONSTANTS
    Conns = {c1}
    Streams = {s1, s2}
    Sinks <- OneSink
    SinkQueueMax = 1
    RetireMax = 1
    OverflowMax = 1
    Timestamps = {0, 2}
    TsMod = 8
    TsJump = 1
    MaxSessions = 3
    MaxPublishes = 2
    MaxFrames = 1
    MaxFaults = 1
    Sessions = {p1, standby}
    Standby = standby
    QueueMax = 2
    NackMax = 1
    RoundMax = 1
    SendRetries = 1
    MaxBreaks = 2
    MaxRefusals = 1
    MaxMoves = 2
    MaxLives = 2
SPECIFICATION PlaneSpec
INVARIANTS    OutputsFinish OutputsApart
CONSTRAINT BeforeDoubt FewUpsets
CHECK_DEADLOCK FALSE
SYMMETRY StreamSymmetry
