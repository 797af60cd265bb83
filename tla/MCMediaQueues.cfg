CONSTANTS
    NStreams = 2
    Frames <- TwoStreams
    ControlSize = 1
    MaxMessages = 2
    MaxBytes = 4
    MaxAge = 0
    ResyncWait = 1
    MaxPushes = 4
    MaxTime = 2
    MaxFails = 1
    NoInit = NoInit
SPECIFICATION QueuesSpec
INVARIANTS  ExchangeDelivers
PROPERTY ExchangeNeverTears
CHECK_DEADLOCK FALSE
