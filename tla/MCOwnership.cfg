CONSTANTS
    Me = Me  Other = Other  NoNode = NoNode
    Conns = {c1}  NoConn = NoConn
    Faults = {"timeout", "unsent", "cut", "crash", "age", "read"}
    MaxTries = 1  MaxOther = 1  MaxFails = 1  MaxShocks = 1
SPECIFICATION Spec
INVARIANT NoGhostOwner
PROPERTY IsLease
CONSTRAINT OneFault
CHECK_DEADLOCK FALSE
