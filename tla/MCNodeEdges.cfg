CONSTANTS
    v1 = v1
    v2 = v2
    p1 = p1
    p2 = p2
    p3 = p3
    q1 = q1
    NoRoute = NoRoute
    Viewers = {v1, v2}
    Sessions = {p1, p2, p3, q1}
    ViewerOf <- MCViewerOf
    StreamKeys <- MCStreamKeys
    Cap = 2
    MaxFaults = 2
    MayFail = {"insert", "update", "commit", "resync"}
    MaxRestarts = 1
    MaxRequests = 3
    RoleFaults = 1
    Shards = {1, 2}
    Conns = {"c1", "d1"}
    Home <- MCHome
    Routes = {"q", "r"}
    Wants <- MCWants
    InboxCap = 1
    MaxFrames = 1
    MaxEnds = 1
    Fds = {3, 4}
    Listener = 2
    MaxConns = 2
    MaxId = 3
SPECIFICATION EdgeSpec
INVARIANTS SlotsAccounted ReservationsAccounted CapHolds RolesKept HandOversKept
PROPERTIES NoAdmissionPastCap
SYMMETRY MCSymmetry
CHECK_DEADLOCK FALSE
