CONSTANTS
    n1 = n1
    n2 = n2
    r1 = r1
    r2 = r2
    Nodes = {n1, n2}
    Requests = {r1, r2}
    Entry = {n1}
    Viewed = {n2}
    FinalizeAttempts = 2
    Shards = 2
    MaxLog = 5
    MaxFaults = 3
SPECIFICATION Spec
SYMMETRY RequestSymmetry
ACTION_CONSTRAINT PruneAtOnce
VIEW Relevant
INVARIANTS DeletesContained 
CHECK_DEADLOCK FALSE
