CONSTANTS
    GetMessages = {get1, get2}
    Copies = {}
    Expunges = {}
    Refreshes = {refresh1}
    Connects = {}
    Conns = {c1, c2, c3}
    MaxConnections = 2
    MaxDisconnects = 1
    None = None
SPECIFICATION Spec
CHECK_DEADLOCK FALSE
SYMMETRY Symmetry
INVARIANTS
    TypeOK
    ExclusiveUse
    NoDuplicateJobs
    BusyIsUsed
    CancelNotInherited
