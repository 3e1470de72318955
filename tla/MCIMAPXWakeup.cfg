CONSTANTS
    GetMessages = {get1}
    Copies = {copy1}
    Expunges = {}
    Refreshes = {}
    Connects = {}
    Conns = {c1, c2, c3}
    MaxConnections = 1
    MaxDisconnects = 0
    None = None
SPECIFICATION Spec
CHECK_DEADLOCK FALSE
PROPERTIES
    CancelledWaitEnds
