CONSTANTS
    GetMessages = {}
    Copies = {expunge1, expunge2}
    Expunges = {expunge1, expunge2}
    Refreshes = {}
    Connects = {connect1}
    Conns = {c1, c2, c3}
    MaxConnections = 2
    MaxDisconnects = 0
    None = None
SPECIFICATION Spec
CHECK_DEADLOCK FALSE
PROPERTIES
    JobsEndUnlessOneWaits
