CONSTANTS
    LocalUids = {l1}
    RemoteUids = {r1}
    Contents = {c1, c2}
    Conflicts = {"KEEP_SERVER"}
    StaleClients = TRUE
    MaxChanges = 4
    None = None
SPECIFICATION Spec
PROPERTIES
    UpdatedByRefresh
