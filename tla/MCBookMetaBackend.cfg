CONSTANTS
    LocalUids = {l1}
    RemoteUids = {r1}
    Contents = {c1, c2}
    Conflicts = {"FAIL", "KEEP_SERVER", "KEEP_LOCAL"}
    StaleClients = FALSE
    MaxChanges = 5
    None = None
SPECIFICATION Spec
INVARIANTS
    TypeOK
    InSync
PROPERTIES
    OfflineChangesUploaded
    RefreshSynchronizes
