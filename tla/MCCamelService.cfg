CONSTANTS
    Connects = {connect1}
    Disconnects = {disconnect1, disconnect2}
    FolderTasks = {task1, task2}
    Folders = {f1}
    f1 = f1
    FolderOf <- OneFolder
    Cancellers = {connect1, task2}
    None = None
SPECIFICATION Spec
CHECK_DEADLOCK FALSE
INVARIANTS
    TypeOK
    StatusMatchesOp
    LastOperationDecides
    OneTaskAtATime
PROPERTIES
    DisconnectedIndeed
    CallsReturn
