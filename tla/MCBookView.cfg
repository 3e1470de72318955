CONSTANTS
    BookUids = {u1, u2}
    u1 = u1
    u2 = u2
    Contents = {"a", "other"}
    Matching = {"a"}
    Initial <- AtFirst
    MaxStarts = 2
    None = None
    THRESHOLD_ITEMS = 2
    MaxChanges = 2
SPECIFICATION ViewSpec
CHECK_DEADLOCK FALSE
INVARIANTS
    ViewTypeOK
    EventsApply
PROPERTIES
    SettlesInSync
