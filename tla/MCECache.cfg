CONSTANTS
    Uids = {u1}
    Objects = {o1, o2}
    NoObject = NoObject
    Threads = {t1, t2}
    NoThread = NoThread
    MaxNesting = 2
    RestartTime = 1
    MaxTime = 3
    MaxCounter = 2
SPECIFICATION Spec
SYMMETRY Symmetry
INVARIANTS
    TypeOK
    ReplayGivesVisible
    ChangesApply
    GuardSound
