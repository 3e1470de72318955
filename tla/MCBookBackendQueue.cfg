CONSTANTS
    Opens = {open1}
    Customs = {custom1}
    Methods = {method1, method2}
    Syncs = {method2}
    Main = Main
    Workers = {w1}
    MaxThreads = 2
    None = None
SPECIFICATION Spec
INVARIANTS
    TypeOK
    NothingPassesBlocking
    RunOnce
PROPERTIES
    EveryCallFinishes
    ImplementsQueue
