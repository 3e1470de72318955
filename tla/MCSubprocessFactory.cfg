CONSTANTS
    Opens = {o1, o2, o3}
    Clients = {c1, c2}
    Sources = {s1}
    ClientOf <- TheirClients
    SourceOf <- TheirSources
    None = None
    MaxCrashes = 1
    o1 = o1
    o2 = o2
    o3 = o3
    c1 = c1
    c2 = c2
    s1 = s1
SPECIFICATION Spec
CHECK_DEADLOCK FALSE
INVARIANTS
    TypeOK
    HoldsExact
    KeptWhileUsed
PROPERTIES
    Settled
