CONSTANTS
    Opens = {o1, o2, o3, o4}
    Clients = {c1, c2}
    Sources = {s1, s2}
    ClientOf <- TheirClients
    SourceOf <- TheirSources
    None = None
    o1 = o1
    o2 = o2
    o3 = o3
    o4 = o4
    c1 = c1
    c2 = c2
    s1 = s1
    s2 = s2
SPECIFICATION Spec
CHECK_DEADLOCK FALSE
INVARIANTS
    TypeOK
    HoldsExact
    KeptWhileUsed
PROPERTIES
    Settled
