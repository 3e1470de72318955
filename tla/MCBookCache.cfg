CONSTANTS
    Uids = {u1, u2}
    Categories = {c1, c2}
    Emails = {e1}
    MaxRefs = 5
SPECIFICATION Spec
SYMMETRY Symmetry
INVARIANTS
    TypeOK
    UsedCategoriesListed
    ListExactWithoutOfflineRemove
    AuxMatchesRows
