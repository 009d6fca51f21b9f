SPECIFICATION Spec

CONSTANTS
    None = None
    Clients = {s1, s2}
    ItemIds = {i1}
    AppraisalIds = {a1, a2}
    EntryIds = {e1, e2, e3}
    Values = {0, 1, 2}
    Prices = {1}
    Dates = {1, 2}
    Quantities = {1, 2}

SYMMETRY Symmetry

INVARIANTS
    TypeOK
    RegisterFollowsJournal
    SoleInventoryMatches

CHECK_DEADLOCK FALSE
