SPECIFICATION Spec

CONSTANTS
    None = None
    Uploaders = {u1, u2}
    Addresses = {a, b}
    CampaignIds = {"c1", "c2"}
    Rows <- MCRows
    Builtin <- MCBuiltin
    Locals <- MCLocals
    Remotes <- MCRemotes
    MaxEdits = 1

SYMMETRY Symmetry

INVARIANTS
    TypeOK
    SoleTokensKept

PROPERTIES
    ArrivesWhole
    OnlyTypesStayAway

CHECK_DEADLOCK FALSE
