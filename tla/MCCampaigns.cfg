SPECIFICATION Spec

CONSTANTS
    None = None
    Server = Server
    c1 = c1
    c2 = c2
    Sessions = {s1, s2}
    CampaignIds <- MCCampaignIds
    Initial = c1
    Kinds = {"entries", "notes"}
    SeedAccounts = 1
    Hosting <- AnyHosting

SYMMETRY Symmetry

INVARIANTS
    TypeOK
    WorkKeepsItsCampaign

PROPERTIES
    SoleWritesGoWhereShown
