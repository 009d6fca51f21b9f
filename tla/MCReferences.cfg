SPECIFICATION ReferencesSpec

CONSTANTS
    Clients = {c1, c2}
    CampaignIds = {k1, k2}
    TypeIds = {"npc", "guild"}
    TypeNames = {"NPC", "Guild"}
    BuiltIn <- MCBuiltIn
    Names = {"Bryn", "Rynne"}
    Texts <- MCTexts
    Queries = {"ryn"}
    Prefixed <- MCPrefixed
    Containing <- MCContaining
    MaxRows = 2
    MaxCalls = 3
    MaxFailures = 1

SYMMETRY Symmetry

INVARIANTS
    ReferencesTypeOK
    CodexLinksStayInCampaign
    SoleSearchFindsReferrers

PROPERTIES
    LoneCallsSettleLinks

CHECK_DEADLOCK FALSE
