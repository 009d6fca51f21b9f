SPECIFICATION Spec

CONSTANTS
    None = None
    Deleted = Deleted
    c1 = c1
    c2 = c2
    cash = cash
    pay = pay
    a1 = a1
    a2 = a2
    a3 = a3
    Clients = {s1, s2}
    EntryIds = {e1, e2, e3}
    Campaigns <- MCCampaigns
    Codes <- MCCodes
    AccountIds <- MCAccountIds
    Drafts <- MCDrafts
    Amounts = {1}
    NewTypes = {"income"}
    Seed <- MCSeed

SYMMETRY Symmetry

INVARIANT ReversedEntriesCancelOut

CHECK_DEADLOCK FALSE
