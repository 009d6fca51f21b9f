SPECIFICATION Spec

CONSTANTS
    None = None
    q1 = q1
    t1 = t1
    t2 = t2
    Clients = {s1, s2}
    EntryIds = {e1, e2, e3}
    QuestIds <- MCQuestIds
    Titles <- MCTitles
    Rewards = {0, 2}
    Payments = {1, 3}
    HandPosted = {1}
    Seed <- MCSeed

SYMMETRY Symmetry

INVARIANTS
    TypeOK
    StatusFollowsJournal
    TotalPaidIsNetCash

PROPERTIES
    SoleClosedQuestsRest

CHECK_DEADLOCK FALSE
