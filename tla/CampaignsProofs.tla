---------------------------- MODULE CampaignsProofs ----------------------------
(***************************************************************************)
(* Proofs about campaigns, for any number of sessions, programs and        *)
(* campaigns.                                                              *)
(***************************************************************************)
EXTENDS Campaigns, TLAPS

-------------------------------------------------------------------------------
(* The inductive invariant.                                                *)

Known(c) == campaigns[c] # "unused"
Deleted(c) == c \in CampaignIds /\ campaigns[c] = "deleted"

\* What a running call relies on, whoever else runs: the campaign it works on has been
\* made, and what is left to seed still fits into its chart.
Begun(c) ==
    /\ c.op \in {"seeding", "activating", "activate", "listing", "renamed"} => Known(c.campaign)
    /\ c.op = "seeding" => chart[c.campaign] + c.left <= SeedAccounts
    /\ c.op = "counting" => c.left # <<>>

\* A campaign is seeded by the one call that made it.
OneSeeds ==
    \A s, t \in Sessions :
        call[s].op = "seeding" /\ call[t].op = "seeding" /\ call[s].campaign = call[t].campaign
        => s = t

\* The session has its program to itself.
Alone(s) == \A t \in Online : host[t] = host[s] => t = s

\* A name and an id that belong together, or a campaign that is gone for good.
Match(title, id) == title = id \/ Deleted(id)

\* The tail of a command.
Closing == {"entering", "titling", "loading", "loading lists"}

\* What a session that is alone finds when its call is c: the two fields of its loader
\* match, except between the two writes, and its screen shows them, except in the tail of a
\* command.
Steady(s, c) ==
    /\ c.op # "titling" => Match(Fields(s).title, Fields(s).id)
    /\ c.op = "titling" => Match(c.title, Fields(s).id)
    /\ c.op = "entering" => Match(c.title, c.campaign)
    /\ c.op = "loading lists" => c.title = Fields(s).title
    /\ c.op \notin Closing => screen[s] \in {Blank, Fields(s)}
    /\ c.op = "writing" => c.campaign = Fields(s).id

IInv ==
    /\ TypeOK
    /\ WorkKeepsItsCampaign
    /\ OneSeeds
    /\ \A s \in Sessions : Begun(call[s])
    /\ \A s \in Online : Alone(s) => Steady(s, call[s])

-------------------------------------------------------------------------------
(* Calls.                                                                  *)

\* The statements that delete a campaign.
Statements ==
    {"clear references", "clear notes", "clear codex", "clear accounts", "clear campaign"}

\* A call is one of these records, told apart by its op.
LEMMA CallShapes ==
  ASSUME NEW c \in Call
  PROVE  /\ c.op \in {"idle", "loading", "seeding", "activating", "activate", "listing", "renamed",
                      "clear references", "clear notes", "clear codex", "clear accounts",
                      "clear campaign", "entering", "titling", "loading lists", "counting",
                      "writing"}
         /\ c.op = "seeding" =>
              c \in [op : {"seeding"}, campaign : CampaignIds, left : 0..SeedAccounts]
         /\ c.op \in {"activating", "activate"} =>
              c \in [op : {"activating", "activate"}, campaign : CampaignIds, named : BOOLEAN]
         /\ c.op \in {"listing", "renamed"} \cup Statements => c.campaign \in CampaignIds
         /\ c.op \in Statements =>
              c \in [op : {"listing", "renamed"} \cup Statements, campaign : CampaignIds]
         /\ c.op = "entering" => c.campaign \in CampaignIds /\ c.title \in Campaign
         /\ c.op \in {"titling", "loading lists"} => c.title \in Campaign
         /\ c.op = "counting" =>
              c \in [op : {"counting"}, campaign : CampaignIds,
                     left : Seq({"entries", "quests", "items"})]
         /\ c.op = "writing" => c.campaign \in Campaign /\ c.kind \in Kinds
BY DEF Call, Statements

\* The calls that actions make.
LEMMA CallsMade ==
  /\ Idle \in Call /\ Idle.op = "idle"
  /\ [op |-> "loading"] \in Call
  /\ \A c \in CampaignIds :
       /\ \A op \in {"listing", "renamed"} \cup Statements :
            [op |-> op, campaign |-> c] \in Call
       /\ \A n \in 0..SeedAccounts : [op |-> "seeding", campaign |-> c, left |-> n] \in Call
       /\ \A b \in BOOLEAN : [op |-> "activating", campaign |-> c, named |-> b] \in Call
       /\ \A t \in Campaign : [op |-> "entering", campaign |-> c, title |-> t] \in Call
       /\ \A l \in Seq({"entries", "quests", "items"}) :
            [op |-> "counting", campaign |-> c, left |-> l] \in Call
  /\ \A t \in Campaign :
       [op |-> "titling", title |-> t] \in Call /\ [op |-> "loading lists", title |-> t] \in Call
  /\ \A c \in Campaign, kind \in Kinds :
       [op |-> "writing", campaign |-> c, kind |-> kind] \in Call
<1>1. Idle \in Call /\ Idle.op = "idle" /\ [op |-> "loading"] \in Call
  BY DEF Idle, Call
<1>2. \A c \in CampaignIds :
       /\ \A op \in {"listing", "renamed"} \cup Statements :
            [op |-> op, campaign |-> c] \in Call
       /\ \A n \in 0..SeedAccounts : [op |-> "seeding", campaign |-> c, left |-> n] \in Call
       /\ \A b \in BOOLEAN : [op |-> "activating", campaign |-> c, named |-> b] \in Call
  BY DEF Call, Statements
<1>3. \A c \in CampaignIds :
       /\ \A t \in Campaign : [op |-> "entering", campaign |-> c, title |-> t] \in Call
       /\ \A l \in Seq({"entries", "quests", "items"}) :
            [op |-> "counting", campaign |-> c, left |-> l] \in Call
  BY DEF Call
<1>4. \A t \in Campaign :
       [op |-> "titling", title |-> t] \in Call /\ [op |-> "loading lists", title |-> t] \in Call
  BY DEF Call
<1>5. \A c \in Campaign, kind \in Kinds :
       [op |-> "writing", campaign |-> c, kind |-> kind] \in Call
  BY DEF Call
<1> QED
  BY <1>1, <1>2, <1>3, <1>4, <1>5

\* No call.
LEMMA IdleCall == Idle \in Call /\ Idle.op = "idle"
BY DEF Idle, Call

\* A call that deletes goes on to the next statement.
LEMMA NextStatement ==
  ASSUME NEW Ops, NEW c \in [op : Ops, campaign : CampaignIds], NEW op
  PROVE  [c EXCEPT !.op = op] = [op |-> op, campaign |-> c.campaign]
OBVIOUS

\* A call that counts goes on with fewer counts.
LEMMA OneCountLess ==
  ASSUME NEW L, NEW c \in [op : {"counting"}, campaign : CampaignIds, left : L], NEW l
  PROVE  [c EXCEPT !.left = l] = [op |-> "counting", campaign |-> c.campaign, left |-> l]
OBVIOUS

-------------------------------------------------------------------------------
(* A step of one session.                                                  *)

\* What the invariant says of one session.
LEMMA Session ==
  ASSUME IInv, NEW s \in Online
  PROVE  /\ s \in Sessions /\ host[s] \in Programs /\ call[s] \in Call /\ Begun(call[s])
         /\ Fields(s) \in View /\ Fields(s).title \in Campaign /\ Fields(s).id \in Campaign
         /\ screen[s] \in View
<1>1. s \in Sessions /\ host[s] \in Programs
  BY ConstantsAssumption DEF IInv, TypeOK, Online, Programs
<1>2. Fields(s) \in View
  BY <1>1 DEF IInv, TypeOK, Fields
<1> QED
  BY <1>1, <1>2 DEF IInv, TypeOK, View

\* Campaigns are made once, and those deleted stay deleted.
Onwards ==
    \A c \in CampaignIds : /\ campaigns[c] # "unused" => campaigns'[c] # "unused"
                           /\ campaigns[c] = "deleted" => campaigns'[c] = "deleted"

\* A step of one session keeps the invariant if it keeps what the invariant says of the data
\* and of the session: of other sessions it disturbs neither the campaigns they work on nor
\* the loader of the program they have to themselves.
LEMMA OneSession ==
  ASSUME IInv, NEW s \in Online, NEW next \in Call, Continue(s, next),
         UNCHANGED host,
         NEW title \in Campaign, NEW id \in Campaign,
         screen' = screen \/ screen' = [screen EXCEPT ![s] = [title |-> title, id |-> id]],
         NEW fields \in View,
         loader' = loader \/ loader' = [loader EXCEPT ![host[s]] = fields],
         campaigns' \in [CampaignIds -> {"unused", "present", "deleted"}], Onwards,
         chart' \in [CampaignIds -> 0..SeedAccounts],
         \A c \in CampaignIds :
            chart'[c] <= chart[c] \/ (call[s].op = "seeding" /\ call[s].campaign = c),
         rows' \in [CampaignIds -> SUBSET Kinds], active' \in CampaignIds,
         WorkKeepsItsCampaign',
         next.op = "seeding" =>
            \/ call[s].op = "seeding" /\ call[s].campaign = next.campaign
            \/ ~Known(next.campaign),
         Begun(next)', Alone(s) => Steady(s, next)'
  PROVE  IInv'
<1>0. TypeOK /\ s \in Sessions /\ host[s] \in Programs
  BY Session DEF IInv
<1>1. /\ call' = [call EXCEPT ![s] = next] /\ call'[s] = next
      /\ \A t \in Sessions \ {s} : call'[t] = call[t]
  BY <1>0 DEF Continue, TypeOK
<1>2. TypeOK'
  <2>1. call' \in [Sessions -> Call]
    BY <1>0, <1>1 DEF TypeOK
  <2>2. screen' \in [Sessions -> View]
    BY <1>0 DEF TypeOK, View
  <2>3. loader' \in [Programs -> View]
    BY <1>0 DEF TypeOK
  <2> QED
    BY <1>0, <2>1, <2>2, <2>3 DEF TypeOK
<1>3. OneSeeds'
  <2>1. SUFFICES ASSUME NEW t \in Sessions, NEW u \in Sessions,
                        call'[t].op = "seeding", call'[u].op = "seeding",
                        call'[t].campaign = call'[u].campaign
                 PROVE  t = u
    BY DEF OneSeeds
  <2>2. \A v \in Sessions \ {s} : call[v].op = "seeding" => Known(call[v].campaign)
    BY DEF IInv, Begun
  <2>3. \A v, w \in Sessions :
          call[v].op = "seeding" /\ call[w].op = "seeding" /\ call[v].campaign = call[w].campaign
          => v = w
    BY DEF IInv, OneSeeds
  <2>4. CASE t # s /\ u # s
    BY <1>1, <2>1, <2>3, <2>4
  <2>5. CASE t = s /\ u # s
    BY <1>0, <1>1, <2>1, <2>2, <2>3, <2>5
  <2>6. CASE t # s /\ u = s
    BY <1>0, <1>1, <2>1, <2>2, <2>3, <2>6
  <2> QED
    BY <2>4, <2>5, <2>6
<1>4. ASSUME NEW t \in Sessions PROVE Begun(call[t])'
  <2>1. CASE t = s
    BY <1>1, <2>1 DEF Begun, Known
  <2>2. CASE t # s
    <3>1. Begun(call[t]) /\ call'[t] = call[t] /\ call[t] \in Call
      BY <1>0, <1>1, <2>2 DEF IInv, TypeOK
    <3>2. call[t].op \in {"seeding", "activating", "activate", "listing", "renamed"} =>
            call[t].campaign \in CampaignIds
      BY <3>1, CallShapes
    <3>3. call[t].op = "seeding" => call[t].left \in 0..SeedAccounts
      BY <3>1, CallShapes
    <3>4. call[t].op = "seeding" =>
            chart'[call[t].campaign] + call[t].left <= SeedAccounts
      <4>1. SUFFICES ASSUME call[t].op = "seeding"
                     PROVE  chart'[call[t].campaign] + call[t].left <= SeedAccounts
        OBVIOUS
      <4>2. ~(call[s].op = "seeding" /\ call[s].campaign = call[t].campaign)
        BY <1>0, <2>2, <4>1 DEF IInv, OneSeeds
      <4>3. chart'[call[t].campaign] <= chart[call[t].campaign]
        BY <3>2, <4>1, <4>2
      <4>4. /\ chart'[call[t].campaign] \in Nat /\ chart[call[t].campaign] \in Nat
            /\ call[t].left \in Nat /\ SeedAccounts \in Nat
        BY <1>0, <3>2, <3>3, <4>1, ConstantsAssumption DEF TypeOK
      <4>5. chart[call[t].campaign] + call[t].left <= SeedAccounts
        BY <3>1, <4>1 DEF Begun
      <4> QED
        BY <4>3, <4>4, <4>5
    <3> QED
      BY <3>1, <3>2, <3>4 DEF Begun, Known, Onwards
  <2> QED
    BY <2>1, <2>2
<1>5. ASSUME NEW t \in Online', Alone(t)' PROVE Steady(t, call[t])'
  <2>0. t \in Online /\ Alone(t)
    BY <1>5 DEF Online, Alone
  <2>1. CASE t = s
    BY <1>1, <2>0, <2>1 DEF Steady, Fields, Match, Deleted
  <2>2. CASE t # s
    <3>1. /\ Steady(t, call[t]) /\ call'[t] = call[t] /\ t \in Sessions /\ call[t] \in Call
          /\ host[t] \in Programs
      BY <1>1, <2>0, <2>2, Session DEF IInv
    <3>2. host[t] # host[s]
      BY <2>0, <2>2 DEF Alone
    <3>3. Fields(t)' = Fields(t)
      BY <1>0, <3>1, <3>2 DEF Fields, TypeOK
    <3>4. screen'[t] = screen[t]
      BY <1>0, <2>2, <3>1 DEF TypeOK
    <3>5. \A x : Deleted(x) => Deleted(x)'
      BY DEF Deleted, Onwards
    <3> QED
      BY <3>1, <3>3, <3>4, <3>5 DEF Steady, Match
  <2> QED
    BY <2>1, <2>2
<1> QED
  BY <1>2, <1>3, <1>4, <1>5 DEF IInv

\* A step that only carries the call on.
LEMMA QuietStep ==
  ASSUME IInv, NEW s \in Online, NEW next \in Call, Continue(s, next),
         UNCHANGED <<campaigns, chart, rows, loader, host, screen>>, active' \in CampaignIds,
         next.op # "seeding", Begun(next), Alone(s) => Steady(s, next)
  PROVE  IInv'
<1>1. TypeOK /\ WorkKeepsItsCampaign
  BY DEF IInv
<1>2. Onwards
  BY DEF Onwards
<1>3. WorkKeepsItsCampaign'
  BY <1>1 DEF WorkKeepsItsCampaign, Present
<1>4. Begun(next)'
  BY DEF Begun, Known
<1>5. Steady(s, next) => Steady(s, next)'
  BY DEF Steady, Fields, Match, Deleted
<1>6. None \in Campaign /\ [title |-> None, id |-> None] \in View
  BY DEF Campaign, View
<1>7. \A c \in CampaignIds : chart'[c] <= chart[c]
  BY <1>1, ConstantsAssumption DEF TypeOK
<1> QED
  BY <1>1, <1>2, <1>3, <1>4, <1>5, <1>6, <1>7, OneSession DEF TypeOK

-------------------------------------------------------------------------------
(* Each action keeps the invariant.                                        *)

\* A campaign that has just been made has no accounts yet.
LEMMA InsertCampaignKeepsIInv ==
  ASSUME IInv, NEW s \in Online, NEW c \in CampaignIds, InsertCampaign(s, c)
  PROVE  IInv'
<1>1. TypeOK /\ WorkKeepsItsCampaign /\ s \in Sessions /\ SeedAccounts \in Nat
  BY Session, ConstantsAssumption DEF IInv
<1>2. PICK next \in Call : next = [op |-> "seeding", campaign |-> c, left |-> SeedAccounts]
  <2>1. SeedAccounts \in 0..SeedAccounts
    BY <1>1
  <2> QED
    BY <2>1, CallsMade
<1>3. /\ Continue(s, next) /\ call[s] = Idle /\ campaigns[c] = "unused"
      /\ campaigns' = [campaigns EXCEPT ![c] = "present"]
      /\ UNCHANGED <<chart, rows, active, loader, host, screen>>
  BY <1>2 DEF InsertCampaign
<1>4. Onwards
  BY <1>1, <1>3 DEF Onwards, TypeOK
<1>5. WorkKeepsItsCampaign'
  BY <1>1, <1>3 DEF WorkKeepsItsCampaign, Present, TypeOK
<1>6. Begun(next)'
  <2>1. chart[c] \in 0..SeedAccounts
    BY <1>1 DEF TypeOK
  <2>2. chart[c] = 0
    BY <1>1, <1>3, <2>1 DEF WorkKeepsItsCampaign, Present
  <2>3. campaigns'[c] # "unused"
    BY <1>1, <1>3 DEF TypeOK
  <2> QED
    BY <1>1, <1>2, <1>3, <2>2, <2>3 DEF Begun, Known
<1>7. Alone(s) => Steady(s, next)'
  <2>1. \A x : Deleted(x) => Deleted(x)'
    BY <1>4 DEF Deleted, Onwards
  <2>2. Alone(s) => Steady(s, Idle)
    BY <1>3 DEF IInv
  <2> QED
    BY <1>2, <1>3, <2>1, <2>2, CallsMade DEF Steady, Fields, Match, Closing
<1>8. None \in Campaign /\ [title |-> None, id |-> None] \in View
  BY DEF Campaign, View
<1>9. \A x \in CampaignIds : chart'[x] <= chart[x]
  BY <1>1, <1>3 DEF TypeOK
<1>10. campaigns' \in [CampaignIds -> {"unused", "present", "deleted"}]
  BY <1>1, <1>3 DEF TypeOK
<1>11. ~Known(next.campaign)
  BY <1>2, <1>3 DEF Known
<1> QED
  BY <1>1, <1>3, <1>4, <1>5, <1>6, <1>7, <1>8, <1>9, <1>10, <1>11, OneSession DEF TypeOK

\* One more account is seeded, of those that were left.
LEMMA SeedAccountKeepsIInv ==
  ASSUME IInv, NEW s \in Online, SeedAccount(s)
  PROVE  IInv'
<1> DEFINE c == call[s].campaign
<1>1. TypeOK /\ WorkKeepsItsCampaign /\ s \in Sessions /\ SeedAccounts \in Nat
      /\ call[s] \in Call /\ Begun(call[s]) /\ call[s].op = "seeding"
  BY Session, ConstantsAssumption DEF IInv, SeedAccount
<1>2. call[s] \in [op : {"seeding"}, campaign : CampaignIds, left : 0..SeedAccounts]
  BY <1>1, CallShapes
<1>3. PICK next \in Call : next = [call[s] EXCEPT !.left = @ - 1]
  <2>1. call[s].left > 0
    BY DEF SeedAccount
  <2>2. [call[s] EXCEPT !.left = @ - 1]
          = [op |-> "seeding", campaign |-> c, left |-> call[s].left - 1]
    BY <1>2
  <2>3. call[s].left - 1 \in 0..SeedAccounts /\ c \in CampaignIds
    BY <1>1, <1>2, <2>1
  <2> QED
    BY <2>2, <2>3, CallsMade
<1>4. next.op = "seeding" /\ next.campaign = c /\ next.left = call[s].left - 1
      /\ c \in CampaignIds /\ call[s].left \in Nat
  BY <1>1, <1>2, <1>3
<1>5. /\ Continue(s, next) /\ campaigns[c] = "present"
      /\ chart' = [chart EXCEPT ![c] = @ + 1]
      /\ UNCHANGED <<campaigns, rows, active, loader, host, screen>>
  BY <1>1, <1>3 DEF SeedAccount, Continue, Present, TypeOK
<1>6. chart[c] + call[s].left <= SeedAccounts /\ chart[c] \in Nat /\ call[s].left > 0
  BY <1>1, <1>4 DEF Begun, TypeOK, SeedAccount
<1>7. chart' \in [CampaignIds -> 0..SeedAccounts] /\ chart'[c] = chart[c] + 1
  BY <1>1, <1>4, <1>5, <1>6 DEF TypeOK
<1>8. Onwards
  BY <1>5 DEF Onwards
<1>9. WorkKeepsItsCampaign'
  BY <1>1, <1>4, <1>5, <1>6 DEF WorkKeepsItsCampaign, Present, TypeOK
<1>10. Begun(next)'
  BY <1>4, <1>5, <1>6, <1>7 DEF Begun, Known
<1>11. Alone(s) => Steady(s, next)'
  BY <1>1, <1>4, <1>5 DEF IInv, Steady, Fields, Match, Deleted, Closing
<1>12. None \in Campaign /\ [title |-> None, id |-> None] \in View
  BY DEF Campaign, View
<1>13. \A x \in CampaignIds : chart'[x] <= chart[x] \/ (call[s].op = "seeding" /\ call[s].campaign = x)
  BY <1>1, <1>5 DEF TypeOK
<1> QED
  BY <1>1, <1>4, <1>5, <1>7, <1>8, <1>9, <1>10, <1>11, <1>12, <1>13, OneSession DEF TypeOK

\* The rest of the steps that carry a call on.
LEMMA CarryOnKeepsIInv ==
  ASSUME IInv, NEW s \in Online,
         \/ ReadCreated(s) \/ CheckExists(s) \/ WriteActive(s) \/ ListForName(s)
         \/ CompareWithLoader(s) \/ LoadTitle(s) \/ CountRows(s) \/ Fail(s)
         \/ \E c \in CampaignIds : SwitchCampaign(s, c) \/ RenameRow(s, c) \/ DeleteCampaign(s, c)
         \/ \E kind \in Kinds : BeginWrite(s, kind)
  PROVE  IInv'
<1>1. /\ TypeOK /\ s \in Sessions /\ call[s] \in Call /\ Begun(call[s])
      /\ Fields(s).title \in Campaign /\ Fields(s).id \in Campaign
      /\ Alone(s) => Steady(s, call[s])
  BY Session DEF IInv
<1>2. active \in CampaignIds
  BY <1>1 DEF TypeOK
<1>3. CASE ReadCreated(s)
  <2>1. call[s].op = "seeding" /\ call[s].campaign \in CampaignIds
    BY <1>1, <1>3, CallShapes DEF ReadCreated
  <2>2. PICK next \in Call :
          next = [op |-> "activating", campaign |-> call[s].campaign, named |-> TRUE]
    BY <2>1, CallsMade
  <2>3. Begun(next) /\ (Alone(s) => Steady(s, next))
    BY <1>1, <2>1, <2>2 DEF Begun, Steady, Closing
  <2> QED
    BY <1>2, <1>3, <2>2, <2>3, QuietStep DEF ReadCreated, database
<1>4. CASE CheckExists(s)
  <2>1. call[s].op = "activating" /\ call[s].campaign \in CampaignIds
        /\ call[s] \in [op : {"activating", "activate"}, campaign : CampaignIds, named : BOOLEAN]
    BY <1>1, <1>4, CallShapes DEF CheckExists
  <2>2. PICK next \in Call : next = [call[s] EXCEPT !.op = "activate"]
    BY <2>1 DEF Call
  <2>3. next.op = "activate" /\ next.campaign = call[s].campaign
    BY <2>1, <2>2
  <2>4. Begun(next) /\ (Alone(s) => Steady(s, next))
    BY <1>1, <2>1, <2>3 DEF Begun, Steady, Closing
  <2>5. Continue(s, next)
    BY <1>1, <1>4, <2>2 DEF CheckExists, Continue, TypeOK
  <2> QED
    BY <1>2, <1>4, <2>3, <2>4, <2>5, QuietStep DEF CheckExists, database
<1>5. CASE WriteActive(s)
  <2>1. call[s].op = "activate" /\ call[s].campaign \in CampaignIds
        /\ call[s].campaign \in Campaign
    BY <1>1, <1>5, CallShapes DEF WriteActive, Campaign
  <2>2. PICK next \in Call :
          next = IF call[s].named
                 THEN [op |-> "entering", campaign |-> call[s].campaign, title |-> call[s].campaign]
                 ELSE [op |-> "listing", campaign |-> call[s].campaign]
    BY <2>1, CallsMade
  <2>3. /\ Continue(s, next) /\ active' \in CampaignIds /\ next.op # "seeding"
        /\ UNCHANGED <<campaigns, chart, rows, loader, host, screen>>
    BY <1>5, <2>1, <2>2 DEF WriteActive
  <2>4. Begun(next) /\ (Alone(s) => Steady(s, next))
    BY <1>1, <2>1, <2>2 DEF Begun, Steady, Match, Closing
  <2> QED
    BY <2>3, <2>4, QuietStep
<1>6. CASE ListForName(s)
  <2>1. call[s].op = "listing" /\ call[s].campaign \in CampaignIds /\ Known(call[s].campaign)
    BY <1>1, <1>6, CallShapes DEF ListForName, Begun
  <2>2. PICK next \in Call :
          next = [op |-> "entering", campaign |-> call[s].campaign,
                  title |-> IF call[s].campaign \in Present THEN call[s].campaign ELSE None]
    BY <2>1, CallsMade DEF Campaign
  <2>3. Match(next.title, next.campaign)
    BY <1>1, <2>1, <2>2 DEF Match, Deleted, Known, Present, TypeOK
  <2>4. Begun(next) /\ (Alone(s) => Steady(s, next))
    BY <1>1, <2>1, <2>2, <2>3 DEF Begun, Steady, Closing
  <2> QED
    BY <1>2, <1>6, <2>2, <2>4, QuietStep DEF ListForName, database
<1>7. CASE CompareWithLoader(s)
  <2>1. call[s].op = "renamed" /\ call[s].campaign \in CampaignIds
        /\ call[s].campaign \in Campaign
    BY <1>1, <1>7, CallShapes DEF CompareWithLoader, Campaign
  <2>2. PICK next \in Call :
          next = IF Fields(s).id = call[s].campaign
                 THEN [op |-> "entering", campaign |-> call[s].campaign, title |-> call[s].campaign]
                 ELSE [op |-> "loading"]
    BY <2>1, CallsMade
  <2>3. Begun(next) /\ (Alone(s) => Steady(s, next))
    BY <1>1, <2>1, <2>2 DEF Begun, Steady, Match, Closing
  <2>4. Continue(s, next) /\ next.op # "seeding"
    BY <1>7, <2>2 DEF CompareWithLoader
  <2> QED
    BY <1>2, <1>7, <2>3, <2>4, QuietStep DEF CompareWithLoader, database
<1>8. CASE LoadTitle(s)
  <2>1. PICK next \in Call : next = [op |-> "loading lists", title |-> Fields(s).title]
    BY <1>1, CallsMade
  <2>2. Begun(next) /\ (Alone(s) => Steady(s, next))
    BY <1>1, <1>8, <2>1 DEF LoadTitle, Begun, Steady, Closing
  <2> QED
    BY <1>2, <1>8, <2>1, <2>2, QuietStep DEF LoadTitle, database
<1>9. CASE CountRows(s)
  <2>1. call[s].op = "counting" /\ call[s].campaign \in CampaignIds
        /\ call[s] \in [op : {"counting"}, campaign : CampaignIds,
                        left : Seq({"entries", "quests", "items"})]
    BY <1>1, <1>9, CallShapes DEF CountRows
  <2>2. call[s].left # <<>>
    BY <1>1, <2>1 DEF Begun
  <2>3. Tail(call[s].left) \in Seq({"entries", "quests", "items"})
    BY <2>1, <2>2
  <2>4. PICK next \in Call :
          next = IF Tail(call[s].left) = <<>>
                 THEN [op |-> "clear references", campaign |-> call[s].campaign]
                 ELSE [op |-> "counting", campaign |-> call[s].campaign, left |-> Tail(call[s].left)]
    BY <2>1, <2>3, CallsMade DEF Statements
  <2>5. [call[s] EXCEPT !.left = Tail(@)]
          = [op |-> "counting", campaign |-> call[s].campaign, left |-> Tail(call[s].left)]
    BY <2>1, OneCountLess
  <2>6. Begun(next) /\ (Alone(s) => Steady(s, next)) /\ next.op # "seeding"
    BY <1>1, <2>1, <2>4 DEF Begun, Steady, Closing
  <2>7. Continue(s, next)
    BY <1>9, <2>4, <2>5 DEF CountRows
  <2> QED
    BY <1>2, <1>9, <2>6, <2>7, QuietStep DEF CountRows, database
<1>10. CASE Fail(s)
  <2>1. Begun(Idle) /\ (Alone(s) => Steady(s, Idle))
    BY <1>1, <1>10, CallsMade DEF Fail, Begun, Steady, Closing
  <2> QED
    BY <1>2, <1>10, <2>1, CallsMade, QuietStep DEF Fail, database
<1>11. ASSUME NEW c \in CampaignIds, SwitchCampaign(s, c) \/ RenameRow(s, c) \/ DeleteCampaign(s, c)
       PROVE  IInv'
  <2>1. call[s] = Idle /\ Known(c)
    BY <1>11 DEF SwitchCampaign, RenameRow, DeleteCampaign, Offered, Present, Known
  <2>2. UNCHANGED <<campaigns, chart, rows, active, loader, host, screen>>
    BY <1>11 DEF SwitchCampaign, RenameRow, DeleteCampaign, database
  <2>3. Alone(s) => Steady(s, Idle)
    BY <1>1, <2>1
  <2>4. CASE SwitchCampaign(s, c) \/ RenameRow(s, c)
    <3>1. PICK next \in Call :
            /\ Continue(s, next) /\ next.op \in {"activating", "renamed"} /\ next.campaign = c
      <4>1. [op |-> "activating", campaign |-> c, named |-> FALSE] \in Call
            /\ [op |-> "renamed", campaign |-> c] \in Call
        BY CallsMade
      <4> QED
        BY <2>4, <4>1 DEF SwitchCampaign, RenameRow
    <3>2. Begun(next) /\ (Alone(s) => Steady(s, next))
      BY <2>1, <2>3, <3>1, CallsMade DEF Begun, Steady, Closing
    <3> QED
      BY <1>2, <2>2, <3>1, <3>2, QuietStep
  <2>5. CASE DeleteCampaign(s, c)
    <3>1. <<"entries", "quests", "items">> # <<>>
          /\ <<"entries", "quests", "items">> \in Seq({"entries", "quests", "items"})
      OBVIOUS
    <3>2. PICK next \in Call :
            next = [op |-> "counting", campaign |-> c, left |-> <<"entries", "quests", "items">>]
      BY <3>1, CallsMade
    <3>3. Begun(next)
      BY <3>1, <3>2 DEF Begun
    <3>4. Alone(s) => Steady(s, next)
      BY <2>3, <3>2, CallsMade DEF Steady, Closing
    <3>5. Continue(s, next) /\ next.op # "seeding"
      BY <2>5, <3>2 DEF DeleteCampaign
    <3> QED
      BY <1>2, <2>2, <3>3, <3>4, <3>5, QuietStep
  <2> QED
    BY <1>11, <2>4, <2>5
<1>12. ASSUME NEW kind \in Kinds, BeginWrite(s, kind)
       PROVE  IInv'
  <2>1. PICK next \in Call : next = [op |-> "writing", campaign |-> Fields(s).id, kind |-> kind]
    BY <1>1, CallsMade
  <2>2. Begun(next) /\ (Alone(s) => Steady(s, next))
    BY <1>1, <1>12, <2>1, CallsMade DEF BeginWrite, Begun, Steady, Closing
  <2> QED
    BY <1>2, <1>12, <2>1, <2>2, QuietStep DEF BeginWrite, database
<1> QED
  BY <1>3, <1>4, <1>5, <1>6, <1>7, <1>8, <1>9, <1>10, <1>11, <1>12

\* SetCampaign writes the id, then the name.
LEMMA EnterKeepsIInv ==
  ASSUME IInv, NEW s \in Online, EnterId(s) \/ EnterTitle(s)
  PROVE  IInv'
<1>1. /\ TypeOK /\ WorkKeepsItsCampaign /\ s \in Sessions /\ call[s] \in Call /\ Begun(call[s])
      /\ host[s] \in Programs /\ Fields(s) \in View
      /\ Fields(s).title \in Campaign /\ Fields(s).id \in Campaign
      /\ Alone(s) => Steady(s, call[s])
  BY Session DEF IInv
<1>2. UNCHANGED <<campaigns, chart, rows, active, host, screen>>
  BY DEF EnterId, EnterTitle, database
<1>3. Onwards /\ WorkKeepsItsCampaign'
  BY <1>1, <1>2 DEF Onwards, WorkKeepsItsCampaign, Present
<1>4. None \in Campaign
  BY DEF Campaign
<1>5. \A x \in CampaignIds : chart'[x] <= chart[x]
  BY <1>1, <1>2, ConstantsAssumption DEF TypeOK
<1>6. CASE EnterId(s)
  <2>1. call[s].op = "entering" /\ call[s].campaign \in CampaignIds /\ call[s].title \in Campaign
    BY <1>1, <1>6, CallShapes DEF EnterId
  <2>2. PICK next \in Call : next = [op |-> "titling", title |-> call[s].title]
    BY <2>1, CallsMade
  <2>3. PICK fields \in View : fields = [Fields(s) EXCEPT !.id = call[s].campaign]
    BY <1>1, <2>1 DEF View, Campaign
  <2>4. fields.id = call[s].campaign
    BY <1>1, <2>3 DEF View
  <2>5. Continue(s, next) /\ loader' = [loader EXCEPT ![host[s]] = fields]
    BY <1>1, <1>6, <2>2, <2>3 DEF EnterId, Fields, TypeOK
  <2>6. Fields(s)' = fields
    BY <1>1, <1>2, <2>5 DEF Fields, TypeOK
  <2>7. Begun(next)' /\ next.op # "seeding"
    BY <2>2 DEF Begun
  <2>8. Alone(s) => Steady(s, next)'
    BY <1>1, <1>2, <2>1, <2>2, <2>4, <2>6 DEF Steady, Match, Deleted, Closing
  <2> QED
    BY <1>1, <1>2, <1>3, <1>4, <1>5, <2>5, <2>7, <2>8, OneSession DEF TypeOK
<1>7. CASE EnterTitle(s)
  <2>1. call[s].op = "titling" /\ call[s].title \in Campaign
    BY <1>1, <1>7, CallShapes DEF EnterTitle
  <2>2. PICK next \in Call : next = [op |-> "loading"]
    BY CallsMade
  <2>3. PICK fields \in View : fields = [Fields(s) EXCEPT !.title = call[s].title]
    BY <1>1, <2>1 DEF View
  <2>4. fields.title = call[s].title /\ fields.id = Fields(s).id
    BY <1>1, <2>3 DEF View
  <2>5. Continue(s, next) /\ loader' = [loader EXCEPT ![host[s]] = fields]
    BY <1>1, <1>7, <2>2, <2>3 DEF EnterTitle, Fields, TypeOK
  <2>6. Fields(s)' = fields
    BY <1>1, <1>2, <2>5 DEF Fields, TypeOK
  <2>7. Begun(next)' /\ next.op # "seeding"
    BY <2>2 DEF Begun
  <2>8. Alone(s) => Steady(s, next)'
    BY <1>1, <1>2, <2>1, <2>2, <2>4, <2>6 DEF Steady, Match, Deleted, Closing
  <2> QED
    BY <1>1, <1>2, <1>3, <1>4, <1>5, <2>5, <2>7, <2>8, OneSession DEF TypeOK
<1> QED
  BY <1>6, <1>7

\* The lists are filled from the loader's campaign, after its name was read.
LEMMA LoadListsKeepsIInv ==
  ASSUME IInv, NEW s \in Online, LoadLists(s)
  PROVE  IInv'
<1>1. /\ TypeOK /\ WorkKeepsItsCampaign /\ s \in Sessions /\ call[s] \in Call
      /\ host[s] \in Programs /\ Fields(s) \in View
      /\ Fields(s).title \in Campaign /\ Fields(s).id \in Campaign
      /\ Alone(s) => Steady(s, call[s])
  BY Session DEF IInv
<1>2. /\ UNCHANGED <<campaigns, chart, rows, active, host, loader>> /\ Continue(s, Idle)
      /\ call[s].op = "loading lists" /\ call[s].title \in Campaign
      /\ screen' = [screen EXCEPT ![s] = [title |-> call[s].title, id |-> Fields(s).id]]
  BY <1>1, CallShapes DEF LoadLists, database
<1>3. Onwards /\ WorkKeepsItsCampaign'
  BY <1>1, <1>2 DEF Onwards, WorkKeepsItsCampaign, Present
<1>4. \A x \in CampaignIds : chart'[x] <= chart[x]
  <2>1. SeedAccounts \in Nat
    BY ConstantsAssumption
  <2>2. chart \in [CampaignIds -> 0..SeedAccounts]
    BY <1>1 DEF TypeOK
  <2>3. \A x \in CampaignIds : chart[x] \in Nat
    BY <2>1, <2>2
  <2>4. chart' = chart
    BY <1>2
  <2> QED
    BY <2>3, <2>4
<1>5. Begun(Idle)' /\ Idle.op # "seeding"
  BY CallsMade DEF Begun
<1>6. Alone(s) => Steady(s, Idle)'
  <2>1. SUFFICES ASSUME Alone(s) PROVE Steady(s, Idle)'
    OBVIOUS
  <2>2. call[s].title = Fields(s).title
    BY <1>1, <1>2, <2>1 DEF Steady
  <2>3. [title |-> Fields(s).title, id |-> Fields(s).id] = Fields(s)
    BY <1>1 DEF View
  <2>4. screen'[s] = Fields(s) /\ Fields(s)' = Fields(s)
    BY <1>1, <1>2, <2>2, <2>3 DEF Fields, TypeOK
  <2>5. Match(Fields(s).title, Fields(s).id)
    BY <1>1, <1>2, <2>1 DEF Steady
  <2> QED
    BY <1>2, <2>4, <2>5, CallsMade DEF Steady, Match, Deleted
<1> QED
  BY <1>1, <1>2, <1>3, <1>4, <1>5, <1>6, CallsMade, OneSession DEF TypeOK

\* The statements that go without a question take one kind each.
LEMMA OneKindCleared ==
  ASSUME NEW s \in Sessions, ClearNotes(s)
  PROVE  \E kind \in {"references", "notes", "codex"},
            op \in {"clear notes", "clear codex", "clear accounts"} :
           /\ call[s].op \in Statements
           /\ rows' = [rows EXCEPT ![call[s].campaign] = @ \ {kind}]
           /\ call' = [call EXCEPT ![s].op = op]
           /\ UNCHANGED <<campaigns, chart, active, loader, host, screen>>
BY DEF ClearNotes, ClearKind, Statements

\* A campaign is deleted from its data up, and data is added to one that is there.
LEMMA DataStepsKeepIInv ==
  ASSUME IInv, NEW s \in Online,
         ClearNotes(s) \/ ClearAccounts(s) \/ ClearCampaign(s) \/ CommitWrite(s)
  PROVE  IInv'
<1> DEFINE c == call[s].campaign
<1>1. /\ TypeOK /\ WorkKeepsItsCampaign /\ s \in Sessions /\ call[s] \in Call
      /\ host[s] \in Programs /\ Fields(s) \in View
      /\ Fields(s).title \in Campaign /\ Fields(s).id \in Campaign
      /\ Alone(s) => Steady(s, call[s])
  BY Session DEF IInv
<1>2. /\ UNCHANGED <<active, loader, host, screen>>
      /\ c \in CampaignIds
      /\ call[s].op = "writing" => call[s].kind \in Kinds
      /\ call[s].op \in Statements \cup {"writing"}
  <2>1. CASE ClearNotes(s)
    BY <1>1, <2>1, CallShapes, OneKindCleared DEF Statements
  <2>2. CASE ClearAccounts(s) \/ ClearCampaign(s) \/ CommitWrite(s)
    BY <1>1, <2>2, CallShapes DEF ClearAccounts, ClearCampaign, CommitWrite, Present, Statements
  <2> QED
    BY <2>1, <2>2
<1>3. PICK next \in Call : Continue(s, next) /\ next.op \in {"loading"} \cup Statements
  <2>1. CASE ClearNotes(s) \/ ClearAccounts(s)
    <3>1. call[s] \in [op : {"listing", "renamed"} \cup Statements, campaign : CampaignIds]
      BY <1>1, <2>1, CallShapes, OneKindCleared DEF ClearAccounts, Statements
    <3>2. PICK Ops : call[s] \in [op : Ops, campaign : CampaignIds]
      BY <3>1
    <3>3. PICK op \in Statements : call' = [call EXCEPT ![s] = [call[s] EXCEPT !.op = op]]
      <4>1. call \in [Sessions -> Call]
        BY <1>1 DEF TypeOK
      <4>2. \E op \in Statements : call' = [call EXCEPT ![s].op = op]
        BY <1>1, <2>1, OneKindCleared DEF ClearAccounts, Statements
      <4> QED
        BY <1>1, <4>1, <4>2
    <3>4. [call[s] EXCEPT !.op = op] = [op |-> op, campaign |-> c]
      BY <3>2, NextStatement
    <3>5. [op |-> op, campaign |-> c] \in Call
      BY <1>2, <3>3, CallsMade
    <3> QED
      BY <3>3, <3>4, <3>5 DEF Continue
  <2>2. CASE ClearCampaign(s) \/ CommitWrite(s)
    BY <2>2, CallsMade DEF ClearCampaign, CommitWrite, Statements
  <2> QED
    BY <2>1, <2>2
<1>4. /\ campaigns' \in [CampaignIds -> {"unused", "present", "deleted"}] /\ Onwards
      /\ chart' \in [CampaignIds -> 0..SeedAccounts]
      /\ \A x \in CampaignIds : chart'[x] <= chart[x]
      /\ rows' \in [CampaignIds -> SUBSET Kinds]
      /\ WorkKeepsItsCampaign'
  <2>0. /\ campaigns \in [CampaignIds -> {"unused", "present", "deleted"}]
        /\ chart \in [CampaignIds -> Nat] /\ chart \in [CampaignIds -> 0..SeedAccounts]
        /\ SeedAccounts \in Nat
        /\ rows \in [CampaignIds -> SUBSET Kinds] /\ c \in CampaignIds
    <3>1. SeedAccounts \in Nat /\ TypeOK
      BY <1>1, ConstantsAssumption
    <3>2. \A x \in CampaignIds : chart[x] \in Nat
      BY <3>1 DEF TypeOK
    <3> QED
      BY <1>2, <3>1, <3>2 DEF TypeOK
  <2>5. /\ \A x \in CampaignIds : rows[x] # {} \/ chart[x] > 0 => campaigns[x] = "present"
        /\ \A x \in CampaignIds : "entries" \in rows[x] => chart[x] > 0
    BY <1>1 DEF WorkKeepsItsCampaign, Present
  <2>1. CASE ClearNotes(s)
    <3>1. PICK kind \in {"references", "notes", "codex"} :
            /\ UNCHANGED <<campaigns, chart>>
            /\ rows' = [rows EXCEPT ![c] = @ \ {kind}]
      BY <1>1, <2>1, OneKindCleared
    <3>2. /\ campaigns' \in [CampaignIds -> {"unused", "present", "deleted"}]
          /\ chart' \in [CampaignIds -> 0..SeedAccounts] /\ rows' \in [CampaignIds -> SUBSET Kinds]
      BY <2>0, <3>1
    <3>3. Onwards
      BY <2>0, <3>1 DEF Onwards
    <3>4. \A x \in CampaignIds : chart'[x] <= chart[x]
      BY <2>0, <3>1
    <3>5. WorkKeepsItsCampaign'
      BY <2>0, <2>5, <3>1 DEF WorkKeepsItsCampaign, Present
    <3> QED
      BY <3>2, <3>3, <3>4, <3>5
  <2>2. CASE ClearAccounts(s)
    <3>1. /\ UNCHANGED <<campaigns, rows>> /\ "entries" \notin rows[c]
          /\ chart' = [chart EXCEPT ![c] = 0]
      BY <2>2 DEF ClearAccounts
    <3>2. /\ campaigns' \in [CampaignIds -> {"unused", "present", "deleted"}]
          /\ chart' \in [CampaignIds -> 0..SeedAccounts] /\ rows' \in [CampaignIds -> SUBSET Kinds]
      BY <2>0, <3>1
    <3>3. Onwards
      BY <2>0, <3>1 DEF Onwards
    <3>4. \A x \in CampaignIds : chart'[x] <= chart[x]
      BY <2>0, <3>1
    <3>5. WorkKeepsItsCampaign'
      BY <2>0, <2>5, <3>1 DEF WorkKeepsItsCampaign, Present
    <3> QED
      BY <3>2, <3>3, <3>4, <3>5
  <2>3. CASE ClearCampaign(s)
    <3>1. /\ UNCHANGED <<chart, rows>> /\ campaigns[c] = "present" /\ chart[c] = 0 /\ rows[c] = {}
          /\ campaigns' = [campaigns EXCEPT ![c] = "deleted"]
      BY <2>3 DEF ClearCampaign, Present
    <3>2. /\ campaigns' \in [CampaignIds -> {"unused", "present", "deleted"}]
          /\ chart' \in [CampaignIds -> 0..SeedAccounts] /\ rows' \in [CampaignIds -> SUBSET Kinds]
      BY <2>0, <3>1
    <3>3. Onwards
      BY <2>0, <3>1 DEF Onwards
    <3>4. \A x \in CampaignIds : chart'[x] <= chart[x]
      BY <2>0, <3>1
    <3>5. WorkKeepsItsCampaign'
      BY <2>0, <2>5, <3>1 DEF WorkKeepsItsCampaign, Present
    <3> QED
      BY <3>2, <3>3, <3>4, <3>5
  <2>4. CASE CommitWrite(s)
    <3>1. /\ UNCHANGED <<campaigns, chart>> /\ c \in Present /\ call[s].kind \in Kinds
          /\ call[s].kind = "entries" => chart[c] > 0
          /\ rows' = [rows EXCEPT ![c] = @ \cup {call[s].kind}]
      BY <1>2, <2>4 DEF CommitWrite
    <3>2. /\ campaigns' \in [CampaignIds -> {"unused", "present", "deleted"}]
          /\ chart' \in [CampaignIds -> 0..SeedAccounts] /\ rows' \in [CampaignIds -> SUBSET Kinds]
      BY <2>0, <3>1
    <3>3. Onwards
      BY <2>0, <3>1 DEF Onwards
    <3>4. \A x \in CampaignIds : chart'[x] <= chart[x]
      BY <2>0, <3>1
    <3>5. WorkKeepsItsCampaign'
      BY <2>0, <2>5, <3>1 DEF WorkKeepsItsCampaign, Present
    <3> QED
      BY <3>2, <3>3, <3>4, <3>5
  <2> QED
    BY <2>1, <2>2, <2>3, <2>4
<1>5. Begun(next)' /\ next.op # "seeding"
  BY <1>3 DEF Begun, Statements
<1>6. Alone(s) => Steady(s, next)'
  <2>1. \A x : Deleted(x) => Deleted(x)'
    BY <1>4 DEF Deleted, Onwards
  <2> QED
    BY <1>1, <1>2, <1>3, <2>1 DEF Steady, Fields, Match, Closing, Statements
<1>7. None \in Campaign
  BY DEF Campaign
<1> QED
  BY <1>1, <1>2, <1>3, <1>4, <1>5, <1>6, <1>7, OneSession DEF TypeOK

\* A program that starts again has its fields and its screens agree, and its calls are gone.
LEMMA RestartKeepsIInv ==
  ASSUME IInv, NEW u \in Online, Restart(host[u])
  PROVE  IInv'
<1> DEFINE p == host[u]
<1>1. TypeOK /\ p \in Programs
  BY Session DEF IInv
<1>2. PICK c \in Campaign : loader' = [loader EXCEPT ![p] = [title |-> c, id |-> c]]
  BY <1>1 DEF Restart, Landings, Present, Campaign
<1>3. /\ screen' = [s \in Sessions |-> IF host[s] = p THEN Blank ELSE screen[s]]
      /\ call' = [s \in Sessions |-> IF host[s] = p THEN Idle ELSE call[s]]
      /\ UNCHANGED <<campaigns, chart, rows, active, host>>
  BY DEF Restart, database
<1>4. TypeOK'
  <2>1. [title |-> c, id |-> c] \in View /\ Blank \in View
    BY DEF View, Blank, Campaign
  <2>2. loader' \in [Programs -> View] /\ screen' \in [Sessions -> View]
    BY <1>1, <1>2, <1>3, <2>1 DEF TypeOK
  <2>3. call' \in [Sessions -> Call]
    BY <1>1, <1>3, CallsMade DEF TypeOK
  <2> QED
    BY <1>1, <1>3, <2>2, <2>3 DEF TypeOK
<1>5. WorkKeepsItsCampaign'
  BY <1>3 DEF IInv, WorkKeepsItsCampaign, Present
<1>6. OneSeeds'
  <2>1. \A s \in Sessions : call'[s] = call[s] \/ call'[s].op = "idle"
    BY <1>3, CallsMade
  <2>2. \A s \in Sessions : call'[s].op = "seeding" => call'[s] = call[s]
    BY <2>1
  <2> QED
    BY <2>2 DEF IInv, OneSeeds
<1>7. \A s \in Sessions : Begun(call[s])'
  BY <1>3, CallsMade DEF IInv, Begun, Known
<1>8. ASSUME NEW s \in Online', Alone(s)' PROVE Steady(s, call[s])'
  <2>1. s \in Online /\ s \in Sessions /\ Alone(s) /\ host[s] \in Programs
    BY <1>3, <1>8, Session DEF Online, Alone
  <2>2. CASE host[s] = p
    <3>1. Fields(s)' = [title |-> c, id |-> c] /\ screen'[s] = Blank /\ call'[s] = Idle
      BY <1>1, <1>2, <1>3, <2>1, <2>2 DEF Fields, TypeOK
    <3> QED
      BY <3>1, IdleCall DEF Steady, Match
  <2>3. CASE host[s] # p
    <3>1. Fields(s)' = Fields(s) /\ screen'[s] = screen[s] /\ call'[s] = call[s]
      BY <1>1, <1>2, <1>3, <2>1, <2>3 DEF Fields, TypeOK
    <3>2. Steady(s, call[s])
      BY <2>1 DEF IInv
    <3> QED
      BY <1>3, <3>1, <3>2 DEF Steady, Match, Deleted
  <2> QED
    BY <2>2, <2>3
<1> QED
  BY <1>4, <1>5, <1>6, <1>7, <1>8 DEF IInv

-------------------------------------------------------------------------------
(* The invariant holds of every reachable state.                           *)

\* A new database holds one campaign, whose chart is complete.
LEMMA InitIInv ==
  ASSUME Init
  PROVE  IInv
<1>1. TypeOK
  <2>1. /\ Initial \in CampaignIds /\ SeedAccounts \in Nat
        /\ [title |-> Initial, id |-> Initial] \in View /\ Blank \in View
    BY ConstantsAssumption DEF View, Blank, Campaign
  <2>2. /\ campaigns \in [CampaignIds -> {"unused", "present", "deleted"}]
        /\ chart \in [CampaignIds -> 0..SeedAccounts]
        /\ rows \in [CampaignIds -> SUBSET Kinds]
        /\ active \in CampaignIds /\ host \in Hosting
    BY <2>1 DEF Init
  <2>3. loader \in [Programs -> View] /\ screen \in [Sessions -> View]
    BY <2>1 DEF Init
  <2>4. call \in [Sessions -> Call]
    BY IdleCall DEF Init
  <2> QED
    BY <2>2, <2>3, <2>4 DEF TypeOK
<1>2. WorkKeepsItsCampaign
  BY ConstantsAssumption DEF Init, WorkKeepsItsCampaign, Present
<1>3. OneSeeds
  BY CallsMade DEF Init, OneSeeds
<1>4. \A s \in Sessions : Begun(call[s])
  BY CallsMade DEF Init, Begun
<1>5. ASSUME NEW s \in Online PROVE Steady(s, call[s])
  <2>1. s \in Sessions /\ host[s] \in Programs
    BY ConstantsAssumption DEF Init, Online, Programs
  <2>2. Fields(s) = [title |-> Initial, id |-> Initial] /\ screen[s] = Blank /\ call[s] = Idle
    BY <2>1 DEF Init, Fields
  <2> QED
    BY <2>2, IdleCall DEF Steady, Match
<1> QED
  BY <1>1, <1>2, <1>3, <1>4, <1>5 DEF IInv

\* Every step keeps it.
LEMMA NextKeepsIInv ==
  ASSUME IInv, [Next]_vars
  PROVE  IInv'
<1>1. ASSUME NEW s \in Online, CreateStep(s)
      PROVE  IInv'
  BY <1>1, InsertCampaignKeepsIInv, SeedAccountKeepsIInv, CarryOnKeepsIInv DEF CreateStep
<1>2. ASSUME NEW s \in Online, SwitchStep(s) \/ RenameStep(s) \/ Fail(s)
      PROVE  IInv'
  BY <1>2, CarryOnKeepsIInv DEF SwitchStep, RenameStep
<1>3. ASSUME NEW s \in Online, ScreenStep(s)
      PROVE  IInv'
  BY <1>3, EnterKeepsIInv, LoadListsKeepsIInv, CarryOnKeepsIInv DEF ScreenStep
<1>4. ASSUME NEW s \in Online, DeleteStep(s) \/ WriteStep(s)
      PROVE  IInv'
  BY <1>4, DataStepsKeepIInv, CarryOnKeepsIInv DEF DeleteStep, WriteStep
<1>5. ASSUME NEW u \in Online, Restart(host[u])
      PROVE  IInv'
  BY <1>5, RestartKeepsIInv
<1>6. CASE UNCHANGED vars
  <2>1. UNCHANGED <<campaigns, chart, rows, active, loader, screen, call, host>>
    BY <1>6 DEF vars, database
  <2>2. TypeOK' /\ WorkKeepsItsCampaign' /\ OneSeeds'
    BY <2>1 DEF IInv, TypeOK, WorkKeepsItsCampaign, Present, OneSeeds
  <2>3. \A s \in Sessions : Begun(call[s])'
    BY <2>1 DEF IInv, Begun, Known
  <2>4. \A s \in Online' : Alone(s)' => Steady(s, call[s])'
    BY <2>1 DEF IInv, Online, Alone, Steady, Match, Deleted, Fields
  <2> QED
    BY <2>2, <2>3, <2>4 DEF IInv
<1> QED
  BY <1>1, <1>2, <1>3, <1>4, <1>5, <1>6 DEF Next

\* What a session relies on between the statements of a call, whatever other sessions and
\* restarts do in between.
THEOREM Invariance == Spec => []IInv
<1>1. Init => IInv
  BY InitIInv
<1>2. IInv /\ [Next]_vars => IInv'
  BY NextKeepsIInv
<1> QED
  BY <1>1, <1>2, PTL DEF Spec

\* Every variable keeps its type; a chart is never seeded beyond the standard accounts, since
\* a campaign is seeded by one call only.
THEOREM TypeCorrect == Spec => []TypeOK
<1>1. IInv => TypeOK
  BY DEF IInv
<1> QED
  BY <1>1, Invariance, PTL

\* No data is left without its campaign and no entry without a chart: campaign.Delete clears
\* statement by statement, while other sessions add data and create campaigns.
THEOREM WorkKept == Spec => []WorkKeepsItsCampaign
<1>1. IInv => WorkKeepsItsCampaign
  BY DEF IInv
<1> QED
  BY <1>1, Invariance, PTL

\* A session that has its program to itself adds data to the campaign that its header names
\* and its lists show (handleTUICommand works in sqliteDataLoader.campaignID).
THEOREM SoleWrites == Spec => SoleWritesGoWhereShown
<1> DEFINE Shown == \A s \in Online, c \in CampaignIds :
                       /\ \A t \in Online : host[t] = host[s] => t = s
                       /\ Writes(s, c)
                       => screen[s] \in {Blank, [title |-> c, id |-> c]}
<1>1. ASSUME IInv, [Next]_vars PROVE [Shown]_vars
  <2>1. SUFFICES ASSUME NEW s \in Online, NEW c \in CampaignIds, Alone(s), Writes(s, c)
                 PROVE  screen[s] \in {Blank, [title |-> c, id |-> c]}
    BY DEF Alone
  <2>2. /\ s \in Sessions /\ call[s] \in Call /\ Fields(s) \in View /\ Steady(s, call[s])
        /\ call[s].op = "writing" /\ call'[s] # call[s] /\ rows'[c] # rows[c]
    BY <1>1, <2>1, Session DEF IInv, Writes
  <2>3. CommitWrite(s) /\ c = call[s].campaign
    <3>1. TypeOK
      BY <1>1 DEF IInv
    <3>2. \/ \E t \in Online : ClearNotes(t) \/ CommitWrite(t)
          \/ UNCHANGED rows
      BY <1>1 DEF Next, vars, database, CreateStep, SwitchStep, RenameStep, ScreenStep, DeleteStep,
                  WriteStep, InsertCampaign, SeedAccount, ReadCreated, SwitchCampaign, CheckExists,
                  WriteActive, ListForName, RenameRow, CompareWithLoader, EnterId, EnterTitle,
                  LoadTitle, LoadLists, DeleteCampaign, CountRows, ClearAccounts, ClearCampaign,
                  BeginWrite, Fail, Restart
    <3>3. PICK t \in Online : ClearNotes(t) \/ CommitWrite(t)
      BY <2>2, <3>2
    <3>4. t = s
      BY <2>2, <3>1, <3>3, OneKindCleared DEF CommitWrite, Continue, TypeOK, Online
    <3>5. CommitWrite(s)
      BY <2>2, <3>3, <3>4, OneKindCleared DEF Statements
    <3> QED
      BY <2>2, <3>1, <3>5 DEF CommitWrite, TypeOK
  <2>4. c = Fields(s).id /\ screen[s] \in {Blank, Fields(s)}
        /\ Match(Fields(s).title, Fields(s).id)
    BY <2>2, <2>3 DEF Steady, Closing
  <2>5. ~Deleted(c)
    BY <2>3 DEF CommitWrite, Present, Deleted
  <2>6. Fields(s) = [title |-> c, id |-> c]
    BY <2>2, <2>4, <2>5 DEF Match, View
  <2> QED
    BY <2>4, <2>6
<1>2. Spec => [][Shown]_vars
  BY <1>1, Invariance, PTL DEF Spec
<1> QED
  BY <1>2 DEF SoleWritesGoWhereShown

===============================================================================
