------------------------------- MODULE Campaigns -------------------------------
(***************************************************************************)
(* The campaigns of a database and the sessions that work in them.         *)
(*                                                                         *)
(* A session is a user's terminal.  It runs in a program of its own or is  *)
(* a connection to the server, and all connections of the server share one *)
(* loader: two plain fields, the id and the name of the campaign that      *)
(* every command, whoever sent it, works in.  Nothing here locks: campaign *)
(* commands are statements without a transaction, the fields are written   *)
(* one after the other, and other sessions' steps fall in between.         *)
(*                                                                         *)
(* A name is represented by the campaign it is the name of.                *)
(***************************************************************************)
EXTENDS Naturals, Sequences

CONSTANTS
    Sessions,      \* the most sessions there can be
    Server,        \* the server program
    CampaignIds,   \* identifiers for campaigns; a bound on their number
    Kinds,         \* the kinds of data users add to a campaign
    SeedAccounts,  \* how many accounts a new campaign is seeded with
    Hosting,       \* the ways sessions may be spread over programs
    Initial,       \* the campaign a new database holds
    None           \* no campaign; no program

VARIABLES
    campaigns,  \* table campaigns
    chart,      \* how many accounts each campaign has
    rows,       \* the kinds of data each campaign has
    active,     \* settings.active_campaign_id
    loader,     \* each program's current campaign: sqliteDataLoader
    host,       \* the program each session runs in
    screen,     \* the campaign in each session's header, and that of its lists
    call        \* where each session's running command is

database == <<campaigns, chart, rows, active>>
vars == <<database, loader, host, screen, call>>

Programs == Sessions \cup {Server}
Campaign == CampaignIds \cup {None}

\* A program that has opened no campaign, and a terminal before it is filled.
Blank == [title |-> None, id |-> None]
View == [title : Campaign, id : Campaign]

Idle == [op |-> "idle"]

Call ==
    [op : {"idle", "loading"}]
    \cup [op : {"seeding"}, campaign : CampaignIds, left : 0..SeedAccounts]
    \cup [op : {"activating", "activate"}, campaign : CampaignIds, named : BOOLEAN]
    \cup [op : {"listing", "renamed", "clear references", "clear notes", "clear codex",
                "clear accounts", "clear campaign"},
          campaign : CampaignIds]
    \cup [op : {"entering"}, campaign : CampaignIds, title : Campaign]
    \cup [op : {"titling", "loading lists"}, title : Campaign]
    \cup [op : {"counting"}, campaign : CampaignIds, left : Seq({"entries", "quests", "items"})]
    \cup [op : {"writing"}, campaign : Campaign, kind : Kinds]

ASSUME ConstantsAssumption ==
    /\ Server \notin Sessions /\ None \notin Programs
    /\ None \notin CampaignIds /\ Initial \in CampaignIds
    /\ Kinds \subseteq {"entries", "quests", "items", "references", "notes", "codex"}
    /\ SeedAccounts \in Nat \ {0}
    /\ \A h \in Hosting : \A s \in Sessions : h[s] \in {s, Server, None}

Present == {c \in CampaignIds : campaigns[c] = "present"}
Online == {s \in Sessions : host[s] # None}
Fields(s) == loader[host[s]]

Continue(s, next) == call' = [call EXCEPT ![s] = next]

-------------------------------------------------------------------------------
(* Commands that end in the shared tail below.                             *)

\* Variants, each named for a bug, stand before the definitions they vary and are
\* used nowhere: they are the mistakes that the properties must notice.

\* The id may be one that was given before.
InsertCampaignOfAnyId(s, c) ==
    /\ call[s] = Idle
    /\ campaigns' = [campaigns EXCEPT ![c] = "present"]
    /\ Continue(s, [op |-> "seeding", campaign |-> c, left |-> SeedAccounts])
    /\ UNCHANGED <<chart, rows, active, loader, host, screen>>

\* Create: the campaign, its accounts one by one, then the new row is read.
InsertCampaign(s, c) ==
    /\ call[s] = Idle
    /\ campaigns[c] = "unused"
    /\ campaigns' = [campaigns EXCEPT ![c] = "present"]
    /\ Continue(s, [op |-> "seeding", campaign |-> c, left |-> SeedAccounts])
    /\ UNCHANGED <<chart, rows, active, loader, host, screen>>

SeedAccount(s) ==
    /\ call[s].op = "seeding" /\ call[s].left > 0
    /\ call[s].campaign \in Present
    /\ chart' = [chart EXCEPT ![call[s].campaign] = @ + 1]
    /\ call' = [call EXCEPT ![s].left = @ - 1]
    /\ UNCHANGED <<campaigns, rows, active, loader, host, screen>>

ReadCreated(s) ==
    /\ call[s].op = "seeding" /\ call[s].left = 0
    /\ call[s].campaign \in Present
    /\ Continue(s, [op |-> "activating", campaign |-> call[s].campaign, named |-> TRUE])
    /\ UNCHANGED <<database, loader, host, screen>>

\* The campaigns a screen has offered to switch to or to delete, the deleted ones
\* included: a screen may be old.
Offered == {c \in CampaignIds : campaigns[c] # "unused"}

SwitchCampaign(s, c) ==
    /\ call[s] = Idle
    /\ c \in Offered
    /\ Continue(s, [op |-> "activating", campaign |-> c, named |-> FALSE])
    /\ UNCHANGED <<database, loader, host, screen>>

\* SetActive: a check that the campaign exists, then the setting.
CheckExists(s) ==
    /\ call[s].op = "activating"
    /\ call[s].campaign \in Present
    /\ call' = [call EXCEPT ![s].op = "activate"]
    /\ UNCHANGED <<database, loader, host, screen>>

WriteActive(s) ==
    /\ call[s].op = "activate"
    /\ LET c == call[s].campaign
       IN  /\ active' = c
           /\ Continue(s, IF call[s].named
                          THEN [op |-> "entering", campaign |-> c, title |-> c]
                          ELSE [op |-> "listing", campaign |-> c])
    /\ UNCHANGED <<campaigns, chart, rows, loader, host, screen>>

\* Switching looks the name up in the list, and goes on without one.
ListForName(s) ==
    /\ call[s].op = "listing"
    /\ LET c == call[s].campaign
       IN  Continue(s, [op |-> "entering", campaign |-> c,
                        title |-> IF c \in Present THEN c ELSE None])
    /\ UNCHANGED <<database, loader, host, screen>>

\* Rename: the row, then the loader if it is the loader's campaign.
RenameRow(s, c) ==
    /\ call[s] = Idle
    /\ c \in Present
    /\ Continue(s, [op |-> "renamed", campaign |-> c])
    /\ UNCHANGED <<database, loader, host, screen>>

CompareWithLoader(s) ==
    /\ call[s].op = "renamed"
    /\ LET c == call[s].campaign
       IN  Continue(s, IF Fields(s).id = c
                       THEN [op |-> "entering", campaign |-> c, title |-> c]
                       ELSE [op |-> "loading"])
    /\ UNCHANGED <<database, loader, host, screen>>

-------------------------------------------------------------------------------
(* The tail: SetCampaign writes both fields, then the screen is built.     *)

\* The command returns without the new campaign's data.
EnterTitleWithoutReload(s) ==
    /\ call[s].op = "titling"
    /\ loader' = [loader EXCEPT ![host[s]].title = call[s].title]
    /\ Continue(s, Idle)
    /\ UNCHANGED <<database, host, screen>>

EnterId(s) ==
    /\ call[s].op = "entering"
    /\ loader' = [loader EXCEPT ![host[s]].id = call[s].campaign]
    /\ Continue(s, [op |-> "titling", title |-> call[s].title])
    /\ UNCHANGED <<database, host, screen>>

EnterTitle(s) ==
    /\ call[s].op = "titling"
    /\ loader' = [loader EXCEPT ![host[s]].title = call[s].title]
    /\ Continue(s, [op |-> "loading"])
    /\ UNCHANGED <<database, host, screen>>

\* buildTUIShellData reads the name first and the id with each list; a list that
\* cannot be read is shown as unavailable.  A user may also just reload.
LoadTitle(s) ==
    /\ call[s].op \in {"idle", "loading"}
    /\ Continue(s, [op |-> "loading lists", title |-> Fields(s).title])
    /\ UNCHANGED <<database, loader, host, screen>>

LoadLists(s) ==
    /\ call[s].op = "loading lists"
    /\ screen' = [screen EXCEPT ![s] = [title |-> call[s].title, id |-> Fields(s).id]]
    /\ Continue(s, Idle)
    /\ UNCHANGED <<database, loader, host>>

-------------------------------------------------------------------------------
(* Delete.                                                                 *)

DeleteCampaign(s, c) ==
    /\ call[s] = Idle
    /\ c \in Offered
    /\ Fields(s).id # c
    /\ Continue(s, [op |-> "counting", campaign |-> c, left |-> <<"entries", "quests", "items">>])
    /\ UNCHANGED <<database, loader, host, screen>>

\* Three counts, in this order, each of which must be zero.
CountRows(s) ==
    /\ call[s].op = "counting"
    /\ Head(call[s].left) \notin rows[call[s].campaign]
    /\ Continue(s, IF Tail(call[s].left) = <<>>
                   THEN [op |-> "clear references", campaign |-> call[s].campaign]
                   ELSE [call[s] EXCEPT !.left = Tail(@)])
    /\ UNCHANGED <<database, loader, host, screen>>

\* References, notes and codex entries go without a question, one kind after the
\* other ...
ClearKind(s, op, kind, next) ==
    /\ call[s].op = op
    /\ rows' = [rows EXCEPT ![call[s].campaign] = @ \ {kind}]
    /\ call' = [call EXCEPT ![s].op = next]
    /\ UNCHANGED <<campaigns, chart, active, loader, host, screen>>

ClearNotes(s) ==
    \/ ClearKind(s, "clear references", "references", "clear notes")
    \/ ClearKind(s, "clear notes", "notes", "clear codex")
    \/ ClearKind(s, "clear codex", "codex", "clear accounts")

ClearAccountsWithoutRestrict(s) ==
    /\ call[s].op = "clear accounts"
    /\ chart' = [chart EXCEPT ![call[s].campaign] = 0]
    /\ call' = [call EXCEPT ![s].op = "clear campaign"]
    /\ UNCHANGED <<campaigns, rows, active, loader, host, screen>>

\* ... then the accounts, unless one is posted to ...
ClearAccounts(s) ==
    /\ call[s].op = "clear accounts"
    /\ "entries" \notin rows[call[s].campaign]
    /\ chart' = [chart EXCEPT ![call[s].campaign] = 0]
    /\ call' = [call EXCEPT ![s].op = "clear campaign"]
    /\ UNCHANGED <<campaigns, rows, active, loader, host, screen>>

\* ... then the campaign, unless something refers to it.
ClearCampaign(s) ==
    /\ call[s].op = "clear campaign"
    /\ LET c == call[s].campaign
       IN  /\ c \in Present
           /\ chart[c] = 0 /\ rows[c] = {}
           /\ campaigns' = [campaigns EXCEPT ![c] = "deleted"]
    /\ Continue(s, [op |-> "loading"])
    /\ UNCHANGED <<chart, rows, active, loader, host, screen>>

-------------------------------------------------------------------------------
(* Everything else a user does in a campaign.                              *)

\* handleTUICommand takes the campaign from the loader first of all.
BeginWrite(s, kind) ==
    /\ call[s] = Idle
    /\ Continue(s, [op |-> "writing", campaign |-> Fields(s).id, kind |-> kind])
    /\ UNCHANGED <<database, loader, host, screen>>

\* Foreign keys: the row's campaign exists, and so do the accounts of an entry.
CommitWrite(s) ==
    /\ call[s].op = "writing"
    /\ LET c == call[s].campaign
       IN  /\ c \in Present
           /\ call[s].kind = "entries" => chart[c] > 0
           /\ rows' = [rows EXCEPT ![c] = @ \cup {call[s].kind}]
    /\ Continue(s, [op |-> "loading"])
    /\ UNCHANGED <<campaigns, chart, active, loader, host, screen>>

\* A statement that fails ends the command with an error and leaves the screen
\* as it was; what earlier statements did stays.
Fail(s) ==
    /\ call[s].op \notin {"idle", "entering", "titling", "loading", "loading lists"}
    /\ Continue(s, Idle)
    /\ UNCHANGED <<database, loader, host, screen>>

\* Where a starting program lands: the server in the active campaign or else in
\* the first one, a local program in the only one or the one the user picks.
Landings(p) ==
    IF Present = {} THEN {None}
    ELSE IF p = Server /\ active \in Present THEN {active}
    ELSE Present

\* A program dies, whatever its sessions are doing, and is started again.
Restart(p) ==
    /\ \E c \in Landings(p) : loader' = [loader EXCEPT ![p] = [title |-> c, id |-> c]]
    /\ screen' = [s \in Sessions |-> IF host[s] = p THEN Blank ELSE screen[s]]
    /\ call' = [s \in Sessions |-> IF host[s] = p THEN Idle ELSE call[s]]
    /\ UNCHANGED <<database, host>>

-------------------------------------------------------------------------------

Init ==
    /\ campaigns = [c \in CampaignIds |-> IF c = Initial THEN "present" ELSE "unused"]
    /\ chart = [c \in CampaignIds |-> IF c = Initial THEN SeedAccounts ELSE 0]
    /\ rows = [c \in CampaignIds |-> {}]
    /\ active = Initial
    /\ host \in Hosting
    /\ loader = [p \in Programs |-> [title |-> Initial, id |-> Initial]]
    /\ screen = [s \in Sessions |-> Blank]
    /\ call = [s \in Sessions |-> Idle]

CreateStep(s) ==
    \/ \E c \in CampaignIds : InsertCampaign(s, c)
    \/ SeedAccount(s)
    \/ ReadCreated(s)

SwitchStep(s) ==
    \/ \E c \in CampaignIds : SwitchCampaign(s, c)
    \/ CheckExists(s)
    \/ WriteActive(s)
    \/ ListForName(s)

RenameStep(s) == (\E c \in CampaignIds : RenameRow(s, c)) \/ CompareWithLoader(s)

ScreenStep(s) == EnterId(s) \/ EnterTitle(s) \/ LoadTitle(s) \/ LoadLists(s)

DeleteStep(s) ==
    \/ \E c \in CampaignIds : DeleteCampaign(s, c)
    \/ CountRows(s)
    \/ ClearNotes(s)
    \/ ClearAccounts(s)
    \/ ClearCampaign(s)

WriteStep(s) == (\E kind \in Kinds : BeginWrite(s, kind)) \/ CommitWrite(s)

Next ==
    \/ \E s \in Online :
          CreateStep(s) \/ SwitchStep(s) \/ RenameStep(s) \/ ScreenStep(s)
          \/ DeleteStep(s) \/ WriteStep(s) \/ Fail(s)
    \/ \E p \in {host[s] : s \in Online} : Restart(p)

Spec == Init /\ [][Next]_vars

-------------------------------------------------------------------------------
(* What must hold.                                                         *)

TypeOK ==
    /\ campaigns \in [CampaignIds -> {"unused", "present", "deleted"}]
    /\ chart \in [CampaignIds -> 0..SeedAccounts]
    /\ rows \in [CampaignIds -> SUBSET Kinds]
    /\ active \in CampaignIds
    /\ loader \in [Programs -> View]
    /\ host \in Hosting
    /\ screen \in [Sessions -> View]
    /\ call \in [Sessions -> Call]

\* No data is left without its campaign and no entry without a chart, however a
\* deletion, statement by statement, overlaps with commands that add data or
\* with the creation of the same campaign.
WorkKeepsItsCampaign ==
    \A c \in CampaignIds :
        /\ rows[c] # {} \/ chart[c] > 0 => c \in Present
        /\ "entries" \in rows[c] => chart[c] > 0

Writes(s, c) == rows'[c] # rows[c] /\ call[s].op = "writing" /\ call'[s] # call[s]

\* A session that has its program to itself, be it a server, adds data to the
\* campaign that its header names and its lists show, whatever it created,
\* switched to, renamed or deleted before and whichever of that failed.
SoleWritesGoWhereShown ==
    [][\A s \in Online, c \in CampaignIds :
        /\ \A t \in Online : host[t] = host[s] => t = s
        /\ Writes(s, c)
        => screen[s] \in {Blank, [title |-> c, id |-> c]}]_vars

\* What the help screen says of the active campaign: it is the one that is
\* displayed and edited.
WritesGoWhereShown ==
    [][\A s \in Online, c \in CampaignIds :
        Writes(s, c) => screen[s] \in {Blank, [title |-> c, id |-> c]}]_vars

===============================================================================
