------------------------------ MODULE References ------------------------------
(***************************************************************************)
(* Codex entries, notes, the types of the codex, and the links that are    *)
(* kept of the references in their texts.                                  *)
(*                                                                         *)
(* A text is the sequence of the names it refers to: @[person/Bryn] and    *)
(* the like; of its other words nothing depends.  Saving writes the text,  *)
(* then deletes the links of the row, then writes one link for each        *)
(* reference.  Each is a transaction of its own, so the statements of two  *)
(* clients interleave and any of them may be the last.  (Quests and loot   *)
(* items keep their links in the same way, and are never deleted.)         *)
(*                                                                         *)
(* Clients of one server share the campaign that is current; what a client *)
(* shows may be of the one that was.                                       *)
(***************************************************************************)
EXTENDS Naturals, Sequences, FiniteSets, SequencesExt

CONSTANTS
    Clients,      \* the most clients there can be
    CampaignIds,  \* the campaigns
    TypeIds,      \* identifiers of codex types
    TypeNames,    \* their names
    BuiltIn,      \* the types of a new database: a function to their names
    Names,        \* names of entries, titles of notes, and names referred to
    Texts,        \* what users write
    Queries,      \* what users search for
    Prefixed,     \* per query: the names that have each of its words as a prefix
    Containing,   \* per query: the names that contain it
    MaxRows,      \* a bound on the entries and notes ever made
    MaxCalls,     \* a bound on the calls that write
    MaxFailures   \* a bound on the calls that fail

VARIABLES
    types,           \* table codex_types
    rows,            \* tables codex_entries and notes, with their full-text indexes
    links,           \* table entity_references: a bag
    made,            \* the number of rows ever made
    activeCampaign,  \* the campaign that is current
    shown,           \* the campaign each client shows
    call,            \* what each client's running call has left to do
    calls,           \* the number of calls that wrote
    overlapped,      \* the clients whose call met another on the same row
    failures,        \* the number of calls that failed
    online           \* the clients that work on the database

referencesVars ==
    <<types, rows, links, made, activeCampaign, shown, call, calls, overlapped, failures, online>>

RowIds == 1..MaxRows

\* A name of punctuation only is a reference to nobody.
NoName == ""

Row ==
    [kind : {"codex"}, campaign : CampaignIds, type : TypeIds, name : Names, text : Texts]
    \cup [kind : {"note"}, campaign : CampaignIds, name : Names, text : Texts]

Link == [source : RowIds, campaign : CampaignIds, name : Names, to : Names]

Idle == [op |-> "idle"]

CallState ==
    {Idle}
    \cup [op : {"updating"}, id : RowIds, new : Row]
    \cup [op : {"clearing"}, id : RowIds, new : Row]
    \cup [op : {"linking"}, id : RowIds, new : Row, rest : Seq(Names)]
    \cup [op : {"unlinking"}, id : RowIds]

ASSUME ReferencesAssumption ==
    /\ IsFiniteSet(Clients) /\ MaxRows \in Nat /\ MaxCalls \in Nat /\ MaxFailures \in Nat
    /\ CampaignIds # {}
    /\ DOMAIN BuiltIn \subseteq TypeIds /\ \A t \in DOMAIN BuiltIn : BuiltIn[t] \in TypeNames
    /\ \A s, t \in DOMAIN BuiltIn : BuiltIn[s] = BuiltIn[t] => s = t
    /\ NoName \notin Names /\ Texts \subseteq Seq(Names \cup {NoName})
    /\ \A q \in Queries : Prefixed[q] \subseteq Containing[q] /\ Containing[q] \subseteq Names

Continue(c, next) == call' = [call EXCEPT ![c] = next]

\* Some other client is in a call on the row.
Others(c, id) == {d \in Clients \ {c} : call[d] # Idle /\ call[d].id = id}

\* A call that writes begins; the properties keep account of those that meet.
Begin(c, id) ==
    /\ call[c] = Idle
    /\ calls < MaxCalls
    /\ calls' = calls + 1
    /\ overlapped' = IF Others(c, id) = {} THEN overlapped \ {c}
                     ELSE overlapped \cup {c} \cup Others(c, id)

\* A screen is loaded again after each call.
Return(c) ==
    /\ Continue(c, Idle)
    /\ shown' = [shown EXCEPT ![c] = activeCampaign]

-------------------------------------------------------------------------------
(* Types of the codex: CreateType, RenameType, DeleteType.  One statement  *)
(* each, but for the count that DeleteType makes first; foreign keys       *)
(* protect a type whose first entry is written in between.                 *)

TypeCall ==
    /\ calls < MaxCalls
    /\ calls' = calls + 1
    /\ UNCHANGED <<rows, links, made, activeCampaign, shown, call, overlapped, failures, online>>

CreateType(c, t, name) ==
    /\ call[c] = Idle
    /\ t \notin DOMAIN types
    /\ \A s \in DOMAIN types : types[s] # name
    /\ types' = [s \in DOMAIN types \cup {t} |-> IF s = t THEN name ELSE types[s]]
    /\ TypeCall

RenameType(c, t, name) ==
    /\ call[c] = Idle
    /\ t \in DOMAIN types
    /\ \A s \in DOMAIN types \ {t} : types[s] # name
    /\ types' = [types EXCEPT ![t] = name]
    /\ TypeCall

OfType(t) == {id \in DOMAIN rows : rows[id].kind = "codex" /\ rows[id].type = t}

DeleteType(c, t) ==
    /\ call[c] = Idle
    /\ t \in DOMAIN types
    /\ OfType(t) = {}
    /\ types' = Restrict(types, DOMAIN types \ {t})
    /\ TypeCall

-------------------------------------------------------------------------------
(* Links: refs.go.                                                         *)

ParseReferences(text) ==
    LET refs[i \in 0..Len(text)] ==
          IF i = 0 THEN <<>>
          ELSE IF text[i] = NoName THEN refs[i - 1]
          ELSE Append(refs[i - 1], text[i])
    IN  refs[Len(text)]

LinksOf(id) == {l \in DOMAIN links : l.source = id}

WithoutLinksOf(id) == Restrict(links, DOMAIN links \ LinksOf(id))

\* Variants, each named for a bug, stand before the definitions they vary and are
\* used nowhere: they are the mistakes that the properties must notice.

ClearLinksIfAnyFollow(c) ==
    LET found == ParseReferences(call[c].new.text)
    IN  /\ call[c].op = "clearing"
        /\ links' = IF found = <<>> THEN links ELSE WithoutLinksOf(call[c].id)
        /\ Continue(c, [op |-> "linking", id |-> call[c].id, new |-> call[c].new,
                        rest |-> found])
        /\ UNCHANGED <<types, rows, made, activeCampaign, shown, calls, overlapped, failures, online>>

\* RebuildReferences: first the old links go...
ClearLinks(c) ==
    /\ call[c].op = "clearing"
    /\ links' = WithoutLinksOf(call[c].id)
    /\ Continue(c, [op |-> "linking", id |-> call[c].id, new |-> call[c].new,
                    rest |-> ParseReferences(call[c].new.text)])
    /\ UNCHANGED <<types, rows, made, activeCampaign, shown, calls, overlapped, failures, online>>

\* ...then there is a link for each reference.
InsertLink(c) ==
    /\ call[c].op = "linking"
    /\ call[c].rest # <<>>
    /\ links' = links (+) SetToBag({[source |-> call[c].id,
                                     campaign |-> call[c].new.campaign,
                                     name |-> call[c].new.name,
                                     to |-> Head(call[c].rest)]})
    /\ Continue(c, [call[c] EXCEPT !.rest = Tail(@)])
    /\ UNCHANGED <<types, rows, made, activeCampaign, shown, calls, overlapped, failures, online>>

\* The call reads the row back.  Where a delete came between that is an error, and
\* nothing changes.
ReturnSaved(c) ==
    /\ call[c].op = "linking"
    /\ call[c].rest = <<>>
    /\ Return(c)
    /\ UNCHANGED <<types, rows, links, made, activeCampaign, calls, overlapped, failures, online>>

DeleteBySource(c) ==
    /\ call[c].op = "unlinking"
    /\ links' = WithoutLinksOf(call[c].id)
    /\ Return(c)
    /\ UNCHANGED <<types, rows, made, activeCampaign, calls, overlapped, failures, online>>

-------------------------------------------------------------------------------
(* Entries and notes.                                                      *)

Insert(c, row) ==
    /\ made < MaxRows
    /\ Begin(c, made + 1)
    /\ made' = made + 1
    /\ rows' = [id \in DOMAIN rows \cup {made + 1} |->
                   IF id = made + 1 THEN row ELSE rows[id]]
    /\ Continue(c, [op |-> "clearing", id |-> made + 1, new |-> row])
    /\ UNCHANGED <<types, links, activeCampaign, shown, failures, online>>

CreateEntry(c, t, name, text) ==
    /\ t \in DOMAIN types
    /\ Insert(c, [kind |-> "codex", campaign |-> activeCampaign, type |-> t, name |-> name,
                  text |-> text])

CreateNote(c, name, text) ==
    Insert(c, [kind |-> "note", campaign |-> activeCampaign, name |-> name, text |-> text])

\* Users choose a row of the campaign their screen shows.
ChosenRows(c, kind) ==
    {id \in DOMAIN rows : rows[id].kind = kind /\ rows[id].campaign = shown[c]}

CheckUpdate(c, id, new) ==
    /\ Begin(c, id)
    /\ Continue(c, [op |-> "updating", id |-> id, new |-> new])
    /\ UNCHANGED <<types, rows, links, made, activeCampaign, shown, failures, online>>

UpdateEntryOfAnyCampaign(c, t, name, text) ==
    \E id \in ChosenRows(c, "codex") :
        CheckUpdate(c, id, [kind |-> "codex", campaign |-> activeCampaign, type |-> t,
                            name |-> name, text |-> text])

UpdateEntry(c, t, name, text) ==
    \E id \in ChosenRows(c, "codex") :
        /\ rows[id].campaign = activeCampaign
        /\ CheckUpdate(c, id, [kind |-> "codex", campaign |-> activeCampaign, type |-> t,
                               name |-> name, text |-> text])

\* Only that the note exists is checked; its links then go to the current campaign.
UpdateNote(c, name, text) ==
    \E id \in ChosenRows(c, "note") :
        CheckUpdate(c, id, [kind |-> "note", campaign |-> activeCampaign, name |-> name,
                            text |-> text])

UpdateTextWithForeignKeysOff(c) ==
    /\ call[c].op = "updating"
    /\ rows' = [id \in DOMAIN rows |->
                   IF id = call[c].id THEN [call[c].new EXCEPT !.campaign = rows[id].campaign]
                   ELSE rows[id]]
    /\ Continue(c, [call[c] EXCEPT !.op = "clearing"])
    /\ UNCHANGED <<types, links, made, activeCampaign, shown, calls, overlapped, failures, online>>

\* An UPDATE of a row that has gone affects no row, and the call goes on.
UpdateText(c) ==
    /\ call[c].op = "updating"
    /\ call[c].new.kind = "codex" /\ call[c].id \in DOMAIN rows
          => call[c].new.type \in DOMAIN types
    /\ rows' = [id \in DOMAIN rows |->
                   IF id = call[c].id THEN [call[c].new EXCEPT !.campaign = rows[id].campaign]
                   ELSE rows[id]]
    /\ Continue(c, [call[c] EXCEPT !.op = "clearing"])
    /\ UNCHANGED <<types, links, made, activeCampaign, shown, calls, overlapped, failures, online>>

DeleteRow(c, id) ==
    /\ Begin(c, id)
    /\ rows' = Restrict(rows, DOMAIN rows \ {id})
    /\ Continue(c, [op |-> "unlinking", id |-> id])
    /\ UNCHANGED <<types, links, made, activeCampaign, shown, failures, online>>

\* The campaign is not looked at.
DeleteEntry(c) == \E id \in ChosenRows(c, "codex") : DeleteRow(c, id)

DeleteNote(c) ==
    \E id \in ChosenRows(c, "note") : rows[id].campaign = activeCampaign /\ DeleteRow(c, id)

-------------------------------------------------------------------------------
(* Campaigns and failures.                                                 *)

SwitchCampaign(c, k) ==
    /\ call[c] = Idle
    /\ k # activeCampaign
    /\ activeCampaign' = k
    /\ shown' = [shown EXCEPT ![c] = k]
    /\ UNCHANGED <<types, rows, links, made, call, calls, overlapped, failures, online>>

\* A statement fails, or the program dies before it.  What was done stays.
Fail(c) ==
    /\ call[c] # Idle
    /\ failures < MaxFailures
    /\ failures' = failures + 1
    /\ Continue(c, Idle)
    /\ UNCHANGED <<types, rows, links, made, activeCampaign, shown, calls, overlapped, online>>

-------------------------------------------------------------------------------
(* Searches and lists.                                                     *)

\* Entries are joined with their types.
Listed(kind, k) ==
    {id \in DOMAIN rows :
        /\ rows[id].kind = kind /\ rows[id].campaign = k
        /\ kind = "codex" => rows[id].type \in DOMAIN types}

\* Triggers keep the full-text index in step with the rows.
Words(id) == {rows[id].name} \cup (ToSet(rows[id].text) \ {NoName})

SearchFTS(kind, k, q) == {id \in Listed(kind, k) : Words(id) \cap Prefixed[q] # {}}

SearchLIKE(kind, k, q) == {id \in Listed(kind, k) : Words(id) \cap Containing[q] # {}}

SearchByReference(kind, k, q) ==
    {id \in Listed(kind, k) : \E l \in LinksOf(id) : l.campaign = k /\ l.to \in Containing[q]}

SearchWithoutReferences(kind, k, q) ==
    LET found == SearchFTS(kind, k, q)
    IN  IF found = {} THEN SearchLIKE(kind, k, q) ELSE found

Search(kind, k, q) ==
    LET found == SearchFTS(kind, k, q)
    IN  (IF found = {} THEN SearchLIKE(kind, k, q) ELSE found)
        \cup SearchByReference(kind, k, q)

SearchEntries(k, q) == Search("codex", k, q)

SearchNotes(k, q) == Search("note", k, q)

\* What a campaign's screens say is linked from where.
ListAllByTarget(k) == {l \in DOMAIN links : l.campaign = k}

-------------------------------------------------------------------------------
ReferencesInit ==
    /\ types = BuiltIn
    /\ rows = <<>>
    /\ links = EmptyBag
    /\ made = 0
    /\ activeCampaign \in CampaignIds
    /\ shown = [c \in Clients |-> activeCampaign]
    /\ call = [c \in Clients |-> Idle]
    /\ calls = 0
    /\ overlapped = {}
    /\ failures = 0
    /\ online \in (SUBSET Clients) \ {{}}

TypeStep(c) ==
    \/ \E t \in TypeIds, n \in TypeNames : CreateType(c, t, n) \/ RenameType(c, t, n)
    \/ \E t \in TypeIds : DeleteType(c, t)

RowStep(c) ==
    \/ \E t \in TypeIds, n \in Names, s \in Texts : CreateEntry(c, t, n, s) \/ UpdateEntry(c, t, n, s)
    \/ \E n \in Names, s \in Texts : CreateNote(c, n, s) \/ UpdateNote(c, n, s)
    \/ UpdateText(c) \/ ClearLinks(c) \/ InsertLink(c) \/ ReturnSaved(c)
    \/ DeleteEntry(c) \/ DeleteNote(c) \/ DeleteBySource(c)

ReferencesNext ==
    \E c \in online :
        \/ TypeStep(c) \/ RowStep(c) \/ Fail(c)
        \/ \E k \in CampaignIds : SwitchCampaign(c, k)

ReferencesSpec == ReferencesInit /\ [][ReferencesNext]_referencesVars

-------------------------------------------------------------------------------
(* What must hold.                                                         *)

\* The tables hold rows of their schema: type names are not shared, and each entry
\* has its type.
ReferencesTypeOK ==
    /\ DOMAIN types \subseteq TypeIds
    /\ \A t \in DOMAIN types : types[t] \in TypeNames
    /\ \A s, t \in DOMAIN types : types[s] = types[t] => s = t
    /\ DOMAIN rows \subseteq 1..made /\ made \in 0..MaxRows
    /\ \A id \in DOMAIN rows :
          rows[id] \in Row /\ (rows[id].kind = "codex" => rows[id].type \in DOMAIN types)
    /\ IsABag(links) /\ DOMAIN links \subseteq Link
    /\ activeCampaign \in CampaignIds /\ shown \in [Clients -> CampaignIds]
    /\ call \in [Clients -> CallState]
    /\ calls \in 0..MaxCalls /\ failures \in 0..MaxFailures
    /\ overlapped \subseteq Clients /\ online \subseteq Clients

Copies(l) == IF BagIn(l, links) THEN links[l] ELSE 0

Occurrences(n, text) == Cardinality({i \in 1..Len(text) : text[i] = n})

\* The links of a row are, one by one, the references in its text, under its name and
\* for one campaign; a row that has gone has none.
LinksMatch(id) ==
    IF id \in DOMAIN rows
    THEN \E k \in CampaignIds :
           /\ \A l \in LinksOf(id) : l.campaign = k /\ l.name = rows[id].name
           /\ \A n \in Names :
                Copies([source |-> id, campaign |-> k, name |-> rows[id].name, to |-> n])
                  = Occurrences(n, rows[id].text)
    ELSE LinksOf(id) = {}

\* A save or delete that goes through while no other call is on the same row leaves
\* the links matching, whatever calls that failed or met had left
\* (RebuildReferences, DeleteBySource).
LoneCallsSettleLinks ==
    [][\A c \in Clients \ overlapped, id \in RowIds :
        /\ call[c] # Idle /\ call[c].id = id
        /\ call'[c] = Idle /\ failures' = failures
        => LinksMatch(id)'
      ]_referencesVars

\* What a campaign's screens show as linked from a codex entry is linked from an entry
\* of that campaign, also where another client has switched campaigns meanwhile
\* (UpdateEntry checks the campaign its links then get).
CodexLinksStayInCampaign ==
    \A k \in CampaignIds : \A l \in ListAllByTarget(k) :
        l.source \in DOMAIN rows /\ rows[l.source].kind = "codex"
          => rows[l.source].campaign = k

\* To a lone client whose calls went through, a search finds all rows that refer to a
\* matching name, also where the full-text search finds others only
\* (SearchEntries, SearchNotes).
SoleSearchFindsReferrers ==
    (\E c \in Clients : online = {c} /\ call[c] = Idle) /\ failures = 0 =>
        \A k \in CampaignIds, q \in Queries : \A id \in DOMAIN rows :
            /\ rows[id].campaign = k
            /\ ToSet(ParseReferences(rows[id].text)) \cap Containing[q] # {}
            => id \in SearchEntries(k, q) \cup SearchNotes(k, q)

===============================================================================
