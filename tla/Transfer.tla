------------------------------- MODULE Transfer --------------------------------
(***************************************************************************)
(* lootsheet connect --upload: a campaign of the local database is copied  *)
(* to the server's, and the token that opens the server is remembered.     *)
(*                                                                         *)
(* A database is a set of rows.  A row has a key, the row that owns it     *)
(* (its campaign, or its entry or item for the tables that only know       *)
(* their parent), the other rows it refers to, and contents.  Codex types  *)
(* belong to no campaign, and their contents are their name, which is      *)
(* unique.  Users of both databases go on working meanwhile.               *)
(***************************************************************************)
EXTENDS Naturals, Sequences

CONSTANTS
    Uploaders,    \* the most programs there can be on the local machine
    Addresses,    \* the addresses under which the server is known
    CampaignIds,  \* the campaigns there can be
    Rows,         \* the rows there can be
    Builtin,      \* the codex types of every new database
    Locals,       \* what the local database may hold at first
    Remotes,      \* what the server's database may hold at first
    MaxEdits,     \* a bound on what users change meanwhile
    None          \* no address, and no owner

VARIABLES
    db,      \* the two databases
    tokens,  \* the addresses in tokens.json, or Broken
    saved,   \* the addresses whose token has been written to it
    call,    \* what each program is doing
    edits,   \* how often users changed something
    online   \* the programs there are

vars == <<db, tokens, saved, call, edits, online>>

Sides == {"local", "server"}

\* tokens.json is there and is not JSON.
Broken == {None}

-------------------------------------------------------------------------------
(* Rows.                                                                   *)

\* Variants, each named for a bug, stand before the definitions they vary and are
\* used nowhere: they are the mistakes that the properties must notice.

Key(r) == <<r.table, r.id>>

\* The tables that know their campaign through their parent.
ParentTable == [journal_lines |-> "journal_entries", loot_appraisals |-> "loot_items",
                asset_template_lines |-> "loot_items"]

\* What a row's foreign keys name.
Needs(r) ==
    r.refs \cup
    (IF r.table \in DOMAIN ParentTable THEN {<<ParentTable[r.table], r.owner>>}
     ELSE IF r.table \in {"campaigns", "codex_types"} THEN {}
     ELSE {<<"campaigns", r.owner>>})

Missing(r, rows) == {k \in Needs(r) : \A s \in rows : Key(s) # k}

\* What PRAGMA foreign_key_check reports.
Dangling(rows) == {r \in rows : Missing(r, rows) # {}}

Types(rows) == {r \in rows : r.table = "codex_types"}

\* Two rows that no table holds at once.
Clash(r, s) ==
    \/ Key(r) = Key(s)
    \/ r.table = "codex_types" /\ s.table = "codex_types" /\ r.contents = s.contents

IsDatabase(rows) == rows \subseteq Rows /\ \A r, s \in rows : r # s => ~Clash(r, s)

ASSUME ConstantsAssumption ==
    /\ \A side \in {Locals, Remotes} : \A rows \in side :
          IsDatabase(rows) /\ Dangling(rows) = {}
    /\ IsDatabase(Builtin) /\ Types(Builtin) = Builtin
    /\ MaxEdits \in Nat
    /\ None \notin Addresses

\* The rows of a table that belong to campaign c, as the queries find them: through
\* parents that are still there.
OfCampaign(rows, table, c) ==
    {r \in rows :
        /\ r.table = table
        /\ CASE table = "campaigns" -> r.id = c
             [] table \in DOMAIN ParentTable ->
                    \E p \in rows : Key(p) = <<ParentTable[table], r.owner>> /\ p.owner = c
             [] OTHER -> r.owner = c}

\* A table is forgotten.
DeleteOrderWithoutTemplates ==
    <<"entity_references", "notes", "codex_entries", "loot_appraisals", "journal_lines",
      "journal_entries", "loot_items", "quests", "accounts", "campaigns">>

DeleteOrder ==
    <<"entity_references", "notes", "codex_entries", "asset_template_lines",
      "loot_appraisals", "journal_lines", "journal_entries", "loot_items", "quests",
      "accounts", "campaigns">>

deleteCampaignData(rows, c) ==
    LET left[i \in 0..Len(DeleteOrder)] ==
            IF i = 0 THEN rows
            ELSE left[i - 1] \ OfCampaign(left[i - 1], DeleteOrder[i], c)
    IN  left[Len(DeleteOrder)]

\* The tables that are copied.
CampaignTables ==
    {"campaigns", "accounts", "quests", "loot_items", "journal_entries", "journal_lines",
     "loot_appraisals", "asset_template_lines", "codex_entries", "notes",
     "entity_references"}

CampaignRows(rows, c) == UNION {OfCampaign(rows, table, c) : table \in CampaignTables}

\* An id is given once, so rows with the same key have the same owner.  A reference
\* stays within a campaign: every statement that writes one has looked up the other
\* row in the same campaign; only entries have a codex type, and each has one.
ASSUME RowsAssumption ==
    /\ \A r \in Rows : r.table \in CampaignTables \cup {"codex_types"}
    /\ \A r, s \in Rows : Key(r) = Key(s) => r.owner = s.owner
    /\ \A r \in Rows : r.table \in {"campaigns", "codex_types"} => r.refs = {}
    /\ \A r, s \in Rows : Key(s) \in r.refs =>
          IF s.table = "codex_types" THEN r.table = "codex_entries" /\ r.refs = {Key(s)}
          ELSE \A c \in CampaignIds : r \in CampaignRows(Rows, c) <=> s \in CampaignRows(Rows, c)

TypesUsed(rows, c) ==
    {t \in Types(rows) : \E e \in OfCampaign(rows, "codex_entries", c) : Key(t) \in e.refs}

\* A name that is taken is no reason to stay away.
WithTypesOfNewIds(rows, types) == rows \cup {t \in types : \A s \in rows : Key(s) # Key(t)}

\* INSERT OR IGNORE: a type whose id or name is taken stays away.
WithTypes(rows, types) == rows \cup {t \in types : \A s \in rows : ~Clash(s, t)}

-------------------------------------------------------------------------------
(* The token file: client/tokens.go, and the first lines of runUpload.     *)

Idle == [step |-> "idle"]

Call ==
    {Idle}
    \cup [step : {"dialling"}, addr : Addresses, found : BOOLEAN]
    \cup [step : {"saving"}, addr : Addresses]
    \cup [step : {"writing", "truncated"}, addr : Addresses, read : SUBSET Addresses]
    \cup [step : {"choosing"}]
    \cup [step : {"listing"}, campaign : CampaignIds]
    \cup [step : {"extracting"}, campaign : CampaignIds, mode : {"new", "overwrite"}]
    \cup [step : {"sent"}, campaign : CampaignIds, mode : {"new", "overwrite"},
          data : SUBSET (Rows \cup Builtin)]
    \cup [step : {"imported"}]

Continue(u, next) == call' = [call EXCEPT ![u] = next]

\* A file that cannot be parsed ends the command.
LookupToken(u, addr) ==
    /\ call[u] = Idle
    /\ tokens # Broken
    /\ Continue(u, [step |-> "dialling", addr |-> addr, found |-> addr \in tokens])
    /\ UNCHANGED <<db, tokens, saved, edits, online>>

\* A token that was found is not saved again.
Dial(u) ==
    /\ call[u].step = "dialling"
    /\ Continue(u, IF call[u].found THEN [step |-> "choosing"]
                   ELSE [step |-> "saving", addr |-> call[u].addr])
    /\ UNCHANGED <<db, tokens, saved, edits, online>>

\* The file is written anew.
ReadNoTokens(u) ==
    /\ call[u].step = "saving"
    /\ Continue(u, [step |-> "writing", addr |-> call[u].addr, read |-> {}])
    /\ UNCHANGED <<db, tokens, saved, edits, online>>

\* SaveToken reads the file; that it cannot is ignored by its caller.
ReadTokens(u) ==
    /\ call[u].step = "saving"
    /\ Continue(u, IF tokens = Broken THEN [step |-> "choosing"]
                   ELSE [step |-> "writing", addr |-> call[u].addr, read |-> tokens])
    /\ UNCHANGED <<db, tokens, saved, edits, online>>

\* os.WriteFile empties the file, then fills it.
TruncateTokens(u) ==
    /\ call[u].step = "writing"
    /\ tokens' = Broken
    /\ Continue(u, [call[u] EXCEPT !.step = "truncated"])
    /\ UNCHANGED <<db, saved, edits, online>>

WriteTokens(u) ==
    /\ call[u].step = "truncated"
    /\ tokens' = call[u].read \cup {call[u].addr}
    /\ saved' = saved \cup {call[u].addr}
    /\ Continue(u, [step |-> "choosing"])
    /\ UNCHANGED <<db, edits, online>>

-------------------------------------------------------------------------------
(* The upload: runUpload, UploadCampaign, and the server's handler.        *)

Has(rows, c) == OfCampaign(rows, "campaigns", c) # {}

\* The user picks one of the local campaigns.
promptCampaignChoice(u, c) ==
    /\ call[u].step = "choosing"
    /\ Has(db.local, c)
    /\ Continue(u, [step |-> "listing", campaign |-> c])
    /\ UNCHANGED <<db, tokens, saved, edits, online>>

\* The server's list decides, and the user confirms an overwrite.
resolveUploadMode(u) ==
    /\ call[u].step = "listing"
    /\ LET c == call[u].campaign
       IN  Continue(u, [step |-> "extracting", campaign |-> c,
                        mode |-> IF Has(db.server, c) THEN "overwrite" ELSE "new"])
    /\ UNCHANGED <<db, tokens, saved, edits, online>>

\* What the temporary database holds: a new one has the built-in codex types, and
\* the local types come after them.
ExtractOf(rows, c) == WithTypes(Builtin, TypesUsed(rows, c)) \cup CampaignRows(rows, c)

\* One transaction reads the local database.  It enforces foreign keys: an entry
\* whose type stayed away ends the upload.
extractCampaignDB(u) ==
    /\ call[u].step = "extracting"
    /\ LET c == call[u].campaign
       IN  /\ Has(db.local, c)
           /\ Dangling(ExtractOf(db.local, c)) = {}
           /\ Continue(u, [step |-> "sent", campaign |-> c, mode |-> call[u].mode,
                           data |-> ExtractOf(db.local, c)])
    /\ UNCHANGED <<db, tokens, saved, edits, online>>

\* Rows are copied as they are; one whose key is taken ends the import.
CanInsert(rows, new) == \A r \in new, s \in rows : Key(r) # Key(s)

\* A campaign that appeared meanwhile is replaced.
importCampaignWhateverIsThere(u) ==
    /\ call[u].step = "sent"
    /\ LET c == call[u].campaign
           new == CampaignRows(call[u].data, c)
           left == deleteCampaignData(db.server, c)
       IN  /\ CanInsert(left, new)
           /\ db' = [db EXCEPT !.server = WithTypes(left, TypesUsed(call[u].data, c)) \cup new]
    /\ Continue(u, [step |-> "imported"])
    /\ UNCHANGED <<tokens, saved, edits, online>>

\* The import's transaction, with foreign keys off.  (The backup an overwrite is
\* preceded by is Store's.)
importCampaign(u) ==
    /\ call[u].step = "sent"
    /\ LET c == call[u].campaign
           new == CampaignRows(call[u].data, c)
           left == IF call[u].mode = "overwrite" THEN deleteCampaignData(db.server, c)
                   ELSE db.server
       IN  /\ call[u].mode = "new" => ~Has(db.server, c)
           /\ CanInsert(left, new)
           /\ db' = [db EXCEPT !.server = WithTypes(left, TypesUsed(call[u].data, c)) \cup new]
    /\ Continue(u, [step |-> "imported"])
    /\ UNCHANGED <<tokens, saved, edits, online>>

\* Foreign keys are checked when the import has been committed: what the check finds
\* is reported as an error, and changes nothing.
verifyAndReenableForeignKeys(u) ==
    /\ call[u].step = "imported"
    /\ Continue(u, Idle)
    /\ UNCHANGED <<db, tokens, saved, edits, online>>

\* A command ends early: the user, the network or a statement refuses, or the program
\* dies.  What was sent is then imported or not; what is not committed is rolled
\* back; the token file stays as it is.
Fail(u) ==
    /\ call[u].step # "idle"
    /\ Continue(u, Idle)
    /\ UNCHANGED <<db, tokens, saved, edits, online>>

-------------------------------------------------------------------------------
(* The users of the two databases.  Foreign keys are on.                   *)

Edit(side, rows) ==
    /\ edits < MaxEdits
    /\ edits' = edits + 1
    /\ db' = [db EXCEPT ![side] = rows]
    /\ UNCHANGED <<tokens, saved, call, online>>

AddRow(side) ==
    \E r \in Rows :
        /\ \A s \in db[side] : ~Clash(r, s)
        /\ Missing(r, db[side]) = {}
        /\ Edit(side, db[side] \cup {r})

DeleteRow(side) ==
    \E r \in db[side] :
        /\ \A s \in db[side] : Key(r) \notin Needs(s)
        /\ Edit(side, db[side] \ {r})

\* A row gets other contents, or comes to refer to another row.
ChangeRow(side) ==
    \E r \in db[side], s \in Rows \ db[side] :
        /\ Key(s) = Key(r) /\ s.owner = r.owner
        /\ \A t \in db[side] \ {r} : ~Clash(s, t)
        /\ Missing(s, db[side]) = {}
        /\ Edit(side, (db[side] \ {r}) \cup {s})

-------------------------------------------------------------------------------
Init ==
    /\ db \in [local : Locals, server : Remotes]
    /\ tokens \in SUBSET Addresses
    /\ saved = tokens
    /\ call = [u \in Uploaders |-> Idle]
    /\ edits = 0
    /\ online \in (SUBSET Uploaders) \ {{}}

UploaderStep(u) ==
    \/ \E addr \in Addresses : LookupToken(u, addr)
    \/ Dial(u) \/ ReadTokens(u) \/ TruncateTokens(u) \/ WriteTokens(u)
    \/ \E c \in CampaignIds : promptCampaignChoice(u, c)
    \/ resolveUploadMode(u) \/ extractCampaignDB(u)
    \/ importCampaign(u) \/ verifyAndReenableForeignKeys(u)
    \/ Fail(u)

UserStep(side) == AddRow(side) \/ DeleteRow(side) \/ ChangeRow(side)

Next == (\E u \in online : UploaderStep(u)) \/ (\E side \in Sides : UserStep(side))

Spec == Init /\ [][Next]_vars

-------------------------------------------------------------------------------
(* What must hold.                                                         *)

\* The databases hold rows that can be there together, and the calls carry what
\* their steps need.
TypeOK ==
    /\ \A side \in Sides : IsDatabase(db[side])
    /\ tokens \in (SUBSET Addresses) \cup {Broken}
    /\ saved \subseteq Addresses
    /\ call \in [Uploaders -> Call]
    /\ edits \in 0..MaxEdits
    /\ online \subseteq Uploaders

Imports(u) == call[u].step = "sent" /\ call'[u].step = "imported"

\* After an import the server has the campaign as it was extracted, row for row, with
\* nothing left of what was there; no other campaign has lost or got anything;
\* no codex type was replaced; and rows of the server were only given up where its
\* user had been told that the campaign is there (importCampaign,
\* deleteCampaignData), also when the server's list was out of date.
ArrivesWhole ==
    [][\A u \in Uploaders : Imports(u) =>
        LET c == call[u].campaign
        IN  /\ CampaignRows(db'.server, c) = CampaignRows(call[u].data, c)
            /\ db.server \ CampaignRows(db.server, c) \subseteq db'.server
            /\ db'.server \ db.server \subseteq call[u].data
            /\ call[u].mode = "new" => db.server \subseteq db'.server
      ]_vars

\* What an import leaves without its parent is a codex entry whose type stayed away
\* because the server has another type of that name; nothing else does, and users'
\* changes never do.  (extractCampaignDB copies in the order of the foreign keys,
\* insertCampaignData without them.)
OnlyTypesStayAway ==
    [][\A side \in Sides : \A r \in Dangling(db'[side]) \ Dangling(db[side]) :
        /\ side = "server" /\ r.table = "codex_entries"
        /\ \E u \in Uploaders :
              /\ Imports(u)
              /\ \E t \in Types(call[u].data), s \in Types(db.server) :
                    Missing(r, db'.server) = {Key(t)} /\ Key(s) # Key(t) /\ Clash(s, t)
      ]_vars

\* A program that has tokens.json to itself loses none of the tokens that were written
\* to it, unless it is cut off while it writes: then the file is not JSON, and is
\* left alone until somebody repairs it.
SoleTokensKept ==
    (\E u \in Uploaders : online = {u}) /\ tokens # Broken => saved \subseteq tokens

===============================================================================
