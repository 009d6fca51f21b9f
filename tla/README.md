# LootSheet, specified

LootSheet keeps the books of a role-playing party: a chart of accounts, a
journal, registers of quests and loot, notes and a codex, in one SQLite file,
used through a terminal interface that runs beside the file or talks to a
server. This directory holds TLA+ modules for the parts of it where an order of
events matters, TLC configurations that check them on small instances, and
proofs that TLAPS checks for every instance.

Paths below are relative to `src/src/` unless they begin with `src/`.

1. [The system](#1-the-system)
2. [How the models are made](#2-how-the-models-are-made)
3. [Modules](#3-modules)
4. [Runs](#4-runs)
5. [Fairness](#5-fairness)
6. [Proofs](#6-proofs)
7. [Where code and documentation disagree](#7-where-code-and-documentation-disagree)
8. [Plan](#8-plan)
9. [Not modelled](#9-not-modelled)

## 1. The system

### Components

| Component | Code | State | Operations | What makes it correct |
|---|---|---|---|---|
| Chart of accounts | `ledger/account` | table `accounts` | create, rename, activate, deactivate, delete | codes are unique in a campaign; an account with postings stays |
| Journal | `ledger/journal`, `journal_poster.go`, `journal_helpers.go`, `validation.go` | `journal_entries`, `journal_lines` | post (custom, expense, income), reverse | entries balance, are numbered without gaps, are never rewritten, and are undone once, by a mirror image |
| Reports | `ledger/report`, `journal/ledger_report.go` | none | trial balance, account ledger, receivables, lists | they show what the journal says |
| Quest register | `ledger/quest` | `quests` | create, update, collect, write off | status and journal agree; a reward is settled once |
| Loot and assets | `ledger/loot` | `loot_items`, `loot_appraisals`, `asset_template_lines` | create, update, transfer, appraise, recognize, sell | an item is booked once, at its recognized value, until it is sold |
| Campaigns and sessions | `ledger/campaign`, `app/data_loader.go`, `app/tui_dashboard.go` | `campaigns`, `settings`, the loader's current campaign, each screen | create, rename, switch, delete | users work in the campaign they see; deletion loses nothing |
| Server | `net/server` | listener, connections, reader goroutines | accept, authenticate, serve, shut down | answers match requests; shutdown ends and loses nothing |
| Client connection | `net/client`, `render/app.go` | the connection, its mutex, the token file | dial, call, ping, notice a disconnection | a call returns; a lost server is noticed |
| Campaign transfer | `net/server/upload.go`, `app/connect.go`, `net/client/tokens.go` | both databases, the token file | list, upload (create or overwrite), import | a campaign arrives whole or not at all, and nothing else is touched |
| Database lifecycle | `ledger/init.go`, `migrations.go`, `backup.go` | the file, its schema version, backups | detect, initialise, back up, migrate, download | after a crash the file is whole and its schema is what it says |
| Cross references | `ledger/refs` | `entity_references` | rebuild, list, delete | links follow the texts |
| Notes and codex | `ledger/notes`, `ledger/codex`, `ledger/fts.go` | `notes`, `codex_entries`, `codex_types`, full-text index | create, update, rename, delete, search | entries keep their types; searches find what refers to a name |
| Shell | `render/shell*.go`, `compose*.go`, `search.go`, `ledger_view.go` | section, tab, a selection per list, the open modal, a form's cursor | keys, the wheel, answers, reload | what is open is of the item shown as selected; cursors stay in range |
| Note editor | `render/editor_*.go` | text, cursor, undo, matches, whether it is saved | keys, `:w`, `:q` | what it says is saved is; undo restores; the cursor is in the text |
| Currency, configuration, exports, command line | `currency`, `config`, `ledger/export`, `app` | none | parse, format, write files | formats and parses agree |

### How they interact

A key press in the shell becomes a command (`render/shell.go`), which
`handleTUICommand` (`app/tui_dashboard.go`) carries out: it takes the campaign
from the loader, looks things up, calls a repository in `ledger/`, and rebuilds
all screen data. Locally this is a function call. Over a connection the client
sends the command as a frame (`net/wire`) and the server's handler calls the
same function, on the one loader that all its connections share
(`app/serve.go`). Server, local programs and copies of the program meet in the
SQLite file and nowhere else. Each repository call opens the database for
itself (`ledger/db.go`).

### What is hard about it

- *Reads before the transaction.* Most calls read through the pool, decide, and
  then write in a transaction that does not look again. What they read may be
  stale by then (accounts, statuses, totals, appraisals).
- *No transaction at all.* Deleting an account and creating, switching and
  deleting a campaign are sequences of statements; any of them may fail, and
  other sessions' statements fall in between.
- *One loader for all connections.* The campaign a command works in is a pair of
  fields that any session may change at any time.
- *Long sequences.* What is due on a quest is recomputed from the journal after
  any number of payments, reversals, reversals of reversals and renamings.
- *Shutdown.* Goroutines, their readers, requests in progress and broken
  connections meet a cancelled context in any order.
- *Files.* Backups, downloads and the token file are copied or rewritten while
  others may write them, and a program may die in the middle of a commit.
- *Checks after the commit.* Migrations and imports look at foreign keys when it is
  too late to undo anything.
- *Links without a transaction.* A text and the links kept of it are written by
  separate statements.
- *Positions that outlive their lists.* Selections, form cursors, search matches
  and undo are positions in something that changes under them.

`PROJECT.json` lists these hazards line by line with the properties that cover
them.

## 2. How the models are made

**Steps.** A step is what nothing else can interrupt: one query, one statement,
or one transaction. What a call has read is kept in `call[s]` until the call
ends, so that a later step works from it although the tables have moved on. A
client (or session) runs one call at a time. A lost connection whose handler
still runs counts as one more client.

**SQLite.** There is one writer at a time. A transaction commits as a whole, or
fails as a whole, which is the step `Fail`; so does a statement, also when the
database is busy. Foreign keys are enforced (`ledger/db.go` turns them on for the
first connection of a call's pool, the one its writes use), and violated ones
make the step impossible, which leaves `Fail`. The unique
constraint on account codes is a guard of `CreateAccount`. Identifiers are drawn
at random by the code; the models take any unused one.

**Alone and together.** Many guarantees hold only for a client that has the
database to itself, since nothing locks between reading and writing. The
variable `online`, chosen in the initial state, is the set of clients there are.
Properties named `Sole...` speak of the states and steps where it has one
element; the others hold for any number. Both kinds are checked in one run, and
runs that expect a violation show what a second client breaks.

**Data.** Amounts, codes, titles, names and dates are members of small sets:
only their equality, order or sums matter. Descriptions and formats are left
out. A campaign's name is represented by its identifier.

**Variants.** Some definitions are preceded by a variant whose name tells a bug
(`CommitReversalWithoutMark`). No other definition uses it. It documents which
mistake a property of the module notices.

## 3. Modules

### `JournalLines`

The lines of an entry: their totals, when a draft is accepted
(`ValidateJournalPostInput`), and the mirror image a reversal is made of.

### `Ledger`

Accounts and journal under concurrent clients.

| Action | Code |
|---|---|
| `CreateAccount`, `SetAccountActive` | `account/repo.go`: one statement each |
| `DeleteLookup`, `DeleteCount`, `DeleteRow` | `DeleteAccount`: three statements |
| `CheckGuided` | `PostExpenseEntry`, `PostIncomeEntry` check both accounts and build a draft |
| `PostCustom`, `PostGuided` | `PostJournalWithinTx` up to the lookup of accounts, which is not within the transaction |
| `CommitPosting` | the transaction: next number, entry, lines |
| `ReadForReversal`, `CommitReversal` | `ReverseJournalEntry`: the read, the transaction |

`ReportedDebits` and `ReportedCredits` are the sums of `GetTrialBalance` and
`GetAccountLedger`.

### `Books`

What the journal promises, in two actions: append an entry to a campaign's
book, or append the mirror image of an entry and strike that entry.
`Ledger!ImplementsBooks` maps entries to it by their numbers and forgets
identifiers, statuses, accounts and calls.

### `Quests`

One campaign's quests and the entries that speak of them. An entry is its effect
on party cash and on the loss account, its link and its memo. The commands of
the screen (`ListReceivable`, then `SettleListed`) and direct callers
(`CollectAmount`) lead to the same three steps: read the quest, read what has been
paid, commit. `QueryQuestTotalPaid` is the query of that name, link and memo
included. `CompleteQuest` is external: only data files and test set-up advance a
quest beyond `accepted` before it is paid. `ListReceivable` is two queries of the
screen, the quests and then the receivables, in one step: the second looks for
itself at the status, the reward and the payments, and is the only one whose
numbers are used, so the first, however old, can only keep a quest from being
offered.

### `Loot`

Items, appraisals, and the entries that put items on the books and take them off.
Recognizing and selling are chains of reads that start in the screen's handler
(`app/tui_loot.go`) and end in the repository's transaction; each read is a step.
Ties between appraisals of one date are resolved either way.

### `Campaigns`

Campaigns, sessions and programs. `host` says which program a session runs in;
`loader` is each program's pair of fields. Every command that changes campaign
ends in the same tail: `EnterId`, `EnterTitle` (the two assignments of
`SetCampaign`), `LoadTitle`, `LoadLists` (building the screen). `BeginWrite` and
`CommitWrite` stand for every command that adds data: the first takes the
campaign from the loader, the second inserts under the foreign keys. A deletion
is a statement per step: the count of what must not be there (`CountRows`), the
references, the notes and the codex one after the other (`ClearNotes`), the accounts,
the campaign. `Restart`
kills a program at any moment and starts it again.

### `Server`

The accept loop, one handler and one reader goroutine per connection, shutdown,
and the clients. `pinging` says whether a terminal's ping goroutine still runs:
it ends with the first error that means a disconnection, also when the event
that should tell the terminal finds its queue full and is dropped (`Notice`,
`render/app.go:84-98`). `phase` is where a handler is, `reader` and `held` the reader
goroutine, `reads` the channel of capacity one between them. `Break` cuts a
connection and loses any suffix of the frames on their way. Requests carry a tag
that alternates, to tell an answer from the answer before it; the real frames
have none, and no action decides by it. Handlers are one step here; what they
do is in the other modules.

### `Lifecycle`

What the database file promises: it is created once, rows are entered, its schema
only moves forward (`Commit`), a backup is a state the file had or was being given
when the copy began (`BeginCopy`, `EndCopy`), and a restored file is a backup
(`Restore`). It promises nothing to a user who puts a backup beside the journal of
a commit that died (`RestoreBesideJournal`). `Store!ImplementsLifecycle` maps the
file a reader would find to it.

### `Store`

The file under programs of several builds. A file has two pages, which stand for
all of them. Every commit changes the front page (it holds SQLite's change counter);
whether it changes the back page is open. SQLite's default rollback journal, which
nothing in the repository replaces (`ledger/db.go:21-24`), saves only the pages that
are changed (`Saved`); the commit then writes them and drops the journal (`BeginCommit`,
`FinishCommit`). A program that dies in between leaves the journal, and the next to
open the file puts its pages into whatever file lies there (`RollBack`), a backup
included that was copied over it meanwhile. Each page remembers which content it
was written with, so that pages of two moments can be told from those that go
together (`Whole`). `Durable` is what the next reader will find. `LifecycleState` is `InspectSQLiteDatabase` with
`GetDatabaseStatus`.

| Action | Code |
|---|---|
| `InspectForInit`, `CreateDatabase` | `EnsureSQLiteInitialized` |
| `EnsureReady` | the start of the terminal and the server (`app/database.go`): migrate an upgradeable file |
| `InspectForMigration`, `CopyFront`, `CopyBack`, `ApplyMigrations`, `VerifyForeignKeys` | `MigrateSQLiteDatabase`, its backup, its transaction, the check after it |
| `ReadFile`, `SaveDownload` | `DOWNLOAD_DATABASE`, and the client's file |
| `Write` | any repository call |
| `Crash`, `Restore` | a program dies; a user puts a backup back |

A plain copy reads page by page and waits for nobody, so a backup may be torn.
`Restore` follows `src/docs/upgrade-recovery.md`: an intact backup is copied over the file,
and nothing removes a journal. `PRAGMA quick_check` may find pages of two moments
damaged or may not notice them, so programs go on with any file.

### `Transfer`

`lootsheet connect --upload`. A database is a set of rows with owners and
references; `deleteCampaignData` deletes by the code's order of tables, in which
children are found through parents; `CampaignTables` are the tables
`insertCampaignData` copies. The steps are those at which something else
can happen: the lookup, the reading, emptying and writing of `tokens.json`, the
choice, the server's list, the extraction, the import, the check after it. Users
of both databases go on adding, deleting and changing rows in between.

### `References`

Codex entries, notes, codex types and links. A text is the sequence of names it
refers to. Saving is `UpdateEntry` or `UpdateNote` (the check), `UpdateText`,
`ClearLinks`, one `InsertLink` per reference, `ReturnSaved`: a statement each.
`ParseReferences` runs along the text and keeps the names of somebody. `Search` is
the full-text search, the search by substring where that finds nothing, and the
search by link. Quests and items rebuild their links by the same
calls (`ledger/quest/repo.go`, `ledger/loot/repo.go`) and are never deleted.

### `TextBuffer`, `Editor`

`TextBuffer` holds the operators of `render/editor_buffer.go`, from one buffer to
the next: edits, undo, moves, search. Three kinds of characters are told apart,
since nothing else decides anything. `Editor` adds modes, keys and commands
(`editor_keys.go`) and what a save can end in: stored, refused with the editor
kept, or failed with the editor closed.

### `Compose`, `Shell`

`Compose` holds the forms of `render/compose.go` and `compose_keys.go`: which fields
a mode has, where the cursor goes, how lines come and go. `Shell` is everything a
key, the wheel, an answer or a reload can do to sections, tabs, selections and
modals (`render/shell.go` and its neighbours). The event loop of `render/app.go`
waits for the command a key issues, so a key and its answer are one step. A
reload brings any snapshot, since other clients write. An answer names the section
it goes to and may name an item there; that of a renamed codex type names an item and
no section, which `Run` takes for the dashboard (`app/tui_dashboard.go:787`,
`render/app.go:157`).

### The `...Proofs` and `MC` modules

`LedgerProofs`, `StoreProofs`, `CampaignsProofs`, `QuestsProofs` and `LootProofs` hold
the theorems of the modules they are named after, `ClientsProofs` those of
`Server`, `References` and `Shell`, `HandoverProofs` those of `Transfer` and `Editor`,
and `SumProofs` what they need of recursive functions and of sums; see
[Proofs](#6-proofs). So that one module can extend several, `References`, `Editor`
and `Shell` prefix the names every specification has (`ReferencesSpec`, `EditorInit`,
`ShellTypeOK`).

`MCLedger`, `MCQuests`, `MCLoot`, `MCCampaigns`, `MCServer`, `MCStore`, `MCTransfer`,
`MCReferences`, `MCEditor` and `MCShell` give the constants their values.

## 4. Runs

| Run | Checks | States |
|---|---|---|
| `ledger` | types; `NumbersGapless`; `LinesKeepTheirAccounts`; `ReversalsMirror`; `SolePostingsSound`; `ImplementsBooks` | 265,000 |
| `ledger_report` | finds `ReversedEntriesCancelOut` violated | |
| `quests` | types; `StatusFollowsJournal`; `TotalPaidIsNetCash`; `SoleClosedQuestsRest` | 271,000 |
| `loot` | types; `RegisterFollowsJournal`; `SoleInventoryMatches` | 100,000 |
| `campaigns` | types; `WorkKeepsItsCampaign`; `SoleWritesGoWhereShown` | 2,284,000 |
| `campaigns_shared` | finds `WritesGoWhereShown` violated | |
| `server` | types; `AnswersFit`; `ShutdownCompletes`; `CallsReturn`; `PingFindsDisconnection` | 6,000 |
| `store` | types; `SchemaIsRecorded`; `SoleMigrationBackedUp`; `ImplementsLifecycle` | 1,238,000 |
| `transfer` | types; `SoleTokensKept`; `ArrivesWhole`; `OnlyTypesStayAway` | 204,000 |
| `references` | types; `CodexLinksStayInCampaign`; `SoleSearchFindsReferrers`; `LoneCallsSettleLinks` | 749,000 |
| `editor` | types; `CleanMeansStored`; `UndoReachesOpened`; `OnlySearchStrays` | 844,000 |
| `shell` | types, with the range of every cursor; `ModalIsOfSelectedItem`; `SelectionFollows` | 30,000 |

**What they show.** In every interleaving of two clients the journal keeps its
numbers, its accounts and its reversals, and is a book. Registers follow the
journal although what they read is stale; what holds only for a client alone is
named `Sole...`. A file survives a crash at any step, and its schema is what it
says; the one way to find pages of two moments in it is a backup that was copied
over it beside the journal of a commit that died. A campaign arrives as it was extracted, and what its import can leave
without a parent is known exactly. Links may be lost or doubled where calls
meet, and are right again after the next call that meets none. The editor never
calls unsaved text saved, and the shell never asks about one item while it
shows another.

**Bounds.** A bound is the size of a constant set, or a constant that begins with
`Max` and stands in a guard.

- `ledger`: 2 clients, 2 campaigns, 2 codes, 3 accounts, 3 entries, drafts of two
  and three lines of which two must be refused. Two clients are what a race
  needs. With three entries an entry can be posted, reversed twice by
  overlapping calls, or reversed and restored, and both campaigns can have
  entries. One account identifier is free, so an account can be created in
  either campaign, also with a code that was deleted. Clients and entries are
  interchangeable and used symmetrically.
- `quests`: 2 clients, 1 quest, 2 titles, 3 entries, rewards 0 and 2, payments of 1
  and 3, one amount posted by hand. A reward can be underpaid, met and overpaid,
  paid in parts, and paid, reversed and restored. Rival quests matter only through
  titles: an entry that bears another quest's title is an entry that bears the
  other title here.
- `loot`: 2 clients, 1 item, 2 appraisals of values 0 to 2 on 2 dates, 3 entries.
  The recognized appraisal may be older, newer or of the same date as the other.
- `campaigns`: 2 sessions, alone, on one server, or one there and one beside it;
  2 campaigns, of which one is yet to be created; one seed account; entries, which
  refer to accounts and forbid a deletion, and notes, which do neither. References
  and codex entries are deleted by a statement each like notes, and are empty here. A campaign can be
  deleted during its own creation, during another session's writes, and after
  failed deletions.
- `server`: 1 connection; `Break` and `Cancel` happen at any moment of it.
  Connections share only the listener, the cancelled context and the wait group,
  and a second one would be scheduled apart from the first: the graph of two, with
  the liveness properties, takes too long.
- `store`: 2 programs of builds 2 and 3, 6 kinds of file to begin with, some of them of
  version 1, one row, 2 copies. Three versions let one program migrate what another is
  migrating to a later version. One row is enough for a backup to miss it, and for a
  commit whose journal may not hold the back page.
- `transfer`: 2 uploaders, 2 addresses, one change by users. The rows form a chain of
  each kind (entry and line; item and template; entry of a codex type), beside
  another campaign, with a type of the same name and another identifier.
- `references`: 2 clients, 2 campaigns, 2 rows, 3 calls, 1 failure, a text without
  references and one that refers twice to one name and once to nobody. A call can
  meet another, fail, and be made good by a third.
- `editor`: up to two lines of two characters, one undo, opened once. One undo lets
  every operation be undone after any other, also after a save; a text that is
  opened again is a text of the database, like the first. Two matches on two
  lines, and an edit, are enough for a match to go stale.
- `shell`: three list sections and two tabs of the settings, of which one list is
  empty and one has two items, which may go, come back and change places; forms of
  up to three lines where the code allows eight; a ledger of up to two accounts,
  and the count of its pages up to ten (`MaxIndex`).

Deadlock is not checked where identifiers or counts may be used up or the program
ends, which is everywhere but in the campaign runs. Those check it.

## 5. Fairness

Only `Server` states fairness, and only for what runs without anybody's
decision:

- weak fairness of every goroutine's next step: the Go scheduler runs what can
  run, reads of a closed connection return, and handlers finish;
- strong fairness of `SelectDone`: when shutdown and a request are both ready, Go
  picks at random, so shutdown cannot lose for ever;
- weak fairness of the client's `SendFirst`, `ReceiveGreeting` and `Receive`:
  `Dial` sends the first message at once, and `Call` reads as soon as it wrote;
- strong fairness of the ping: a goroutine of the terminal sends one every two
  seconds (`render/app.go`), between other calls.

Nothing is assumed of users, of interrupts, of `Accept` while the listener is
open, or of connections breaking. Two assumptions are in the model itself: a
client that dialled sends its first message or goes away, and a broken
connection is noticed at both ends. The code needs both: the server reads the
first message without a deadline (`net/server/server.go:109`), so a peer that
connects and stays silent keeps it from stopping, and `Call` has no deadline
either, so a partition that no packet ever reveals would keep it waiting.

## 6. Proofs

Every model has its theorems: all safety invariants, all action properties and
both refinements that the passing runs check are proved. The theorems hold for
every value of the constants that satisfies the assumptions below. Each module
proves that an invariant is inductive (`IInv`, by `InitIInv`, `NextKeepsIInv` and
`Invariance`, where the table says nothing else) and derives the rest from it.

| Module | Theorems, with the property that a run checks |
|---|---|
| `LedgerProofs` | `Invariance`; `TypeCorrect` (`TypeOK`); `Numbering` (`NumbersGapless`); `LinesKeepAccounts` (`LinesKeepTheirAccounts`); `ReversalsAreMirrors` (`ReversalsMirror`); `SolePostings` (`SolePostingsSound`); `BooksRefinement` (`ImplementsBooks`) |
| `StoreProofs` | `Invariance`; `TypeCorrect` (`TypeOK`); `SchemaRecorded` (`SchemaIsRecorded`); `MigrationBackedUp` (`SoleMigrationBackedUp`); `LifecycleRefinement` (`ImplementsLifecycle`); `TornOnlyByRestoring`, which no run states |
| `CampaignsProofs` | `Invariance`; `TypeCorrect` (`TypeOK`); `WorkKept` (`WorkKeepsItsCampaign`); `SoleWrites` (`SoleWritesGoWhereShown`) |
| `QuestsProofs` | `Invariance`; `TypeCorrect` (`TypeOK`); `RegisterInStep` (`StatusFollowsJournal`); `ClosedQuestsRest` (`SoleClosedQuestsRest`); `PaidIsNet` (`TotalPaidIsNetCash`) |
| `LootProofs` | `Invariance`; `TypeCorrect` (`TypeOK`); `RegisterInStep` (`RegisterFollowsJournal`); `InventoryMatches` (`SoleInventoryMatches`) |
| `ClientsProofs`, of `Server` | `ServerInvariance`; `ServerTypeCorrect` (`TypeOK`); `AnswersAlwaysFit` (`AnswersFit`) |
| `ClientsProofs`, of `References` | `ReferencesTypeCorrect` (`ReferencesTypeOK`); `CodexLinksCorrect` (`CodexLinksStayInCampaign`); `LoneCallsSettleLinksCorrect` (`LoneCallsSettleLinks`); `SoleSearchCorrect` (`SoleSearchFindsReferrers`); from `CallsFollowRows`, `LoneCalls` and `SoleRowsAreLinked` |
| `ClientsProofs`, of `Shell` | `ShellTypeCorrect` (`ShellTypeOK`); `ModalOfSelectedItem` (`ModalIsOfSelectedItem`); `SelectionsFollow` (`SelectionFollows`); from `ShellInv` |
| `HandoverProofs`, of `Transfer` | `TransferInvariance`; `TransferTypeCorrect` (`TypeOK`); `TokensKept` (`SoleTokensKept`); `CampaignArrives` (`ArrivesWhole`); `TypesOnlyStayAway` (`OnlyTypesStayAway`) |
| `HandoverProofs`, of `Editor` | `EditorTypeCorrect` (`EditorTypeOK`); `UndoCorrect` (`UndoReachesOpened`); `CleanCorrect` (`CleanMeansStored`); `StrayCorrect` (`OnlySearchStrays`); from `EditorInv` and `CleanInv`; `SearchFindsAll`, which no run states |

### Assumptions

`ConstantsAssumption` of each module (`ReferencesAssumption`, `EditorAssumption`,
`ShellAssumption`) says of which kind its constants are, and in some that there are
finitely many clients. What it says beyond that:

- `Ledger`: two accounts of the seed that have the same campaign and code are one
  account (`UNIQUE (campaign_id, code)`, migration 9).
- `Store`: there is a newest build, or the versions would have no end.
- `Campaigns`: a session runs in its own program or on the server.
- `Quests`, `Loot`: there are finitely many identifiers of entries, since amounts of
  a register's entries are added up.
- `Transfer`, `RowsAssumption`: an identifier is given once, so rows with the same
  key have the same owner; only a codex entry has a codex type, and refers to
  nothing else; every other reference stays within a campaign. The code looks up
  what a row is to refer to in the campaign of the row (`ledger/journal_poster.go:23`,
  `ledger/journal/repo.go:50`, `ledger/loot/repo.go:193`, `ledger/quest/repo.go:250`).
- `References`: the built-in types have names of their own, and what the full-text
  search finds of a query contains it.
- `Editor`: a reference is written in letters; the notes a database begins with have
  a line, if an empty one, and were trimmed, as every note is before it is stored
  (`ledger/notes/repo.go:30`, `Trimmed`).
- `Shell`: the dashboard is the first section and there is one; a form with lines
  begins with two, so that the most there can be is not less; lists are finite.

### Arguments

*Several clients.* A commit writes what an earlier step read, so no invariant is
inductive before it says what remains true of it. In `Quests`, `Loot` and
`Campaigns` that is `Begun`, a statement about one call that no step of another
client can falsify: rows are not deleted, entries keep their amounts, an
appraisal keeps its item and value. What only a client alone may rely on is
`Steady`: what it read is still so. The lemmas `OneClient` and `OneSession` show once
for all actions that the calls of others survive a step, which leaves for each
action its own call and the tables.

*Ledger.* `IInv` is the conjunction of `TypeOK`, `NumbersGapless`,
`LinesKeepTheirAccounts`, `ReversalsMirror` and `CallsConsistent`. The lines a
reversal copied are still the original's lines (entries are never rewritten, so a
reversal committed late still mirrors its original), and an account that a posting
resolved still belongs to the campaign unless its row was deleted (identifiers
are not given twice), in which case the foreign key refuses the insert.
Numbers stay gapless because the maximum is read in the transaction that
inserts; `NextNumber` shows that one more than the maximum of `1..n` is `n + 1`,
and `InsertEffect` what an insertion does to all tables. That the maximum exists
follows from `NumbersGapless` itself, without any bound on entries.
For `SolePostings` the invariant `SoleIInv` adds that codes are unique and that a
lone client's drafts name accounts that are still active and of the types its
form demands. For `BooksRefinement` an insertion is shown to append one record to
the book (`InsertAppends`); a posting is then `Books`' first action
(`PostingRecords`), a reversal its second (`ReversalStrikes`), and everything else
leaves the book alone.

*Store.* `WellFormed` says of a database that it has had exactly the migrations up
to its version, each once. `FilesSound` says that the front page of the file, of its
journal and of every copy comes from such a database, and that what lies beside a
journal is what its commit was writing or a backup that was put there since;
`CommitsFollow` that at most one program commits, beside a journal of what was
there, a successor of it, whose pages go together if those of the old file did;
`MigrationsFollow` that what a migration inspected is still there, or another
program has migrated and recorded it since; `AloneBackedUp` that while a program
is alone nothing moves between its backup and its commit. `ApplyFindsInspected` is the
heart: the primary key of `schema_migrations` refuses a transaction whose file has
moved on. `Pages` says what the roll back makes of a file and a journal that may
lack the back page, `NextTearsOnlyByRestore` that every other step leaves pages
together that were. Whether a journal is there decides what readers find, so in
the refinement `BeginCommit` stutters, `Crash` and `RollBack` only begin and end what
`Lifecycle` calls unfinished, `FinishCommit` is its `Commit`, and `Restore` is one of two
steps, by whether a journal is there.

*Server.* For each connection the invariant says where its one request is: the
connection is `Fresh`, `Arriving`, `Resting`, `Travelling` through socket, reader,
channel and handler, or `Broken`. The bounds of `TypeOK` follow, and so does
`AnswersFit`: there is never a second answer to take for the first. `Orderly` is that part of
`IInv`; the other says that `pinging` is a flag for each connection. Steps of one
connection leave the others alone (`OneConnection`), so the theorems hold for
any number of them, where the run has one.

*Campaigns.* That no chart is seeded beyond the standard accounts needs
`OneSeeds`: the call that made a campaign is the only one to seed it, and
what is left to seed still fits. `Steady` follows the two fields of the loader through the two
assignments of `SetCampaign` and the tail of the command.

*Quests.* `EntrySound` ties a reversal to an original of opposite cash, and
`OriginsDefined` says that following reversals back ends: an entry reverses an
earlier one. For `PaidIsNet` the entries of a quest are split into those the query
counts, those that were reversed, and reversals that took cash out; the last two
cancel in pairs (`OppositeEntries`, `SumOfOpposites`), however often a reversal was
itself reversed.

*Loot.* `RecognizedOnce` says that a lone client recognizes one appraisal of an
item at most. With it an item's inventory is nothing, the value recognized, or
that value and what the sale took off (`InventoryAdds`).

*Transfer.* Deletion goes table by table, and finds children through parents that
must still be there. `OneTableLess` follows it one statement at a time, and
`DeletionIs` concludes that the order of the tables is a right one: what is gone is
the campaign, all of it and nothing else. `IInv` says that every row has the row
it belongs to in both databases (`Owned`; the codex type is what a row may lack),
that what was sent needs nothing else (`Sent`), and that a
program alone with the token file has read what it is about to rewrite (`TokensHeld`).

*References.* Three invariants, for three questions. `CallsFollowRows` says that
what a call is about to write is still of the row's kind and, for a codex entry, of
its campaign: rows change neither, so whatever another client switched to,
`CodexLinksStayInCampaign` follows. `LoneCalls` follows a call that no other has met
on its row: links that are there and names that are still to be inserted
make up, name by name, the names of the text (`LinkedSoFar`), so the last
insertion leaves exactly those (`LoneCallsSettleLinks`, an action property). It counts copies in a
bag against occurrences in a sequence; `LinksWith` and `OccurrencesAppended` say what one more
does. `SoleRowsAreLinked` says of a client that has been alone since nothing failed
that each row but the one it is writing has its links.

*Shell.* `ScreenOK` says that a selection is an item of its list at its place, in
the snapshot that is shown; `ModalsOK` that one modal is open at most, that its
cursor is on something there is (`FormOK`: the cursor is one number over the
fields and the columns of all lines), and that what it asks about is the
item selected. Closing and opening are shown once for all modals (`OtherOpens`,
`KeptOpen`), which leaves for each key what it does to one modal.

*Editor.* `BufferOK` says that the first entry of the undo stack is the text as it
was opened, or the text itself is (`Traced`). All edits are shown to be `IsEdit`:
they push what they found and mark the change. `Keeps` is what every key does
to a buffer, `InPlace` included, a cursor in the text in each entry of the stack; the jump
to the next match is the one that does not (`StrayCorrect`). `Stored` says that notes
have a title and are trimmed, and trimming twice is trimming once (`TrimmedIsNeat`,
`NeatStays`): without it an editor that has just been saved could show
another text than the database has (`CleanCorrect`).

*Recursion along a text.* `ParseReferences`, `InsertString`, `Matches` and the
like are recursive functions on `0..n`. `RecursionExists` of `SumProofs` shows once
that such a function exists, by a smallest number for which it does not; a
property of all its values is then an induction up to `n` (`NumbersUpTo`). Two of
them give `SearchFindsAll`: what the loops of `editorExecuteSearch` collect is the set
of all places where the query stands (`StandsAt`), its last column included.

*Sums.* `SumFunction` of the community modules is a fold. `SumProofs` derives its
laws from a table over all subsets of the finite domain: `TableExists` shows there
is one, `SumIsTabulated` that the fold reads it. Both are inductions over
finite sets, done by contradiction from a smallest counterexample
(`SmallestSet`), as the library's theorems of induction cannot be instantiated.

The invariants that runs check are conjuncts of `IInv` or follow from it. The
strengthenings are stated beside the proofs that need them. They hold whatever
the bounds of the runs, whose guards (`MaxRows`, `MaxBackups`, `MaxEdits`) the
theorems allow any value.

### Left to TLC

- *Liveness*: `ShutdownCompletes`, `CallsReturn` and `PingFindsDisconnection` of
  `Server`. Fairness and `ENABLED` are out of the prover's reach.
- *What an operator computes*, beyond what the properties need of it. The search is
  the exception; that a motion lands on the right word is stated by no theorem.
- *The two violations* are counterexamples, which is all there is to show.

## 7. Where code and documentation disagree

Two of these are runs that end in a violation.

- **Reversed entries do not cancel out of the balance** (`ledger_report`).
  `report/trial_balance.go:33` explains that reversed entries are left out because
  their reversals cancel them. The reversals are not left out, so after posting 1
  and reversing it an account shows -1.
- **A switch redirects other sessions** (`campaigns_shared`). Commands go to the
  loader's campaign, not to the one on the sender's screen.

Things seen while modelling that no run states:

*Books.*

- The status of an entry to reverse is read before the transaction
  (`journal/repo.go:58`; line 41 says it must be posted): two clients write two
  reversals of one entry.
- Two settlements of one quest read the same balance and both post it
  (`quest/repo.go:271`), and a reward may change between the check of `UpdateQuest` and
  its write (`quest/repo.go:111`), after some of it was collected.
- Two appraisals of one item can both be recognized (`loot/repo.go:173`).
- A posting may name an account that another client has deactivated since it was
  looked up (`journal_poster.go:23`).
- A campaign whose creation fails half way stays with part of the standard accounts
  (`campaign/repo.go:27`), and one whose deletion fails at the accounts has lost its
  references, notes and codex (`campaign/repo.go:135`).
- A reversed payment leaves its quest paid, and no command collects it again. Loot
  has the same gap: a recognition that is reversed leaves its item recognized, and
  a sale credits inventory that is not there.
- The check that a campaign is not the active one precedes the statements of its
  deletion: a session that switches to it in between works in what is deleted.
- `campaign/repo.go:125` says a campaign with notes or codex entries cannot be
  deleted; `Delete` removes both (`ClearNotes`).
- A renaming that began before another session's switch may set the loader
  back to the renamed campaign (`CompareWithLoader`, then `EnterId`).

*Server and client.*

- `isDisconnectError` recognizes errors that *begin* with `read response:`; the
  error of a command begins otherwise (`net/client/loader.go`), so a lost server is
  noticed at the next ping (`Receive`, `PingFindsDisconnection`).
- `render/app.go:15` promises that a failed check triggers the disconnect modal. The
  goroutine that checks posts one event, ignores that the queue may be full, and ends
  (`render/app.go:90`, `Notice`). The queue fills with ticks of the animation while the
  loop waits for a command or a reload; the terminal then never shows the loss.
- A command whose reply is lost was carried out, and a user who repeats it has it
  carried out twice: nothing tells the two apart (`Call`, `Reply`).
- A reader goroutine stays behind for good when its handler takes the shutdown and
  leaves a request in the channel: the error that comes next has no room (`SendRead`).
- After an `Accept` error without an interrupt the server drains with its
  listener open: clients connect and wait for a greeting (`StopAccepting`).
- A response above the frame limit of 16 MB closes the connection after the
  command was carried out (`Reply`).

*The file.*

- A restored database may not be the backup. `src/docs/upgrade-recovery.md` (lines
  85 to 94) has the user copy a backup over the file and goes on with "the restored
  database". If a program died while it committed and nobody opened the file since,
  its journal is still there (`ledger/db.go:21-24` keeps SQLite's default), and the next
  command puts the pages it saved into the backup: what it finds is the backup with
  some pages of another moment, or the state before the commit where the journal
  held every page (`Restore`, then `RollBack`; `TornOnlyByRestoring` proves that this is
  the only way). Opening the old file once before the copy, or removing the `-journal`
  file, avoids it.
- A file of the newest version with the old kind of metadata is shown as current,
  and the start leaves it so; only `lootsheet db migrate` repairs it
  (`EnsureReady`, `NeedsMigration`).
- Foreign keys that a migration broke are found after its commit: that start
  fails, and the next one finds a current file.
- A program of an older build that was running goes on writing after a migration
  (`Write`): repository calls ask for a database of any version.
- Backups and downloads made while somebody commits may be torn, and a crash
  leaves a copy that is cut short under the name of a complete one.

*Transfer.*

- A new database has a campaign of a fixed identifier, so the first upload of
  another's starts with the question whether to overwrite.
- An import that brings a codex type whose name the server has under another
  identifier commits, and is then reported as failed; the entries of that type
  vanish from all lists, which join with types (`OnlyTypesStayAway`). Every later
  import reports the failure too, whatever it brings.
- A local type with the name of a built-in one makes the extraction fail; the name
  of a built-in type that was renamed does not travel.
- A `tokens.json` that a crash cut off makes every later connection fail. A
  token that no longer fits is tried again each time and never asked for. Of two
  programs that save a token at the same time one loses it, and is asked again.

*Links and searches.*

- Links of deleted rows that a failed or met call left are shown as "Linked from"
  for good.
- A note that is saved after another client switched campaigns gets its links in
  that campaign (`UpdateNote`); a codex entry is refused (`UpdateEntry`). Deleting a
  codex entry looks at no campaign (`DeleteEntry`).
- A search shows matches of substrings only where the full-text search finds
  nothing at all.

*Editor.*

- Each further `:w` of a new note makes another note (`StoreNote` with
  `notes.create`).
- A save that is refused shows nothing: the editor stays, also after `:wq`. A save
  that fails otherwise, and a lost connection, close the editor with its text.
- Search matches are not looked for again after an edit, so `n` may leave the text,
  and most keys then end the program (`LostKey`). Backspace after such a jump may
  do the same (`CanBackspace`).
- What another client saved since the note was opened is overwritten.
- A line that was yanked is pasted into the line of the cursor; `a` and `C` at the
  end of a line insert before its last character; Ctrl-L does nothing.

*Shell.*

- The edit form of a codex entry deletes its type from a map that it shares with
  the list (`compose.go:276`): opened a second time before a reload, it is the form
  of an NPC, and submitting it changes the type of the entry. A custom type's form
  is not looked up (`ItemForms`).
- `render/shell_data.go:285` and `:299` offer `u` to rename accounts and codex
  types; the prompt sends its value as an amount and the handlers look for a name
  (`app/tui_dashboard.go:777`, `:1087`), so both are always refused.
- A `q` typed into a prompt, the picker of codex types or the search closes it.
- Ctrl-D in a form leaves the errors of later lines where the lines were.
- A command behind a question that is refused as bad input shows nothing.
- Search results of a server are newer than the lists. Enter on one that is not
  listed yet selects whatever stands at the place that was selected (`Navigated`).
- Page-down in an empty ledger counts on without bound until the filter changes.

## 8. Plan

Done: `JournalLines`, `Ledger`, `Books`, `LedgerProofs`, `Quests`, `Loot`,
`Campaigns`, `Server`, `Lifecycle`, `Store`, `Transfer`, `References`, `TextBuffer`,
`Editor`, `Compose`, `Shell`.

The number of runs is kept small: each module has one, and what a second client
breaks is described above rather than run, unless the repository promises
otherwise.

Proofs: done for every model; what stays with TLC is listed in
[Proofs](#6-proofs). Next, where somebody continues: the templates of assets as a
component of their own.

## 9. Not modelled

- Drawing, widgets, textures, markdown, exports, man pages, logging: output without
  state.
- Lists and reports other than the trial balance, the receivables and the
  searches: single queries that nothing else depends on.
- Currency: parsing and formatting are functions of their arguments, with tests of
  their own; the models count amounts as numbers. Totals that exceed 64 bits need
  two lines of some 10^16 platinum pieces.
- Saving an asset template: a delete and inserts in one transaction. Its form is
  in `Compose`, its use in `Shell`, its journey in `Transfer`.
- Editing names, holders and patrons: fields that no decision reads. A quest's
  title is the exception and is modelled. Renaming an account from the terminal
  is always refused, see above.
- `net/proto`: generated code, and conversions that copy fields between equal sets
  of structs.
- TLS and version numbers: a login is accepted or refused.
- The locks a process loses when it closes a file: opening the database beside
  SQLite for a backup or a download drops the process's POSIX locks when it is
  closed. `Store` lets SQLite's locks hold.
- Text that is typed into forms, prompts and searches: which key submits decides,
  and a form may be complete or not.
- Torn strings: the loader's two fields may be read between their assignments, but
  each is read whole. The identifiers are strings of equal length, so half an
  assignment of the first would show as one of the two values anyway.
