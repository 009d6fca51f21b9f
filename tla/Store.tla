--------------------------------- MODULE Store ---------------------------------
(***************************************************************************)
(* The database file, and the programs that initialise, back up, migrate   *)
(* and fill it.                                                            *)
(*                                                                         *)
(* SQLite writes a file page by page.  Two pages, front and back, stand    *)
(* for all of them: every commit writes the front page, where SQLite       *)
(* counts the changes of a file, and some write the back page.  A commit   *)
(* first saves the pages that it is about to change in a journal, then     *)
(* writes the new ones, then drops the journal.  A program that dies in    *)
(* between leaves the journal, and the next one to open the file puts the  *)
(* saved pages into whatever file it finds.  SQLite's readers and writers  *)
(* wait for a commit to end.  A backup does not, nor does a download from  *)
(* the server: each is a plain copy of the file, front page first.         *)
(*                                                                         *)
(* Programs may be of different builds: each build knows the migrations up *)
(* to its own version.                                                     *)
(***************************************************************************)
EXTENDS Naturals, Sequences, FiniteSets

CONSTANTS
    Programs,    \* the most programs there can be
    Builds,      \* the versions programs are built for
    Files,       \* the contents a file may have at first
    MaxRows,     \* a bound on what users enter
    MaxBackups,  \* a bound on the number of backups and downloads
    None         \* no journal, or a page that a journal does not hold

VARIABLES
    file,     \* the database file: its pages
    journal,  \* the pages saved by the commit in progress, or by one that died
    backups,  \* the files in the backup directory, and those clients downloaded
    task,     \* what each program is doing
    online    \* the programs there are

vars == <<file, journal, backups, task, online>>

Newest == CHOOSE b \in Builds : \A c \in Builds : c <= b
Versions == 1..Newest

\* Contents: no file, no tables, somebody else's tables, or a LootSheet database:
\* the migrations whose SQL has run, those in table schema_migrations, the setting
\* schema_version, how often accounts were seeded, and what users entered.
Absent == [kind |-> "absent"]
Empty == [kind |-> "empty"]
Foreign == [kind |-> "foreign"]
Database ==
    [kind : {"database"}, ran : UNION {[1..n -> Versions] : n \in Versions},
     recorded : SUBSET Versions, marker : Versions, seeded : {0, 1, 2}, rows : 0..MaxRows]
Content == {Absent, Empty, Foreign} \cup Database

\* A page that goes with no other: where a copy was cut short, or where a program
\* wrote on pages of different moments.
Odd == [kind |-> "odd"]

\* The front page tells what the database holds, and the back page that goes with it.
\* A back page is named for the content with which it was written.
Image(front, rest, back) == [front |-> front, rest |-> rest, back |-> back]
Fresh(c) == Image(c, c, c)
Whole(image) == image.rest = image.back

\* A database made at version v, by a build that recorded migrations or by an older
\* one that only kept the setting.
MadeAt(v, recording) ==
    [kind |-> "database", ran |-> [i \in 1..v |-> i],
     recorded |-> IF recording THEN 1..v ELSE {}, marker |-> v, seeded |-> 1, rows |-> 0]

ASSUME ConstantsAssumption ==
    /\ Builds \subseteq Nat \ {0}
    /\ \E b \in Builds : \A c \in Builds : c <= b
    /\ MaxRows \in Nat /\ MaxBackups \in Nat
    /\ Files \subseteq {Absent, Empty, Foreign}
                       \cup {MadeAt(v, r) : v \in Versions, r \in BOOLEAN}
    /\ None \notin Content \cup {Odd}
    /\ None \notin [front : Content, rest : Content, back : Content \cup {Odd, None}]

Idle == [op |-> "idle"]

Images == [front : Content, rest : Content, back : Content \cup {Odd}]

Task ==
    [op : {"idle", "verifying"}]
    \cup [op : {"creating", "starting"}, build : Builds]
    \cup [op : {"copying front"}, build : Builds, from : Versions, legacy : BOOLEAN]
    \cup [op : {"copying back"}, build : Builds, from : Versions, legacy : BOOLEAN,
          front : Content, rest : Content]
    \cup [op : {"downloading"}, front : Content, rest : Content]
    \cup [op : {"migrating"}, build : Builds, from : Versions, legacy : BOOLEAN]
    \cup [op : {"committing"}, new : [front : Database, rest : Content, back : Content \cup {Odd}],
          by : {"init", "migrate", "user"}]

Continue(p, next) == task' = [task EXCEPT ![p] = next]

Committing == \E p \in Programs : task[p].op = "committing"

\* SQLite lets a program at the file.
Unlocked == journal = None

-------------------------------------------------------------------------------
(* What a program sees: InspectSQLiteDatabase and GetDatabaseStatus.       *)

LastOf(versions) == CHOOSE v \in versions : \A w \in versions : w <= v

UsesLegacyMetadata(c) == c.recorded = {}

SchemaVersion(c) == IF UsesLegacyMetadata(c) THEN c.marker ELSE LastOf(c.recorded)

\* Where pages do not go together quick_check may find the file damaged, or may not
\* notice: a program can go on with any file.
LifecycleState(image, build) ==
    CASE image.front.kind \in {"absent", "empty"} -> "uninitialized"
      [] image.front.kind = "foreign" -> "foreign"
      [] image.front.kind = "database" ->
           LET v == SchemaVersion(image.front)
           IN  IF v > build THEN "foreign"
               ELSE IF v < build THEN "upgradeable" ELSE "current"

-------------------------------------------------------------------------------
(* SQLite's commit, and its recovery.                                      *)

\* The pages of a database that holds c, written over image by a commit that changes
\* the back page, or does not.
Written(image, c, changesBack) ==
    IF changesBack THEN Image(c, c, IF Whole(image) THEN c ELSE Odd)
    ELSE Image(c, image.rest, image.back)

\* What a commit saves of image: the pages it is going to change.
Saved(image, changesBack) ==
    [image EXCEPT !.back = IF changesBack THEN @ ELSE None]

\* The front page is in the file, the back page is still to be written.
StartWriting(p, new, by) ==
    /\ file' = [new EXCEPT !.back = file.back]
    /\ Continue(p, [op |-> "committing", new |-> new, by |-> by])

\* Nothing in the repository asks for another journal_mode than SQLite's own.  Opening
\* a file that is not there makes an empty one, and in an empty file all pages are new.
BeginCommit(p, c, by) ==
    /\ Unlocked
    /\ \E changesBack \in BOOLEAN :
        /\ file.front.kind \in {"absent", "empty"} => changesBack
        /\ journal' = IF file.front = Absent THEN Fresh(Empty) ELSE Saved(file, changesBack)
        /\ StartWriting(p, Written(file, c, changesBack), by)

FinishCommit(p) ==
    /\ task[p].op = "committing"
    /\ file' = task[p].new
    /\ journal' = None
    /\ Continue(p, IF task[p].by = "migrate" THEN [op |-> "verifying"] ELSE Idle)
    /\ UNCHANGED <<backups, online>>

\* What the next reader of the file will find: a commit in progress has not
\* happened, and one that died never will.
Durable ==
    IF journal = None THEN file
    ELSE [journal EXCEPT !.back = IF @ = None THEN file.back ELSE @]

\* A program that opens the file finds a journal whose writer has died.
RollBack ==
    /\ journal # None /\ ~Committing
    /\ file' = Durable
    /\ journal' = None
    /\ UNCHANGED <<backups, task, online>>

-------------------------------------------------------------------------------
(* lootsheet init: EnsureSQLiteInitialized.                                *)

InspectForInit(p, build) ==
    /\ task[p] = Idle
    /\ Unlocked
    /\ LifecycleState(file, build) = "uninitialized"
    /\ Continue(p, [op |-> "creating", build |-> build])
    /\ UNCHANGED <<file, journal, backups, online>>

\* Variants, each named for a bug, stand before the definitions they vary and are
\* used nowhere: they are the mistakes that the properties must notice.

\* Tables that exist already are kept: CREATE TABLE IF NOT EXISTS.
CreateDatabaseIfNotExists(p) ==
    /\ task[p].op = "creating"
    /\ BeginCommit(p, IF file.front.kind = "database"
                      THEN [file.front EXCEPT !.seeded = @ + 1]
                      ELSE MadeAt(task[p].build, TRUE), "init")
    /\ UNCHANGED <<backups, online>>

\* All migrations, their records, the setting and the accounts, in one
\* transaction.  Where another program was faster the first CREATE TABLE fails.
CreateDatabase(p) ==
    /\ task[p].op = "creating"
    /\ file.front.kind \in {"absent", "empty"}
    /\ BeginCommit(p, MadeAt(task[p].build, TRUE), "init")
    /\ UNCHANGED <<backups, online>>

-------------------------------------------------------------------------------
(* lootsheet db migrate, and the start of the terminal and of the server.  *)

\* The start migrates an upgradeable file and leaves any other as it is.
EnsureReady(p, build) ==
    /\ task[p] = Idle
    /\ Unlocked
    /\ LifecycleState(file, build) = "upgradeable"
    /\ Continue(p, [op |-> "starting", build |-> build])
    /\ UNCHANGED <<file, journal, backups, online>>

\* Migrations are pending, or the metadata is of the old kind.
NeedsMigration(build) ==
    \/ LifecycleState(file, build) = "upgradeable"
    \/ LifecycleState(file, build) = "current" /\ UsesLegacyMetadata(file.front)

\* The backup is skipped.
InspectForMigrationWithoutBackup(p, build) ==
    /\ \/ task[p] = Idle
       \/ task[p] = [op |-> "starting", build |-> build]
    /\ Unlocked
    /\ NeedsMigration(build)
    /\ Continue(p, [op |-> "migrating", build |-> build,
                    from |-> SchemaVersion(file.front),
                    legacy |-> UsesLegacyMetadata(file.front)])
    /\ UNCHANGED <<file, journal, backups, online>>

\* MigrateSQLiteDatabase looks for itself.
InspectForMigration(p, build) ==
    /\ \/ task[p] = Idle
       \/ task[p] = [op |-> "starting", build |-> build]
    /\ Unlocked
    /\ NeedsMigration(build)
    /\ Cardinality(backups) < MaxBackups
    /\ Continue(p, [op |-> "copying front", build |-> build,
                    from |-> SchemaVersion(file.front),
                    legacy |-> UsesLegacyMetadata(file.front)])
    /\ UNCHANGED <<file, journal, backups, online>>

\* CreateDatabaseBackup reads the file as it is, whoever is writing to it.
CopyFront(p) ==
    /\ task[p].op = "copying front"
    /\ LET t == task[p]
       IN  Continue(p, [op |-> "copying back", build |-> t.build, from |-> t.from,
                        legacy |-> t.legacy, front |-> file.front, rest |-> file.rest])
    /\ UNCHANGED <<file, journal, backups, online>>

CopyBack(p) ==
    /\ task[p].op = "copying back"
    /\ LET t == task[p]
       IN  /\ backups' = backups \cup {Image(t.front, t.rest, file.back)}
           /\ Continue(p, [op |-> "migrating", build |-> t.build, from |-> t.from,
                           legacy |-> t.legacy])
    /\ UNCHANGED <<file, journal, online>>

\* The migrations after the version that was inspected, and those the old metadata
\* implies, which are recorded without being run.
Pending(t) == t.from + 1..t.build
Backfill(t) == IF t.legacy THEN 1..t.from ELSE {}

\* A table that is rebuilt starts empty.
MigratedWithoutRows(c, t) ==
    [c EXCEPT !.ran = @ \o [i \in 1..(t.build - t.from) |-> t.from + i],
              !.recorded = @ \cup Backfill(t) \cup Pending(t),
              !.marker = t.build,
              !.rows = 0]

\* What the transaction makes of a database.
Migrated(c, t) ==
    [c EXCEPT !.ran = @ \o [i \in 1..(t.build - t.from) |-> t.from + i],
              !.recorded = @ \cup Backfill(t) \cup Pending(t),
              !.marker = t.build]

\* A record that is there already is ignored: INSERT OR IGNORE.
ApplyMigrationsIgnoringRecords(p) ==
    /\ task[p].op = "migrating"
    /\ BeginCommit(p, Migrated(file.front, task[p]), "migrate")
    /\ UNCHANGED <<backups, online>>

\* The records' primary key refuses a migration that another program recorded.
ApplyMigrations(p) ==
    /\ task[p].op = "migrating"
    /\ file.front.recorded \cap (Backfill(task[p]) \cup Pending(task[p])) = {}
    /\ BeginCommit(p, Migrated(file.front, task[p]), "migrate")
    /\ UNCHANGED <<backups, online>>

\* Foreign keys are checked when the migration has been committed.  What the check
\* finds is reported and changes nothing.
VerifyForeignKeys(p) ==
    /\ task[p].op = "verifying"
    /\ Continue(p, Idle)
    /\ UNCHANGED <<file, journal, backups, online>>

-------------------------------------------------------------------------------
(* DOWNLOAD_DATABASE: the server's process reads the file, the client      *)
(* writes what arrives to a file of its own.                               *)

ReadFile(p) ==
    /\ task[p] = Idle
    /\ file.front.kind = "database"
    /\ Cardinality(backups) < MaxBackups
    /\ Continue(p, [op |-> "downloading", front |-> file.front, rest |-> file.rest])
    /\ UNCHANGED <<file, journal, backups, online>>

\* The client may die while it writes.
SaveDownload(p) ==
    /\ task[p].op = "downloading"
    /\ \E back \in {file.back, Odd} :
        backups' = backups \cup {Image(task[p].front, task[p].rest, back)}
    /\ Continue(p, Idle)
    /\ UNCHANGED <<file, journal, online>>

-------------------------------------------------------------------------------
(* Users, failures and crashes.                                            *)

\* A repository call.  EnsureInitializedDatabase asks for a database, of whatever
\* version: a program that began before a migration goes on after it.
Write(p) ==
    /\ task[p] = Idle
    /\ file.front.kind = "database"
    /\ file.front.rows < MaxRows
    /\ BeginCommit(p, [file.front EXCEPT !.rows = @ + 1], "user")
    /\ UNCHANGED <<backups, online>>

\* A command ends early: the file is busy, a statement is refused, or a copy failed
\* and was removed.  Transactions are rolled back.  A commit that fails half way
\* leaves what a crash and the roll back after it leave.
Fail(p) ==
    /\ task[p].op \notin {"idle", "committing"}
    /\ Continue(p, Idle)
    /\ UNCHANGED <<file, journal, backups, online>>

\* A program dies.  Its journal and its unfinished copy stay where they are.
Crash(p) ==
    /\ task[p] # Idle
    /\ Continue(p, Idle)
    /\ backups' = IF task[p].op = "copying back"
                  THEN backups \cup {Image(task[p].front, task[p].rest, Odd)}
                  ELSE backups
    /\ UNCHANGED <<file, journal, online>>

\* The user stops using the file and copies an intact backup over it, as
\* docs/upgrade-recovery.md says.  Nothing removes a journal beside the file.
Restore ==
    /\ \A p \in Programs : task[p] = Idle
    /\ \E image \in backups : Whole(image) /\ file' = image
    /\ UNCHANGED <<journal, backups, task, online>>

-------------------------------------------------------------------------------
Init ==
    /\ \E c \in Files : file = Fresh(c)
    /\ journal = None
    /\ backups = {}
    /\ task = [p \in Programs |-> Idle]
    /\ online \in (SUBSET Programs) \ {{}}

CommandStep(p) ==
    \/ \E build \in Builds :
        \/ InspectForInit(p, build)
        \/ EnsureReady(p, build)
        \/ InspectForMigration(p, build)
    \/ CreateDatabase(p)
    \/ CopyFront(p) \/ CopyBack(p) \/ ApplyMigrations(p) \/ VerifyForeignKeys(p)
    \/ ReadFile(p) \/ SaveDownload(p)

ProgramStep(p) ==
    CommandStep(p) \/ Write(p) \/ FinishCommit(p) \/ Fail(p) \/ Crash(p)

Next == (\E p \in online : ProgramStep(p)) \/ RollBack \/ Restore

Spec == Init /\ [][Next]_vars

-------------------------------------------------------------------------------
(* What must hold.                                                         *)

\* Every variable keeps to the values its tables, files and calls can have.
TypeOK ==
    /\ file \in Images
    /\ journal \in [front : Content, rest : Content, back : Content \cup {Odd, None}] \cup {None}
    /\ backups \subseteq Images
    /\ task \in [Programs -> Task]
    /\ online \subseteq Programs

\* A database that a reader finds whole has had exactly the migrations up to its
\* version, each once and in order, as its tables say: whatever programs of whatever
\* builds initialise and migrate at the same time, wherever they die, and whatever is
\* put back (EnsureSQLiteInitialized, MigrateSQLiteDatabase).
SchemaIsRecorded ==
    Whole(Durable) /\ Durable.front.kind = "database" =>
        LET c == Durable.front
        IN  /\ c.ran = [i \in 1..c.marker |-> i]
            /\ c.recorded \in {{}, 1..c.marker}
            /\ c.seeded = 1

\* A program that has the file to itself backs up exactly what it migrates
\* (docs/upgrade-recovery.md: a backup is made before schema changes).  With
\* a second program the backup may be torn or miss what was entered since.
SoleMigrationBackedUp ==
    \A p \in Programs :
        online = {p} /\ task[p].op = "committing" /\ task[p].by = "migrate"
            => Durable \in backups

\* The programs together keep the promises of Lifecycle: what is found in the file is
\* created once, only moves forward, and is only lost to a restored backup, which
\* holds a state the database had or was being given.
BookOf(c) == [version |-> SchemaVersion(c), rows |-> c.rows]

LifecycleBook ==
    CASE ~Whole(Durable) -> Odd
      [] Whole(Durable) /\ Durable.front.kind = "database" -> BookOf(Durable.front)
      [] Whole(Durable) /\ Durable.front.kind = "foreign" -> Foreign
      [] Whole(Durable) /\ Durable.front.kind \in {"absent", "empty"} -> Empty

LifecycleKept == {BookOf(image.front) : image \in {i \in backups : Whole(i)}}

LifecycleCopied ==
    {BookOf(task[p].front) : p \in {q \in Programs : task[q].op \in {"copying back", "downloading"}}}

PromisedLifecycle == INSTANCE Lifecycle
    WITH Newborn <- Empty, Stranger <- Foreign, Torn <- Odd,
         book <- LifecycleBook, kept <- LifecycleKept, copied <- LifecycleCopied,
         unfinished <- journal # None /\ ~Committing

ImplementsLifecycle == PromisedLifecycle!Spec

===============================================================================
