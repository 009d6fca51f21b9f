------------------------------ MODULE StoreProofs ------------------------------
(***************************************************************************)
(* Proofs about the database file, for any number of programs of any       *)
(* builds, any number of backups and any number of rows.                   *)
(***************************************************************************)
EXTENDS Store, TLAPS

-------------------------------------------------------------------------------
(* The operators.                                                          *)

\* The newest build is a build, and the versions are those up to it.
LEMMA NewestIsLast ==
  /\ Newest \in Builds /\ Newest \in Nat \ {0}
  /\ \A b \in Builds : b \in Nat \ {0} /\ b <= Newest /\ b \in Versions
  /\ \A n : n \in Versions <=> n \in Nat /\ 1 <= n /\ n <= Newest
<1>1. PICK b \in Builds : \A c \in Builds : c <= b
  BY ConstantsAssumption
<1>2. Newest \in Builds /\ \A c \in Builds : c <= Newest
  BY <1>1 DEF Newest
<1> QED
  BY <1>2, ConstantsAssumption DEF Versions

\* Versions are ordered.
LEMMA LeqTransitive == \A a, b, c \in Nat : a <= b /\ b <= c => a <= c
OBVIOUS

\* The last of the versions up to n is n.
LEMMA LastOfRange ==
  ASSUME NEW n \in Nat \ {0}
  PROVE  LastOf(1..n) = n
<1>1. n \in 1..n /\ \A w \in 1..n : w <= n
  OBVIOUS
<1>2. LastOf(1..n) \in 1..n /\ n <= LastOf(1..n)
  BY <1>1 DEF LastOf
<1> QED
  BY <1>2

\* Running the migrations after m up to n, on a file that has had those up to m, leaves
\* the migrations up to n, each once and in order.
LEMMA RunsJoin ==
  ASSUME NEW m \in Nat \ {0}, NEW n \in Nat, m <= n
  PROVE  [i \in 1..m |-> i] \o [i \in 1..(n - m) |-> m + i] = [i \in 1..n |-> i]
<1> DEFINE a == [i \in 1..m |-> i]
           b == [i \in 1..(n - m) |-> m + i]
<1>1. n - m \in Nat
  OBVIOUS
<1>2. a \in Seq(Nat) /\ Len(a) = m /\ \A i \in 1..m : a[i] = i
  OBVIOUS
<1>3. b \in Seq(Nat) /\ Len(b) = n - m /\ \A i \in 1..(n - m) : b[i] = m + i
  BY <1>1
<1>4. a \o b \in Seq(Nat) /\ Len(a \o b) = n
  BY <1>2, <1>3
<1>5. \A i \in 1..n : (a \o b)[i] = i
  <2> TAKE i \in 1..n
  <2>1. CASE i <= m
    BY <1>2, <1>3, <2>1
  <2>2. CASE i > m
    BY <1>2, <1>3, <2>2
  <2> QED
    BY <2>1, <2>2
<1>6. a \o b = [i \in 1..n |-> (a \o b)[i]]
  BY <1>4
<1> QED
  BY <1>5, <1>6

-------------------------------------------------------------------------------
(* The inductive invariant.                                                *)

\* A database that has had exactly the migrations up to its version, each once and in
\* order, as its tables say.
WellFormed(c) ==
    /\ c.ran = [i \in 1..c.marker |-> i]
    /\ c.recorded \in {{}, 1..c.marker}
    /\ c.seeded = 1

SoundBook == {c \in Database : WellFormed(c)}

Sound == {Absent, Empty, Foreign} \cup SoundBook

\* What one commit makes of old: it creates a database, enters a row, or migrates.
Follows(old, new) ==
    \/ old = Empty /\ new.rows = 0
    \/ old \in SoundBook /\ new = [old EXCEPT !.rows = @ + 1]
    \/ /\ old \in SoundBook
       /\ new.rows = old.rows /\ old.marker <= new.marker /\ new.recorded # {}

\* What the front pages of the file, of a journal beside it and of the copies may hold,
\* whoever is writing: a page is never worse than a page of another moment.  Beside a
\* journal lies what its commit was writing, or a backup that was put there since.
FilesSound ==
    /\ file.front \in Sound
    /\ file.front = Absent => Whole(file)
    /\ journal # None =>
        /\ journal.front \in {Empty} \cup SoundBook
        /\ journal.back = None => journal.front \in SoundBook
        /\ file.front \in SoundBook
        /\ Follows(journal.front, file.front) \/ (Whole(file) /\ file \in backups)
    /\ \A image \in backups : image.front \in SoundBook
    /\ \A p \in Programs :
        task[p].op \in {"copying back", "downloading"} => task[p].front \in SoundBook

\* At most one program commits, with a journal of what was there before it.  It commits
\* a sound successor of that, whose pages go together if those of the old one did.
CommitsFollow ==
    \A p \in Programs : task[p].op = "committing" =>
        LET new == task[p].new
        IN  /\ journal # None
            /\ \A q \in Programs : task[q].op = "committing" => q = p
            /\ new.front \in SoundBook
            /\ Follows(journal.front, new.front)
            /\ Whole(new) <=> Whole(Durable)

\* What a migration found when it began is still there, or another program has
\* migrated and recorded it since.
MigrationsFollow ==
    \A p \in Programs : task[p].op \in {"copying front", "copying back", "migrating"} =>
        LET t == task[p]
            c == Durable.front
        IN  /\ c.kind = "database"
            /\ t.from <= t.build
            /\ t.from <= c.marker
            /\ c.recorded = {} => t.legacy /\ c.marker = t.from
            /\ ~t.legacy => t.from < t.build

\* While a program has the file to itself nothing moves between its backup and its
\* commit.
AloneBackedUp ==
    \A p \in Programs : online = {p} =>
        /\ task[p].op \in {"copying front", "copying back", "migrating"} => journal = None
        /\ task[p].op = "copying back" =>
            task[p].front = file.front /\ task[p].rest = file.rest
        /\ task[p].op = "migrating" => file \in backups
        /\ task[p].op = "committing" /\ task[p].by = "migrate" => Durable \in backups

IInv ==
    /\ TypeOK
    /\ FilesSound
    /\ CommitsFollow
    /\ MigrationsFollow
    /\ AloneBackedUp
    /\ \A p \in Programs \ online : task[p] = Idle

-------------------------------------------------------------------------------
(* Contents and tasks.                                                     *)

\* What can be found in a file is told apart by its kind.
LEMMA Kinds ==
  /\ Absent.kind = "absent" /\ Empty.kind = "empty" /\ Foreign.kind = "foreign"
  /\ \A c \in Database : c.kind = "database" /\ c \in Content
  /\ \A c \in SoundBook : c \in Database /\ c.kind = "database" /\ c \notin {Absent, Empty, Foreign}
  /\ \A c \in Sound : c \in Content /\ (c.kind = "database" => c \in SoundBook)
BY DEF Absent, Empty, Foreign, Content, Database, SoundBook, Sound

\* The fields of a database, and what they say of its version.
LEMMA BookFields ==
  ASSUME NEW c \in SoundBook
  PROVE  /\ c.marker \in Versions /\ c.marker \in Nat \ {0} /\ c.rows \in 0..MaxRows
         /\ c.recorded \in {{}, 1..c.marker} /\ c.ran = [i \in 1..c.marker |-> i]
         /\ c.recorded # {} => c.recorded = 1..c.marker
         /\ SchemaVersion(c) = c.marker
<1>1. /\ c.marker \in Versions /\ c.rows \in 0..MaxRows
      /\ c.recorded \in {{}, 1..c.marker} /\ c.ran = [i \in 1..c.marker |-> i]
  BY DEF SoundBook, Database, WellFormed
<1>2. c.marker \in Nat \ {0}
  BY <1>1, NewestIsLast
<1>3. SchemaVersion(c) = c.marker
  BY <1>1, <1>2, LastOfRange DEF SchemaVersion, UsesLegacyMetadata
<1> QED
  BY <1>1, <1>2, <1>3

\* A record with these fields is sound.
LEMMA BookIntro ==
  ASSUME NEW v \in Versions, NEW recorded \in {{}, 1..v}, NEW rows \in 0..MaxRows
  PROVE  [kind |-> "database", ran |-> [i \in 1..v |-> i], recorded |-> recorded,
          marker |-> v, seeded |-> 1, rows |-> rows] \in SoundBook
<1> DEFINE c == [kind |-> "database", ran |-> [i \in 1..v |-> i], recorded |-> recorded,
                 marker |-> v, seeded |-> 1, rows |-> rows]
<1>1. [i \in 1..v |-> i] \in [1..v -> Versions] /\ 1..v \subseteq Versions
  BY NewestIsLast
<1>2. c \in Database
  BY <1>1 DEF Database
<1> QED
  BY <1>2 DEF SoundBook, WellFormed

\* A database that lootsheet init makes is sound.
LEMMA MadeAtSound ==
  ASSUME NEW v \in Versions, NEW recording \in BOOLEAN
  PROVE  /\ MadeAt(v, recording) \in SoundBook
         /\ MadeAt(v, recording).rows = 0
<1>1. 0 \in 0..MaxRows
  BY ConstantsAssumption
<1>2. (IF recording THEN 1..v ELSE {}) \in {{}, 1..v}
  OBVIOUS
<1> QED
  BY <1>1, <1>2, BookIntro DEF MadeAt

\* A user's call leaves a sound database, one row longer.
LEMMA EnteredSound ==
  ASSUME NEW c \in SoundBook, c.rows < MaxRows
  PROVE  [c EXCEPT !.rows = @ + 1] \in SoundBook
<1>1. c.rows \in Nat /\ c.rows + 1 \in 0..MaxRows
  <2>1. MaxRows \in Nat
    BY ConstantsAssumption
  <2>2. c.rows \in 0..MaxRows
    BY BookFields
  <2> QED
    BY <2>1, <2>2
<1>2. c \in Database /\ WellFormed(c)
  BY DEF SoundBook
<1>3. [c EXCEPT !.rows = @ + 1] \in Database
  BY <1>1, <1>2 DEF Database
<1>4. WellFormed([c EXCEPT !.rows = @ + 1])
  BY <1>2 DEF WellFormed, Database
<1> QED
  BY <1>3, <1>4 DEF SoundBook

\* The transaction of a migration that still finds what it inspected leaves a sound
\* database of its build's version, with the same rows: it runs exactly the migrations
\* that were missing and records those and no other.
LEMMA MigratedSound ==
  ASSUME NEW c \in SoundBook, NEW t, t.build \in Builds, t.from \in Versions,
         t.legacy \in BOOLEAN, t.from <= t.build, c.marker = t.from,
         t.legacy <=> c.recorded = {}
  PROVE  /\ Migrated(c, t) \in SoundBook
         /\ Migrated(c, t).rows = c.rows
         /\ Migrated(c, t).marker = t.build
         /\ Migrated(c, t).recorded # {}
<1> DEFINE n == Migrated(c, t)
<1>1. c \in Database /\ WellFormed(c)
  BY DEF SoundBook
<1>2. /\ t.build \in Versions /\ t.build \in Nat \ {0} /\ t.from \in Nat \ {0}
      /\ c.rows \in 0..MaxRows
  BY NewestIsLast, BookFields
<1>3. c.ran \o [i \in 1..(t.build - t.from) |-> t.from + i] = [i \in 1..t.build |-> i]
  <2>1. c.ran = [i \in 1..t.from |-> i]
    BY <1>1 DEF WellFormed
  <2>2. [i \in 1..t.from |-> i] \o [i \in 1..(t.build - t.from) |-> t.from + i]
          = [i \in 1..t.build |-> i]
    BY <1>2, RunsJoin
  <2> QED
    BY <2>1, <2>2
<1>4. c.recorded \cup Backfill(t) \cup Pending(t) = 1..t.build
  <2>1. c.recorded \cup Backfill(t) = 1..t.from
    BY <1>1 DEF Backfill, WellFormed
  <2>2. (1..t.from) \cup (t.from + 1..t.build) = 1..t.build
    BY <1>2
  <2> QED
    BY <2>1, <2>2 DEF Pending
<1>5. /\ n.kind = "database" /\ n.rows = c.rows /\ n.seeded = 1 /\ n.marker = t.build
      /\ n.ran = c.ran \o [i \in 1..(t.build - t.from) |-> t.from + i]
      /\ n.recorded = c.recorded \cup Backfill(t) \cup Pending(t)
  BY <1>1 DEF Migrated, Database, WellFormed
<1>6. WellFormed(n) /\ n.recorded # {}
  <2> HIDE DEF n
  <2>1. n.recorded = 1..n.marker /\ n.ran = [i \in 1..n.marker |-> i] /\ n.seeded = 1
    BY <1>3, <1>4, <1>5
  <2>2. 1 \in n.recorded
    BY <1>2, <1>5, <2>1
  <2> QED
    BY <2>1, <2>2 DEF WellFormed
<1>7. n \in Database
  <2>1. [i \in 1..t.build |-> i] \in [1..t.build -> Versions] /\ 1..t.build \subseteq Versions
    BY <1>2, NewestIsLast
  <2>2. \A r \in UNION {[1..k -> Versions] : k \in Versions}, m \in SUBSET Versions,
           v \in Versions : [c EXCEPT !.ran = r, !.recorded = m, !.marker = v] \in Database
    BY <1>1 DEF Database
  <2>3. n = [c EXCEPT !.ran = [i \in 1..t.build |-> i], !.recorded = 1..t.build,
                      !.marker = t.build]
    BY <1>1, <1>3, <1>4 DEF Migrated, Database
  <2>4. [i \in 1..t.build |-> i] \in UNION {[1..k -> Versions] : k \in Versions}
    BY <1>2, <2>1
  <2> HIDE DEF n
  <2> QED
    BY <1>2, <2>1, <2>2, <2>3, <2>4
<1> QED
  BY <1>5, <1>6, <1>7 DEF SoundBook

\* The fields of a task follow from what it is doing.
LEMMA TaskFields ==
  ASSUME NEW t \in Task
  PROVE  /\ t.op \in {"idle", "verifying", "creating", "starting", "copying front",
                      "copying back", "downloading", "migrating", "committing"}
         /\ t.op \in {"creating", "starting", "copying front", "copying back", "migrating"}
               => t.build \in Builds
         /\ t.op \in {"copying front", "copying back", "migrating"}
               => t.from \in Versions /\ t.legacy \in BOOLEAN
         /\ t.op \in {"copying back", "downloading"} => t.front \in Content /\ t.rest \in Content
         /\ t.op = "committing" =>
               /\ t.new \in [front : Database, rest : Content, back : Content \cup {Odd}]
               /\ t.by \in {"init", "migrate", "user"}
BY DEF Task

\* Pages, and files made of them.
LEMMA Pages ==
  /\ \A front, rest, back : /\ Image(front, rest, back).front = front
                            /\ Image(front, rest, back).rest = rest
                            /\ Image(front, rest, back).back = back
  /\ \A c \in Content : Fresh(c) \in Images /\ Whole(Fresh(c)) /\ Fresh(c).front = c
  /\ \A image \in Images : /\ image = Image(image.front, image.rest, image.back)
                           /\ image.front \in Content /\ image.rest \in Content
                           /\ image.back \in Content \cup {Odd}
                           /\ image # None /\ image.back # None
  /\ \A front, rest \in Content, back \in Content \cup {Odd} : Image(front, rest, back) \in Images
  /\ Odd \notin Content
  /\ \A image \in Images : [image EXCEPT !.back = None] # None
<1>1. \A image \in Images : image \in [front : Content, rest : Content, back : Content \cup {Odd, None}]
  BY DEF Images
<1>2. \A image \in Images :
        [image EXCEPT !.back = None] \in [front : Content, rest : Content, back : Content \cup {Odd, None}]
  BY DEF Images
<1>3. Odd \notin Content
  BY DEF Odd, Content, Absent, Empty, Foreign, Database
<1> QED
  BY <1>1, <1>2, <1>3, ConstantsAssumption DEF Image, Images, Fresh, Whole

\* What the next reader finds is a file.
LEMMA DurableFields ==
  ASSUME TypeOK
  PROVE  /\ Durable \in Images
         /\ journal = None => Durable = file
         /\ journal # None => Durable.front = journal.front /\ Durable.rest = journal.rest
         /\ journal # None /\ journal.back # None => Durable = journal
         /\ journal # None /\ journal.back = None => Durable.back = file.back
BY DEF TypeOK, Durable, Images

-------------------------------------------------------------------------------
(* Every step keeps the invariant.                                         *)

\* The initial states: any file there can be, no journal, no backup, nobody at work.
LEMMA InitIInv == Init => IInv
<1> SUFFICES ASSUME Init PROVE IInv
  OBVIOUS
<1>1. PICK c \in Files : file = Fresh(c)
  BY DEF Init
<1>2. c \in Sound
  BY ConstantsAssumption, MadeAtSound DEF Sound
<1>3. \A p \in Programs : task[p] = Idle /\ task[p].op = "idle"
  BY DEF Init, Idle
<1>4. task \in [Programs -> Task] /\ online \subseteq Programs
  BY DEF Init, Idle, Task
<1>5. TypeOK
  BY <1>1, <1>2, <1>4, Kinds, Pages DEF Init, TypeOK
<1>6. FilesSound
  BY <1>1, <1>2, <1>3, Kinds, Pages DEF Init, FilesSound
<1>7. CommitsFollow /\ MigrationsFollow /\ AloneBackedUp
  BY <1>3 DEF CommitsFollow, MigrationsFollow, AloneBackedUp
<1> QED
  BY <1>3, <1>5, <1>6, <1>7 DEF IInv

\* What a task needs of the file, for the invariant to hold of it.
TaskSound(p, t) ==
    /\ t \in Task /\ t.op # "committing"
    /\ t.op \in {"copying back", "downloading"} => t.front \in SoundBook
    /\ t.op \in {"copying front", "copying back", "migrating"} =>
        /\ Durable.front.kind = "database"
        /\ t.from <= t.build
        /\ t.from <= Durable.front.marker
        /\ Durable.front.recorded = {} => t.legacy /\ Durable.front.marker = t.from
        /\ ~t.legacy => t.from < t.build
        /\ online = {p} => journal = None
    /\ t.op = "copying back" /\ online = {p} => t.front = file.front /\ t.rest = file.rest
    /\ t.op = "migrating" /\ online = {p} => file \in backups'

\* A step that leaves the file and the journal alone keeps the invariant, if what it
\* adds to the backups is sound and so is the program's next task.
LEMMA QuietStep ==
  ASSUME IInv, NEW p \in online, NEW next, Continue(p, next), TaskSound(p, next),
         UNCHANGED <<file, journal, online>>,
         backups \subseteq backups',
         \A image \in backups' : image \in Images /\ image.front \in SoundBook
  PROVE  IInv'
<1>1. p \in Programs /\ task \in [Programs -> Task] /\ Durable' = Durable
  BY DEF IInv, TypeOK, Durable
<1>2. task' = [task EXCEPT ![p] = next] /\ task' \in [Programs -> Task]
  BY <1>1 DEF Continue, TaskSound
<1>3. \A q \in Programs : task'[q] = IF q = p THEN next ELSE task[q]
  BY <1>1, <1>2
<1>4. TypeOK'
  BY <1>2 DEF IInv, TypeOK
<1>5. FilesSound'
  <2>1. journal' = journal /\ file' = file /\ Whole(file)' = Whole(file)
    BY DEF Whole
  <2>2. \A q \in Programs :
          task'[q].op \in {"copying back", "downloading"} => task'[q].front \in SoundBook
    BY <1>3 DEF IInv, FilesSound, TaskSound
  <2> QED
    BY <2>1, <2>2 DEF IInv, FilesSound
<1>6. CommitsFollow'
  <2>1. \A q \in Programs : task'[q].op = "committing" =>
          task[q].op = "committing" /\ task'[q] = task[q]
    BY <1>3 DEF TaskSound
  <2>2. journal' = journal /\ Whole(Durable)' = Whole(Durable)
    BY <1>1 DEF Whole
  <2> SUFFICES ASSUME NEW q \in Programs, task'[q].op = "committing"
               PROVE  /\ journal' # None
                      /\ \A r \in Programs : task'[r].op = "committing" => r = q
                      /\ task'[q].new.front \in SoundBook
                      /\ Follows(journal.front, task[q].new.front)'
                      /\ Whole(task[q].new)' <=> Whole(Durable)'
    BY DEF CommitsFollow
  <2>3. task[q].op = "committing" /\ task'[q] = task[q]
    BY <2>1
  <2>4. /\ journal # None
        /\ \A r \in Programs : task[r].op = "committing" => r = q
        /\ task[q].new.front \in SoundBook
        /\ Follows(journal.front, task[q].new.front)
        /\ Whole(task[q].new) <=> Whole(Durable)
    BY <2>3 DEF IInv, CommitsFollow
  <2>5. Follows(journal.front, task[q].new.front)' /\ Whole(task[q].new)' = Whole(task[q].new)
    BY <2>2, <2>3, <2>4 DEF Follows, Whole
  <2> QED
    BY <2>1, <2>2, <2>3, <2>4, <2>5
<1>7. MigrationsFollow'
  <2> SUFFICES ASSUME NEW q \in Programs,
                      task'[q].op \in {"copying front", "copying back", "migrating"}
               PROVE  /\ Durable.front.kind = "database"
                      /\ task'[q].from <= task'[q].build
                      /\ task'[q].from <= Durable.front.marker
                      /\ Durable.front.recorded = {} =>
                            task'[q].legacy /\ Durable.front.marker = task'[q].from
                      /\ ~task'[q].legacy => task'[q].from < task'[q].build
    BY <1>1 DEF MigrationsFollow
  <2> QED
    BY <1>3 DEF IInv, MigrationsFollow, TaskSound
<1>8. AloneBackedUp'
  BY <1>1, <1>3 DEF IInv, AloneBackedUp, TaskSound
<1>9. \A q \in Programs \ online' : task'[q] = Idle
  BY <1>3 DEF IInv
<1> QED
  BY <1>4, <1>5, <1>6, <1>7, <1>8, <1>9 DEF IInv

\* A task without a file behind it needs nothing.
LEMMA PlainTasks ==
  ASSUME NEW p, NEW build \in Builds
  PROVE  /\ TaskSound(p, Idle)
         /\ TaskSound(p, [op |-> "verifying"])
         /\ TaskSound(p, [op |-> "creating", build |-> build])
         /\ TaskSound(p, [op |-> "starting", build |-> build])
<1>1. /\ Idle \in Task /\ [op |-> "verifying"] \in Task
      /\ [op |-> "creating", build |-> build] \in Task
      /\ [op |-> "starting", build |-> build] \in Task
  BY DEF Idle, Task
<1> QED
  BY <1>1 DEF TaskSound, Idle

\* What the backups hold is sound, now and after a step that leaves them alone.
LEMMA BackupsSound ==
  ASSUME IInv
  PROVE  \A image \in backups : image \in Images /\ image.front \in SoundBook
BY DEF IInv, TypeOK, FilesSound

\* Looking at the file, failing and the check after a migration keep the invariant: the
\* steps that touch neither the file nor the backups.
LEMMA PlainStepsKeepIInv ==
  ASSUME IInv, NEW p \in online, NEW build \in Builds,
         \/ InspectForInit(p, build)
         \/ EnsureReady(p, build)
         \/ VerifyForeignKeys(p)
         \/ Fail(p)
  PROVE  IInv'
<1>1. PICK next : Continue(p, next) /\ TaskSound(p, next)
  BY PlainTasks DEF InspectForInit, EnsureReady, VerifyForeignKeys, Fail
<1>2. UNCHANGED <<file, journal, backups, online>>
  BY DEF InspectForInit, EnsureReady, VerifyForeignKeys, Fail
<1> QED
  BY <1>1, <1>2, QuietStep, BackupsSound

\* The parts of the invariant, by name.
LEMMA Parts ==
  ASSUME IInv
  PROVE  /\ TypeOK /\ FilesSound /\ CommitsFollow /\ MigrationsFollow /\ AloneBackedUp
         /\ task \in [Programs -> Task] /\ online \subseteq Programs
         /\ \A p \in Programs : task[p] \in Task
         /\ file \in Images /\ Durable \in Images
         /\ journal = None => Durable = file
         /\ journal # None => Durable.front = journal.front
<1>1. TypeOK
  BY DEF IInv
<1> QED
  BY <1>1, DurableFields DEF IInv, TypeOK

\* The inspection for a migration finds the version and the metadata that are there.
LEMMA InspectForMigrationKeepsIInv ==
  ASSUME IInv, NEW p \in online, NEW build \in Builds, InspectForMigration(p, build)
  PROVE  IInv'
<1> DEFINE next == [op |-> "copying front", build |-> build,
                    from |-> SchemaVersion(file.front),
                    legacy |-> UsesLegacyMetadata(file.front)]
<1>1. /\ journal = None /\ Durable = file
      /\ Continue(p, next) /\ UNCHANGED <<file, journal, backups, online>>
  BY DEF InspectForMigration, Unlocked, Durable
<1>2. file.front.kind = "database" /\ file.front \in SoundBook
  <2>1. file.front \in Sound
    BY Parts DEF FilesSound
  <2>2. file.front.kind = "database"
    BY <2>1, Kinds DEF InspectForMigration, NeedsMigration, LifecycleState, Sound
  <2> QED
    BY <2>1, <2>2, Kinds
<1>3. SchemaVersion(file.front) = file.front.marker /\ file.front.marker \in Versions
  BY <1>2, BookFields
<1>4. LifecycleState(file, build) =
        IF file.front.marker > build THEN "foreign"
        ELSE IF file.front.marker < build THEN "upgradeable" ELSE "current"
  BY <1>2, <1>3 DEF LifecycleState
<1>5. /\ LifecycleState(file, build) = "upgradeable" => file.front.marker < build
      /\ LifecycleState(file, build) = "current" => file.front.marker = build
  BY <1>3, <1>4, NewestIsLast
<1>6. TaskSound(p, next)
  <2>1. next \in Task
    BY <1>3 DEF Task, UsesLegacyMetadata
  <2>2. next.from = file.front.marker /\ next.from <= next.build
    <3>1. file.front.marker \in Nat /\ build \in Nat
      BY <1>3, NewestIsLast
    <3>2. LifecycleState(file, build) \in {"upgradeable", "current"}
      BY DEF InspectForMigration, NeedsMigration
    <3>3. file.front.marker <= build
      BY <1>5, <3>1, <3>2
    <3> QED
      BY <1>3, <3>3
  <2>3. next.legacy <=> file.front.recorded = {}
    BY DEF UsesLegacyMetadata
  <2>4. ~next.legacy => next.from < next.build
    BY <1>3, <1>5 DEF InspectForMigration, NeedsMigration
  <2>5. next.op = "copying front" /\ next.from <= file.front.marker
    BY <1>3, NewestIsLast
  <2> HIDE DEF next
  <2> QED
    BY <1>1, <1>2, <2>1, <2>2, <2>3, <2>4, <2>5 DEF TaskSound, Durable
<1> QED
  BY <1>1, <1>6, QuietStep, BackupsSound

\* The copy of the front page: whatever is being written, it is a sound page.
LEMMA CopyFrontKeepsIInv ==
  ASSUME IInv, NEW p \in online, CopyFront(p)
  PROVE  IInv'
<1> DEFINE t == task[p]
           next == [op |-> "copying back", build |-> t.build, from |-> t.from,
                    legacy |-> t.legacy, front |-> file.front, rest |-> file.rest]
<1>1. Continue(p, next) /\ UNCHANGED <<file, journal, backups, online>>
  BY DEF CopyFront
<1>2. p \in Programs /\ t \in Task /\ t.op = "copying front"
  BY Parts DEF CopyFront
<1>3. t.build \in Builds /\ t.from \in Versions /\ t.legacy \in BOOLEAN
  BY <1>2, TaskFields
<1>4. Durable.front.kind = "database" /\ file.front \in SoundBook
  BY <1>2, Parts, Kinds DEF MigrationsFollow, FilesSound
<1>5. next \in Task
  BY <1>3, <1>4, Kinds, Pages, Parts DEF Task
<1>6. TaskSound(p, next)
  BY <1>2, <1>4, <1>5, Parts DEF TaskSound, MigrationsFollow, AloneBackedUp
<1> QED
  BY <1>1, <1>6, QuietStep, BackupsSound

\* The copy of the back page completes the backup, whole or torn.
LEMMA CopyBackKeepsIInv ==
  ASSUME IInv, NEW p \in online, CopyBack(p)
  PROVE  IInv'
<1> DEFINE t == task[p]
           next == [op |-> "migrating", build |-> t.build, from |-> t.from,
                    legacy |-> t.legacy]
           image == Image(t.front, t.rest, file.back)
<1>1. /\ Continue(p, next) /\ UNCHANGED <<file, journal, online>>
      /\ backups' = backups \cup {image}
  BY DEF CopyBack
<1>2. p \in Programs /\ t \in Task /\ t.op = "copying back"
  BY Parts DEF CopyBack
<1>3. t.build \in Builds /\ t.from \in Versions /\ t.legacy \in BOOLEAN
  BY <1>2, TaskFields
<1>4. t.front \in SoundBook
  BY <1>2, Parts DEF FilesSound
<1>5. image \in Images /\ image.front \in SoundBook
  <2>1. t.front \in Content /\ t.rest \in Content
    BY <1>2, TaskFields
  <2>2. file.back \in Content \cup {Odd}
    BY Parts, Pages
  <2> QED
    BY <1>4, <2>1, <2>2, Pages
<1>6. next \in Task
  BY <1>3 DEF Task
<1>7. online = {p} => file \in backups'
  <2> SUFFICES ASSUME online = {p} PROVE file = image
    BY <1>1
  <2>1. t.front = file.front /\ t.rest = file.rest
    BY <1>2, Parts DEF AloneBackedUp
  <2> QED
    BY <2>1, Pages, Parts
<1>8. TaskSound(p, next)
  BY <1>2, <1>6, <1>7, Parts DEF TaskSound, MigrationsFollow, AloneBackedUp
<1> QED
  BY <1>1, <1>5, <1>8, QuietStep, BackupsSound

\* A download reads the file as it is, and saves it whole, torn or cut short.
LEMMA DownloadKeepsIInv ==
  ASSUME IInv, NEW p \in online, ReadFile(p) \/ SaveDownload(p)
  PROVE  IInv'
<1>1. p \in Programs /\ task[p] \in Task
  BY Parts
<1>2. CASE ReadFile(p)
  <2> DEFINE next == [op |-> "downloading", front |-> file.front, rest |-> file.rest]
  <2>1. file.front \in SoundBook
    BY <1>2, Parts, Kinds DEF ReadFile, FilesSound
  <2>2. next \in Task
    BY <2>1, Kinds, Pages, Parts DEF Task
  <2>3. TaskSound(p, next)
    BY <2>1, <2>2 DEF TaskSound
  <2> QED
    BY <1>2, <2>3, QuietStep, BackupsSound DEF ReadFile
<1>3. CASE SaveDownload(p)
  <2>1. PICK back \in {file.back, Odd} :
          backups' = backups \cup {Image(task[p].front, task[p].rest, back)}
    BY <1>3 DEF SaveDownload
  <2> DEFINE image == Image(task[p].front, task[p].rest, back)
  <2>2. task[p].front \in SoundBook /\ task[p].rest \in Content
    BY <1>1, <1>3, Parts, TaskFields DEF SaveDownload, FilesSound
  <2>3. image \in Images /\ image.front \in SoundBook
    BY <2>2, Kinds, Pages, Parts
  <2>4. TaskSound(p, Idle)
    BY DEF TaskSound, Idle, Task
  <2> QED
    BY <1>3, <2>1, <2>3, <2>4, QuietStep, BackupsSound DEF SaveDownload
<1> QED
  BY <1>2, <1>3

\* A program that dies leaves its journal, and its unfinished copy cut short.
LEMMA CrashKeepsIInv ==
  ASSUME IInv, NEW p \in online, Crash(p)
  PROVE  IInv'
<1> DEFINE image == Image(task[p].front, task[p].rest, Odd)
<1>1. p \in Programs /\ task[p] \in Task
  BY Parts
<1>2. Continue(p, Idle) /\ UNCHANGED <<file, journal, online>> /\ backups \subseteq backups'
  BY DEF Crash
<1>3. task[p].op = "copying back" => image \in Images /\ image.front \in SoundBook
  <2> SUFFICES ASSUME task[p].op = "copying back"
               PROVE  image \in Images /\ image.front \in SoundBook
    OBVIOUS
  <2>1. task[p].front \in SoundBook /\ task[p].front \in Content /\ task[p].rest \in Content
    BY <1>1, Parts, TaskFields DEF FilesSound
  <2>2. image.front = task[p].front /\ Odd \in Content \cup {Odd}
    BY DEF Image
  <2>3. image \in Images
    BY <2>1, <2>2, Pages
  <2> QED
    BY <2>1, <2>2, <2>3
<1>4. TaskSound(p, Idle)
  BY DEF TaskSound, Idle, Task
<1> QED
  BY <1>2, <1>3, <1>4, QuietStep, BackupsSound DEF Crash

\* Beginning to commit c saves enough of the file for the next reader to find it as it
\* was: one that was not there is found empty.
LEMMA CommitBegun ==
  ASSUME IInv, NEW p, NEW c \in SoundBook, NEW by, BeginCommit(p, c, by)
  PROVE  \E new \in [front : Database, rest : Content, back : Content \cup {Odd}] :
            /\ new.front = c
            /\ Continue(p, [op |-> "committing", new |-> new, by |-> by])
            /\ file' = Image(c, new.rest, file.back)
            /\ journal = None /\ journal' # None
            /\ journal' \in [front : Content, rest : Content, back : Content \cup {Odd, None}]
            /\ Durable' = IF file.front = Absent THEN Fresh(Empty) ELSE file
            /\ journal'.front = Durable'.front
            /\ file.front \in {Absent, Empty} => journal'.back # None
            /\ Whole(new) <=> Whole(Durable')
<1>1. PICK changesBack \in BOOLEAN :
        /\ file.front.kind \in {"absent", "empty"} => changesBack
        /\ journal' = IF file.front = Absent THEN Fresh(Empty) ELSE Saved(file, changesBack)
        /\ StartWriting(p, Written(file, c, changesBack), by)
  BY DEF BeginCommit
<1> DEFINE new == Written(file, c, changesBack)
<1>2. /\ journal = None /\ file \in Images /\ c \in Database /\ c \in Content
      /\ file.front = Absent => Whole(file)
  BY Parts, Kinds DEF BeginCommit, Unlocked, FilesSound
<1>3. /\ new \in [front : Database, rest : Content, back : Content \cup {Odd}]
      /\ new.front = c
      /\ Whole(new) <=> Whole(file)
  <2>1. file.rest \in Content /\ file.back \in Content \cup {Odd} /\ c # Odd
    BY <1>2, Pages
  <2>2. CASE changesBack
    BY <1>2, <2>1, <2>2 DEF Written, Image, Whole
  <2>3. CASE ~changesBack
    BY <1>2, <2>1, <2>3 DEF Written, Image, Whole
  <2> QED
    BY <2>2, <2>3
<1>4. file' = Image(c, new.rest, file.back) /\ file'.back = file.back
  <2>1. file' = [new EXCEPT !.back = file.back]
    BY <1>1 DEF StartWriting
  <2> HIDE DEF new
  <2> QED
    BY <1>3, <2>1 DEF Image
<1>5. CASE file.front = Absent
  <2>1. journal' = Fresh(Empty) /\ Empty \in Content
    BY <1>1, <1>5 DEF Content
  <2>2. /\ Fresh(Empty) \in Images /\ Fresh(Empty) # None /\ Fresh(Empty).back # None
        /\ Whole(Fresh(Empty))
    BY <2>1, Pages
  <2>3. Durable' = Fresh(Empty)
    BY <2>1, <2>2 DEF Durable, Images
  <2>4. journal' \in [front : Content, rest : Content, back : Content \cup {Odd, None}]
    BY <2>1, <2>2 DEF Images
  <2>5. Whole(Durable)' <=> Whole(new)
    BY <1>2, <1>3, <1>5, <2>2, <2>3 DEF Whole
  <2> HIDE DEF new
  <2> QED
    BY <1>1, <1>2, <1>3, <1>4, <1>5, <2>1, <2>2, <2>3, <2>4, <2>5 DEF StartWriting, Whole, new
<1>6. CASE file.front # Absent /\ changesBack
  <2>1. journal' = file
    BY <1>1, <1>2, <1>6 DEF Saved, Images
  <2>2. Durable' = file /\ file # None /\ file.back # None
    BY <1>2, <2>1, Pages DEF Durable, Images
  <2>3. journal' \in [front : Content, rest : Content, back : Content \cup {Odd, None}]
    BY <1>2, <2>1 DEF Images
  <2> HIDE DEF new
  <2> QED
    BY <1>1, <1>2, <1>3, <1>4, <1>6, <2>1, <2>2, <2>3 DEF StartWriting, Whole, new
<1>7. CASE file.front # Absent /\ ~changesBack
  <2>1. journal' = [file EXCEPT !.back = None] /\ journal' # None
    BY <1>1, <1>2, <1>7, Pages DEF Saved
  <2>2. journal'.back = None /\ journal'.front = file.front
    BY <1>2, <2>1 DEF Images
  <2>3. Durable' = file
    <3>1. Durable' = [journal' EXCEPT !.back = file'.back]
      BY <2>1, <2>2 DEF Durable
    <3>2. Durable' = [[file EXCEPT !.back = None] EXCEPT !.back = file.back]
      BY <1>4, <2>1, <3>1
    <3> QED
      BY <1>2, <3>2 DEF Images
  <2>4. journal' \in [front : Content, rest : Content, back : Content \cup {Odd, None}]
    BY <1>2, <2>1 DEF Images
  <2>5. file.front \notin {Absent, Empty}
    BY <1>1, <1>7, Kinds
  <2> HIDE DEF new
  <2> QED
    BY <1>1, <1>2, <1>3, <1>4, <1>7, <2>1, <2>2, <2>3, <2>4, <2>5 DEF StartWriting, Whole, new
<1> QED
  BY <1>5, <1>6, <1>7

\* Beginning to commit a sound successor of what is in the file keeps the invariant.
LEMMA BeginCommitKeepsIInv ==
  ASSUME IInv, NEW p \in online, NEW c \in SoundBook, NEW by \in {"init", "migrate", "user"},
         BeginCommit(p, c, by), UNCHANGED <<backups, online>>,
         Follows(IF file.front = Absent THEN Empty ELSE file.front, c),
         by = "migrate" /\ online = {p} => file \in backups
  PROVE  IInv'
<1> DEFINE next(new) == [op |-> "committing", new |-> new, by |-> by]
           old == IF file.front = Absent THEN Fresh(Empty) ELSE file
<1>1. /\ journal = None /\ Durable = file /\ file \in Images /\ file.front \in Sound
      /\ p \in Programs /\ task \in [Programs -> Task] /\ online \subseteq Programs
  BY Parts DEF BeginCommit, Unlocked, FilesSound
<1>2. PICK new \in [front : Database, rest : Content, back : Content \cup {Odd}] :
            /\ new.front = c
            /\ Continue(p, next(new))
            /\ file' = Image(c, new.rest, file.back)
            /\ journal' # None
            /\ journal' \in [front : Content, rest : Content, back : Content \cup {Odd, None}]
            /\ Durable' = old
            /\ journal'.front = Durable'.front
            /\ file.front \in {Absent, Empty} => journal'.back # None
            /\ Whole(new) <=> Whole(Durable')
  BY CommitBegun
<1>3. /\ \A q \in Programs : q # p => task'[q] = task[q]
      /\ task'[p] = next(new) /\ next(new) \in Task /\ task' \in [Programs -> Task]
      /\ task'[p].op = "committing" /\ task'[p].new = new /\ task'[p].by = by
  <2>1. next(new) \in Task
    BY DEF Task
  <2> QED
    BY <1>1, <1>2, <2>1 DEF Continue
<1>4. /\ old.front = IF file.front = Absent THEN Empty ELSE file.front
      /\ file.front # Absent => old = file
      /\ file'.front = c /\ file'.rest = new.rest /\ file'.back = file.back
      /\ c \in Content /\ c # Absent
  <2>1. c \in Content /\ c # Absent /\ Fresh(Empty).front = Empty
    BY Kinds, Pages DEF Content
  <2>2. file'.front = c /\ file'.rest = new.rest /\ file'.back = file.back
    BY <1>2, Pages
  <2> QED
    BY <2>1, <2>2
<1>5. old.front \in {Empty} \cup SoundBook /\ Follows(old.front, c)
  <2>1. Follows(old.front, c)
    BY <1>4
  <2> QED
    BY <2>1 DEF Follows
<1> HIDE DEF old
<1>6. TypeOK'
  <2>1. file' \in Images
    <3>1. new.rest \in Content /\ file.back \in Content \cup {Odd}
      BY <1>1, Pages
    <3> QED
      BY <1>2, <1>4, <3>1, Pages
  <2> QED
    BY <1>2, <1>3, <2>1, Parts DEF TypeOK
<1>7. FilesSound'
  <2>1. \A q \in Programs :
          task'[q].op \in {"copying back", "downloading"} => task'[q].front \in SoundBook
    BY <1>3, Parts DEF FilesSound
  <2>2. journal'.front \in {Empty} \cup SoundBook /\ Follows(journal'.front, file'.front)
    BY <1>2, <1>4, <1>5
  <2>3. journal'.back = None => journal'.front \in SoundBook
    BY <1>1, <1>2, <1>4, <1>5, Kinds
  <2>4. file'.front \in SoundBook /\ file'.front \in Sound /\ file'.front # Absent
    BY <1>4 DEF Sound
  <2>5. \A image \in backups' : image.front \in SoundBook
    BY BackupsSound
  <2>6. Follows(journal.front, file.front)' <=> Follows(journal'.front, file'.front)
    BY DEF Follows
  <2> QED
    BY <2>1, <2>2, <2>3, <2>4, <2>5, <2>6 DEF FilesSound
<1>8. CommitsFollow'
  <2>1. \A q \in Programs : task'[q].op = "committing" => q = p
    BY <1>1, <1>3, Parts DEF CommitsFollow
  <2>2. Follows(journal.front, new.front)'
    BY <1>2, <1>5 DEF Follows
  <2>3. Whole(new) <=> Whole(Durable)'
    BY <1>2 DEF Whole
  <2> SUFFICES ASSUME NEW q \in Programs, task'[q].op = "committing"
               PROVE  /\ journal' # None
                      /\ \A r \in Programs : task'[r].op = "committing" => r = q
                      /\ task'[q].new.front \in SoundBook
                      /\ Follows(journal.front, task[q].new.front)'
                      /\ Whole(task'[q].new) <=> Whole(Durable)'
    BY DEF CommitsFollow, Whole
  <2>4. q = p /\ task'[q].new = new
    BY <1>3, <2>1
  <2> QED
    BY <1>2, <1>3, <2>1, <2>2, <2>3, <2>4 DEF Follows
<1>9. MigrationsFollow'
  <2> SUFFICES ASSUME NEW q \in Programs,
                      task'[q].op \in {"copying front", "copying back", "migrating"}
               PROVE  /\ old.front.kind = "database"
                      /\ task'[q].from <= task'[q].build
                      /\ task'[q].from <= old.front.marker
                      /\ old.front.recorded = {} =>
                            task'[q].legacy /\ old.front.marker = task'[q].from
                      /\ ~task'[q].legacy => task'[q].from < task'[q].build
    BY <1>2 DEF MigrationsFollow
  <2>1. task'[q] = task[q]
    BY <1>3
  <2>2. file.front.kind = "database"
    BY <1>1, <2>1, Parts DEF MigrationsFollow
  <2>3. old = file
    BY <1>4, <2>2, Kinds
  <2> QED
    BY <1>1, <2>1, <2>3, Parts DEF MigrationsFollow
<1>10. AloneBackedUp'
  <2>1. \A q \in Programs : online' = {q} => q = p
    OBVIOUS
  <2> SUFFICES ASSUME online = {p}, by = "migrate" PROVE Durable' \in backups'
    BY <1>3, <2>1 DEF AloneBackedUp
  <2>2. file \in backups /\ file.front # Absent
    BY BackupsSound, Kinds
  <2> QED
    BY <1>2, <1>4, <2>2
<1>11. \A q \in Programs \ online' : task'[q] = Idle
  BY <1>1, <1>3 DEF IInv
<1> QED
  BY <1>6, <1>7, <1>8, <1>9, <1>10, <1>11 DEF IInv

\* lootsheet init commits a new database into a file without tables.
LEMMA CreateDatabaseKeepsIInv ==
  ASSUME IInv, NEW p \in online, CreateDatabase(p)
  PROVE  IInv'
<1>1. p \in Programs /\ task[p] \in Task /\ task[p].op = "creating"
  BY Parts DEF CreateDatabase
<1>2. task[p].build \in Versions
  BY <1>1, TaskFields, NewestIsLast
<1>3. MadeAt(task[p].build, TRUE) \in SoundBook /\ MadeAt(task[p].build, TRUE).rows = 0
  BY <1>2, MadeAtSound
<1>4. file.front \in {Absent, Empty}
  BY Parts, Kinds DEF CreateDatabase, FilesSound, Sound
<1>5. Follows(IF file.front = Absent THEN Empty ELSE file.front, MadeAt(task[p].build, TRUE))
  BY <1>3, <1>4 DEF Follows
<1> QED
  BY <1>3, <1>5, BeginCommitKeepsIInv DEF CreateDatabase

\* A user's call commits the database with one more row.
LEMMA WriteKeepsIInv ==
  ASSUME IInv, NEW p \in online, Write(p)
  PROVE  IInv'
<1>1. file.front \in SoundBook
  BY Parts, Kinds DEF Write, FilesSound
<1>2. [file.front EXCEPT !.rows = @ + 1] \in SoundBook
  BY <1>1, EnteredSound DEF Write
<1>3. Follows(IF file.front = Absent THEN Empty ELSE file.front,
               [file.front EXCEPT !.rows = @ + 1])
  BY <1>1, Kinds DEF Follows
<1> QED
  BY <1>2, <1>3, BeginCommitKeepsIInv DEF Write

\* The primary key of schema_migrations lets a migration through only if the file is
\* still at the version that was inspected.
LEMMA ApplyFindsInspected ==
  ASSUME IInv, NEW p \in online, ApplyMigrations(p)
  PROVE  /\ p \in Programs /\ journal = None
         /\ file.front \in SoundBook
         /\ task[p].build \in Builds /\ task[p].from \in Versions /\ task[p].legacy \in BOOLEAN
         /\ task[p].from <= task[p].build
         /\ file.front.marker = task[p].from
         /\ task[p].legacy <=> file.front.recorded = {}
<1> DEFINE t == task[p]
           c == file.front
<1>1. /\ p \in Programs /\ t \in Task /\ t.op = "migrating" /\ journal = None
      /\ Durable = file
  BY Parts DEF ApplyMigrations, BeginCommit, Unlocked
<1>2. t.build \in Builds /\ t.from \in Versions /\ t.legacy \in BOOLEAN
  BY <1>1, TaskFields
<1>3. /\ c.kind = "database" /\ t.from <= t.build /\ t.from <= c.marker
      /\ c.recorded = {} => t.legacy /\ c.marker = t.from
      /\ ~t.legacy => t.from < t.build
  BY <1>1, Parts DEF MigrationsFollow
<1>4. c \in SoundBook
  BY <1>3, Parts, Kinds DEF FilesSound
<1>5. /\ t.from \in Nat \ {0} /\ t.build \in Nat \ {0} /\ c.marker \in Nat \ {0}
      /\ c.recorded # {} => c.recorded = 1..c.marker
  <2>1. c.marker \in Nat \ {0} /\ (c.recorded # {} => c.recorded = 1..c.marker)
    BY <1>4, BookFields
  <2>2. t.build \in Nat \ {0}
    BY <1>2, NewestIsLast
  <2>3. t.from \in Nat \ {0}
    BY <1>2, NewestIsLast
  <2> QED
    BY <2>1, <2>2, <2>3
<1>6. c.recorded \cap (Backfill(t) \cup Pending(t)) = {}
  BY DEF ApplyMigrations
<1>7. CASE c.recorded = {}
  BY <1>1, <1>2, <1>3, <1>4, <1>7
<1>8. CASE c.recorded # {}
  <2>1. ~t.legacy
    <3> SUFFICES ASSUME t.legacy PROVE FALSE
      OBVIOUS
    <3>1. 1 \in c.recorded /\ 1 \in Backfill(t)
      BY <1>5, <1>8 DEF Backfill
    <3> QED
      BY <1>6, <3>1
  <2>2. c.marker = t.from
    <3> SUFFICES ASSUME c.marker # t.from PROVE FALSE
      OBVIOUS
    <3>1. t.from + 1 \in 1..c.marker /\ t.from + 1 \in t.from + 1..t.build
      BY <1>3, <1>5, <2>1
    <3> QED
      BY <1>5, <1>6, <1>8, <3>1 DEF Pending
  <2> QED
    BY <1>1, <1>2, <1>3, <1>4, <1>8, <2>1, <2>2
<1> QED
  BY <1>7, <1>8

\* A migration commits the database it inspected, migrated.
LEMMA ApplyMigrationsKeepsIInv ==
  ASSUME IInv, NEW p \in online, ApplyMigrations(p)
  PROVE  IInv'
<1> DEFINE t == task[p]
           c == file.front
<1>1. /\ p \in Programs /\ journal = None /\ c \in SoundBook
      /\ t.build \in Builds /\ t.from \in Versions /\ t.legacy \in BOOLEAN
      /\ t.from <= t.build /\ c.marker = t.from /\ (t.legacy <=> c.recorded = {})
  BY ApplyFindsInspected
<1>2. /\ Migrated(c, t) \in SoundBook /\ Migrated(c, t).rows = c.rows
      /\ Migrated(c, t).marker = t.build /\ Migrated(c, t).recorded # {}
  BY <1>1, MigratedSound
<1>3. c.marker <= Migrated(c, t).marker
  BY <1>1, <1>2, NewestIsLast
<1>4. online = {p} => file \in backups
  BY <1>1, Parts DEF ApplyMigrations, AloneBackedUp
<1>5. BeginCommit(p, Migrated(c, t), "migrate") /\ UNCHANGED <<backups, online>>
  BY DEF ApplyMigrations
<1>6. Follows(IF file.front = Absent THEN Empty ELSE file.front, Migrated(c, t))
  BY <1>1, <1>2, <1>3, Kinds DEF Follows
<1> QED
  BY <1>2, <1>4, <1>5, <1>6, BeginCommitKeepsIInv

\* The journal goes, and the new pages are what every reader finds from then on.
LEMMA FinishCommitKeepsIInv ==
  ASSUME IInv, NEW p \in online, FinishCommit(p)
  PROVE  IInv'
<1> DEFINE new == task[p].new
           next == IF task[p].by = "migrate" THEN [op |-> "verifying"] ELSE Idle
           old == journal.front
<1>1. /\ p \in Programs /\ task \in [Programs -> Task] /\ online \subseteq Programs
      /\ task[p] \in Task /\ task[p].op = "committing"
  BY Parts DEF FinishCommit
<1>2. /\ file' = new /\ journal' = None /\ Durable' = new
      /\ UNCHANGED <<backups, online>>
  BY DEF FinishCommit, Durable
<1>3. /\ next \in Task /\ next.op \in {"idle", "verifying"}
      /\ task' \in [Programs -> Task]
      /\ task'[p] = next
      /\ \A q \in Programs : q # p => task'[q] = task[q]
  BY <1>1 DEF FinishCommit, Continue, Idle, Task
<1>4. /\ new.front \in SoundBook /\ new.front \in Sound /\ new.front # Absent
      /\ new \in Images /\ journal # None
      /\ Durable.front = old /\ Follows(old, new.front)
      /\ \A q \in Programs : task[q].op = "committing" => q = p
  <2>1. new \in Images
    BY <1>1, TaskFields, Kinds DEF Images
  <2>2. new.front \in SoundBook /\ new.front \in Sound /\ new.front # Absent
    BY <1>1, Parts, Kinds DEF CommitsFollow, Sound
  <2> QED
    BY <1>1, <2>1, <2>2, Parts DEF CommitsFollow
<1>5. TypeOK'
  BY <1>2, <1>3, <1>4, Parts DEF TypeOK
<1>6. FilesSound'
  <2>1. \A q \in Programs :
          task'[q].op \in {"copying back", "downloading"} => task'[q].front \in SoundBook
    BY <1>3, Parts DEF FilesSound
  <2>2. \A image \in backups' : image.front \in SoundBook
    BY <1>2, BackupsSound
  <2> QED
    BY <1>2, <1>4, <2>1, <2>2 DEF FilesSound
<1>7. CommitsFollow'
  BY <1>3, <1>4 DEF CommitsFollow
<1>8. MigrationsFollow'
  <2> SUFFICES ASSUME NEW q \in Programs,
                      task'[q].op \in {"copying front", "copying back", "migrating"}
               PROVE  /\ new.front.kind = "database"
                      /\ task'[q].from <= task'[q].build
                      /\ task'[q].from <= new.front.marker
                      /\ new.front.recorded = {} =>
                            task'[q].legacy /\ new.front.marker = task'[q].from
                      /\ ~task'[q].legacy => task'[q].from < task'[q].build
    BY <1>2 DEF MigrationsFollow
  <2>1. task'[q] = task[q] /\ task[q] \in Task
    BY <1>1, <1>3
  <2>2. /\ old.kind = "database"
        /\ task[q].from <= task[q].build
        /\ task[q].from <= old.marker
        /\ old.recorded = {} => task[q].legacy /\ old.marker = task[q].from
        /\ ~task[q].legacy => task[q].from < task[q].build
    BY <1>4, <2>1, Parts DEF MigrationsFollow
  <2>3. CASE old \in SoundBook /\ new.front = [old EXCEPT !.rows = @ + 1]
    <3>1. /\ new.front.kind = old.kind /\ new.front.marker = old.marker
          /\ new.front.recorded = old.recorded
      BY <2>3 DEF SoundBook, Database
    <3> QED
      BY <2>1, <2>2, <3>1
  <2>4. CASE old \in SoundBook /\ old.marker <= new.front.marker /\ new.front.recorded # {}
    <3>1. new.front.kind = "database" /\ new.front.marker \in Nat
      BY <1>4, Kinds, BookFields
    <3>2. old.marker \in Nat
      BY <2>4, BookFields
    <3>3. task[q].from \in Nat
      BY <2>1, TaskFields, NewestIsLast
    <3>4. task[q].from <= old.marker
      BY <2>2
    <3>5. task[q].from <= new.front.marker
      BY <2>4, <3>1, <3>2, <3>3, <3>4, LeqTransitive, Zenon
    <3> QED
      BY <2>1, <2>2, <2>4, <3>1, <3>5
  <2>5. CASE old = Empty
    BY <2>2, <2>5, Kinds
  <2> QED
    BY <1>4, <2>3, <2>4, <2>5 DEF Follows
<1>9. AloneBackedUp'
  <2>1. \A q \in Programs : online' = {q} => q = p
    BY <1>2
  <2> QED
    BY <1>3, <2>1 DEF AloneBackedUp
<1>10. \A q \in Programs \ online' : task'[q] = Idle
  BY <1>2, <1>3 DEF IInv
<1> QED
  BY <1>5, <1>6, <1>7, <1>8, <1>9, <1>10 DEF IInv

\* Rolling back puts the saved pages where readers looked for them already.
LEMMA RollBackKeepsIInv ==
  ASSUME IInv, RollBack
  PROVE  IInv' /\ Durable' = Durable
<1>1. /\ journal # None /\ file' = Durable /\ journal' = None
      /\ UNCHANGED <<backups, task, online>>
      /\ \A p \in Programs : task[p].op # "committing"
  BY DEF RollBack, Committing
<1>2. Durable' = Durable /\ Durable \in Images /\ Durable.front = journal.front
  BY <1>1, Parts DEF Durable
<1>3. TypeOK'
  BY <1>1, <1>2, Parts DEF TypeOK
<1>4. FilesSound'
  <2>1. file'.front \in Sound /\ file'.front # Absent
    BY <1>1, <1>2, Parts, Kinds DEF FilesSound, Sound
  <2> QED
    BY <1>1, <2>1, Parts DEF FilesSound
<1>5. CommitsFollow'
  BY <1>1 DEF CommitsFollow
<1>6. MigrationsFollow'
  BY <1>1, <1>2, Parts DEF MigrationsFollow
<1>7. AloneBackedUp'
  BY <1>1, Parts DEF AloneBackedUp
<1> QED
  BY <1>1, <1>2, <1>3, <1>4, <1>5, <1>6, <1>7 DEF IInv

\* Putting a backup back, with or without a journal beside the file.
LEMMA RestoreKeepsIInv ==
  ASSUME IInv, Restore
  PROVE  IInv'
<1>1. PICK image \in backups : Whole(image) /\ file' = image
  BY DEF Restore
<1>2. UNCHANGED <<journal, backups, task, online>>
  BY DEF Restore
<1>3. \A p \in Programs : task[p].op = "idle"
  BY DEF Restore, Idle
<1>4. image \in Images /\ image.front \in SoundBook
  BY BackupsSound
<1>5. TypeOK'
  BY <1>1, <1>2, <1>4, Parts DEF TypeOK
<1>6. FilesSound'
  <2>1. Whole(file)' /\ file' \in backups'
    BY <1>1, <1>2 DEF Whole
  <2>2. file'.front \in SoundBook /\ file'.front \in Sound
    BY <1>1, <1>4 DEF Sound
  <2> QED
    BY <1>2, <2>1, <2>2, Parts DEF FilesSound
<1>7. CommitsFollow' /\ MigrationsFollow' /\ AloneBackedUp'
  BY <1>2, <1>3 DEF CommitsFollow, MigrationsFollow, AloneBackedUp
<1> QED
  BY <1>2, <1>5, <1>6, <1>7 DEF IInv

\* What a program begins to commit is sound.
LEMMA CommitKinds ==
  ASSUME IInv, NEW p \in online, CreateDatabase(p) \/ ApplyMigrations(p) \/ Write(p)
  PROVE  \E c \in SoundBook, by \in {"init", "migrate", "user"} :
            /\ BeginCommit(p, c, by) /\ UNCHANGED backups
            /\ task[p].op \notin {"copying back", "downloading"}
<1>1. CASE CreateDatabase(p)
  <2>1. task[p].build \in Versions
    BY <1>1, Parts, TaskFields, NewestIsLast DEF CreateDatabase
  <2>2. MadeAt(task[p].build, TRUE) \in SoundBook
    BY <2>1, MadeAtSound
  <2> QED
    BY <1>1, <2>2 DEF CreateDatabase
<1>2. CASE ApplyMigrations(p)
  <2>1. Migrated(file.front, task[p]) \in SoundBook
    BY <1>2, ApplyFindsInspected, MigratedSound
  <2> QED
    BY <1>2, <2>1 DEF ApplyMigrations
<1>3. CASE Write(p)
  <2>1. [file.front EXCEPT !.rows = @ + 1] \in SoundBook
    BY <1>3, Parts, Kinds, EnteredSound DEF Write, FilesSound
  <2> QED
    BY <1>3, <2>1 DEF Write, Idle
<1> QED
  BY <1>1, <1>2, <1>3

\* Every other step of a program, but the end of its commit, leaves the file and the
\* journal alone.
LEMMA StepKinds ==
  ASSUME NEW p, ProgramStep(p)
  PROVE  \/ CreateDatabase(p) \/ ApplyMigrations(p) \/ Write(p)
         \/ FinishCommit(p)
         \/ UNCHANGED <<file, journal>>
BY DEF ProgramStep, CommandStep, InspectForInit, EnsureReady, InspectForMigration,
       CopyFront, CopyBack, VerifyForeignKeys, ReadFile, SaveDownload, Fail, Crash

\* Every step keeps the invariant.
LEMMA NextKeepsIInv == IInv /\ [Next]_vars => IInv'
<1> SUFFICES ASSUME IInv, [Next]_vars PROVE IInv'
  OBVIOUS
<1>1. CASE UNCHANGED vars
  <2>1. Durable' = Durable
    BY <1>1 DEF vars, Durable
  <2>2. TypeOK' /\ FilesSound' /\ CommitsFollow' /\ AloneBackedUp'
    BY <1>1, <2>1, Parts
       DEF vars, TypeOK, FilesSound, CommitsFollow, AloneBackedUp, Whole, Follows
  <2>3. MigrationsFollow'
    BY <1>1, <2>1, Parts DEF vars, MigrationsFollow
  <2> QED
    BY <1>1, <2>2, <2>3 DEF vars, IInv
<1>2. CASE \E p \in online : ProgramStep(p)
  <2>1. PICK p \in online : ProgramStep(p)
    BY <1>2
  <2>2. CASE \E build \in Builds : InspectForMigration(p, build)
    BY <2>2, InspectForMigrationKeepsIInv
  <2>3. CASE \E build \in Builds : InspectForInit(p, build) \/ EnsureReady(p, build)
    BY <2>3, PlainStepsKeepIInv
  <2>4. CASE VerifyForeignKeys(p) \/ Fail(p)
    <3>1. \E build \in Builds : TRUE
      BY NewestIsLast
    <3> QED
      BY <2>4, <3>1, PlainStepsKeepIInv
  <2>5. CASE CreateDatabase(p)
    BY <2>5, CreateDatabaseKeepsIInv
  <2>6. CASE CopyFront(p)
    BY <2>6, CopyFrontKeepsIInv
  <2>7. CASE CopyBack(p)
    BY <2>7, CopyBackKeepsIInv
  <2>8. CASE ApplyMigrations(p)
    BY <2>8, ApplyMigrationsKeepsIInv
  <2>9. CASE ReadFile(p) \/ SaveDownload(p)
    BY <2>9, DownloadKeepsIInv
  <2>10. CASE Write(p)
    BY <2>10, WriteKeepsIInv
  <2>11. CASE FinishCommit(p)
    BY <2>11, FinishCommitKeepsIInv
  <2>12. CASE Crash(p)
    BY <2>12, CrashKeepsIInv
  <2> QED
    BY <2>1, <2>2, <2>3, <2>4, <2>5, <2>6, <2>7, <2>8, <2>9, <2>10, <2>11, <2>12
       DEF ProgramStep, CommandStep
<1>3. CASE RollBack
  BY <1>3, RollBackKeepsIInv
<1>4. CASE Restore
  BY <1>4, RestoreKeepsIInv
<1> QED
  BY <1>1, <1>2, <1>3, <1>4 DEF Next

\* The strengthened invariant holds throughout: it is what ties the pages of the file,
\* the journal, the backups and the programs' half-done commands together.
THEOREM Invariance == Spec => []IInv
<1>1. Init => IInv
  BY InitIInv
<1>2. IInv /\ [Next]_vars => IInv'
  BY NextKeepsIInv
<1> QED
  BY <1>1, <1>2, PTL DEF Spec

-------------------------------------------------------------------------------
(* What must hold.                                                         *)

\* The front page that the next reader finds is sound, whatever lies behind it.
LEMMA DurableSound ==
  ASSUME IInv
  PROVE  Durable.front \in Sound
BY Parts DEF FilesSound, Sound

\* Every variable keeps to its values; in particular no commit writes a database that
\* names a migration nobody knows.
THEOREM TypeCorrect == Spec => []TypeOK
<1>1. IInv => TypeOK
  BY DEF IInv
<1> QED
  BY <1>1, Invariance, PTL

\* Whatever programs of whatever builds initialise and migrate a file at the same time,
\* wherever they die and whatever is put back, with or without a journal beside it: a
\* database that a reader finds whole has had exactly the migrations up to its version.
THEOREM SchemaRecorded == Spec => []SchemaIsRecorded
<1>1. ASSUME IInv PROVE SchemaIsRecorded
  <2>1. Durable.front \in Sound
    BY <1>1, DurableSound
  <2>2. Durable.front.kind = "database" => WellFormed(Durable.front)
    BY <2>1, Kinds DEF SoundBook
  <2> QED
    BY <2>2 DEF SchemaIsRecorded, WellFormed
<1> QED
  BY <1>1, Invariance, PTL

\* The pages that a reader finds go together, however programs write, die, copy and
\* migrate: only a backup that is copied over a file while a journal lies beside it
\* can come to be found with pages of another moment in it.
TornOnlyByRestore ==
    [][Whole(Durable) /\ ~Whole(Durable)' => Restore /\ journal # None]_vars

\* No step but a restore beside a journal makes a reader find pages of different moments.
LEMMA NextTearsOnlyByRestore ==
  ASSUME IInv, [Next]_vars, Whole(Durable), ~Whole(Durable')
  PROVE  Restore /\ journal # None
<1>1. CASE UNCHANGED <<file, journal>>
  BY <1>1 DEF Durable
<1>2. ASSUME NEW p \in online, ProgramStep(p)
      PROVE  FALSE
  <2>1. CASE CreateDatabase(p) \/ ApplyMigrations(p) \/ Write(p)
    <3>1. PICK c \in SoundBook, by \in {"init", "migrate", "user"} : BeginCommit(p, c, by)
      BY <2>1, CommitKinds
    <3>2. /\ Durable' = IF file.front = Absent THEN Fresh(Empty) ELSE file
          /\ journal = None
      BY <3>1, CommitBegun
    <3>3. Durable = file /\ Whole(Fresh(Empty))
      BY <3>2, Parts, Pages DEF Content
    <3> QED
      BY <3>2, <3>3
  <2>2. CASE FinishCommit(p)
    <3>1. Durable' = task[p].new
      BY <2>2 DEF FinishCommit, Durable
    <3>2. Whole(task[p].new) <=> Whole(Durable)
      BY <2>2, Parts DEF FinishCommit, CommitsFollow
    <3> QED
      BY <3>1, <3>2
  <2>3. CASE UNCHANGED <<file, journal>>
    BY <1>1, <2>3 DEF Durable
  <2> QED
    BY <1>2, <2>1, <2>2, <2>3, StepKinds
<1>3. CASE RollBack
  BY <1>3, RollBackKeepsIInv
<1>4. CASE Restore
  <2>1. PICK image \in backups : Whole(image) /\ file' = image /\ journal' = journal
    BY <1>4 DEF Restore
  <2>2. journal = None => Durable' = image
    BY <2>1 DEF Durable
  <2> QED
    BY <1>4, <2>1, <2>2
<1> QED
  BY <1>1, <1>2, <1>3, <1>4 DEF Next, vars

\* However programs of whatever builds write, die, copy, migrate and roll back: only a
\* backup put over a file with a journal beside it leaves pages of different moments.
THEOREM TornOnlyByRestoring == Spec => TornOnlyByRestore
<1>1. ASSUME IInv, [Next]_vars
      PROVE  [Whole(Durable) /\ ~Whole(Durable)' => Restore /\ journal # None]_vars
  <2>1. Whole(Durable)' <=> Whole(Durable')
    BY DEF Whole
  <2> QED
    BY <1>1, <2>1, NextTearsOnlyByRestore
<1> QED
  BY <1>1, Invariance, PTL DEF Spec, TornOnlyByRestore

\* A program that has the file to itself commits a migration only over a file of which
\* it holds an exact backup.
THEOREM MigrationBackedUp == Spec => []SoleMigrationBackedUp
<1>1. ASSUME IInv PROVE SoleMigrationBackedUp
  BY <1>1, Parts DEF AloneBackedUp, SoleMigrationBackedUp
<1> QED
  BY <1>1, Invariance, PTL

-------------------------------------------------------------------------------
(* The programs together keep the promises of Lifecycle.                   *)

\* The book of a sound page.
LEMMA BookOfSound ==
  ASSUME NEW c \in SoundBook
  PROVE  /\ BookOf(c) = [version |-> c.marker, rows |-> c.rows]
         /\ BookOf(c) \in PromisedLifecycle!Books
         /\ BookOf(c) # Empty
<1>1. SchemaVersion(c) = c.marker /\ c.marker \in Versions /\ c.rows \in 0..MaxRows
  BY BookFields
<1>2. c.rows \in Nat
  BY <1>1, ConstantsAssumption
<1>3. BookOf(c) = [version |-> c.marker, rows |-> c.rows]
  BY <1>1 DEF BookOf
<1> QED
  BY <1>1, <1>2, <1>3 DEF PromisedLifecycle!Books, Empty

\* What a reader finds, by what the pages hold.
LEMMA WhatIsFound ==
  /\ ~Whole(Durable) => LifecycleBook = Odd
  /\ Whole(Durable) /\ Durable.front \in SoundBook => LifecycleBook = BookOf(Durable.front)
  /\ Whole(Durable) /\ Durable.front \in {Absent, Empty} => LifecycleBook = Empty
  /\ Whole(Durable) /\ Durable.front = Foreign => LifecycleBook = Foreign
BY Kinds DEF LifecycleBook

\* The commit that a journal and a file belong to is a step of Lifecycle, except for a
\* migration that only records what the old metadata implied: of that nothing is seen.
LEMMA FollowsSucceeds ==
  ASSUME NEW old, NEW new \in SoundBook, Follows(old, new)
  PROVE  LET b == IF old = Empty THEN Empty ELSE BookOf(old)
         IN  b = BookOf(new) \/ PromisedLifecycle!Succeeds(b, BookOf(new))
<1>1. /\ BookOf(new) = [version |-> new.marker, rows |-> new.rows]
      /\ BookOf(new) \in PromisedLifecycle!Books
  BY BookOfSound
<1>2. CASE old = Empty /\ new.rows = 0
  BY <1>1, <1>2 DEF PromisedLifecycle!Succeeds
<1>3. CASE old \in SoundBook /\ new = [old EXCEPT !.rows = @ + 1]
  <2>1. /\ BookOf(old) = [version |-> old.marker, rows |-> old.rows]
        /\ BookOf(old) \in PromisedLifecycle!Books
    BY <1>3, BookOfSound
  <2>2. new.marker = old.marker /\ new.rows = old.rows + 1
    BY <1>3 DEF SoundBook, Database
  <2>3. BookOf(new) = [BookOf(old) EXCEPT !.rows = @ + 1]
    BY <1>1, <2>1, <2>2
  <2> QED
    BY <1>1, <1>3, <2>1, <2>3, Kinds DEF PromisedLifecycle!Succeeds
<1>4. CASE old \in SoundBook /\ new.rows = old.rows /\ old.marker <= new.marker
  <2>1. /\ BookOf(old) = [version |-> old.marker, rows |-> old.rows]
        /\ BookOf(old) \in PromisedLifecycle!Books
    BY <1>4, BookOfSound
  <2>2. old.marker \in Nat /\ new.marker \in Nat
    BY <1>4, BookFields
  <2>3. CASE old.marker = new.marker
    BY <1>1, <1>4, <2>1, <2>3, Kinds
  <2>4. CASE old.marker < new.marker
    <3>1. BookOf(new).rows = BookOf(old).rows /\ BookOf(new).version > BookOf(old).version
      BY <1>1, <1>4, <2>1, <2>2, <2>4
    <3> QED
      BY <1>1, <1>4, <2>1, <3>1, Kinds DEF PromisedLifecycle!Succeeds
  <2> QED
    BY <1>4, <2>2, <2>3, <2>4
<1> QED
  BY <1>2, <1>3, <1>4 DEF Follows

\* A step that changes nothing of what is found, kept or being copied, and neither
\* leaves nor removes a commit that died, is a stutter.
LEMMA Stutter ==
  ASSUME LifecycleBook' = LifecycleBook, backups' = backups,
         LifecycleCopied' = LifecycleCopied,
         (journal # None /\ ~Committing)' <=> (journal # None /\ ~Committing)
  PROVE  UNCHANGED PromisedLifecycle!vars
BY DEF PromisedLifecycle!vars, LifecycleKept

\* A step that leaves the pages alone finds the same book as before.
LEMMA SameBook ==
  ASSUME UNCHANGED <<file, journal>>
  PROVE  Durable' = Durable /\ LifecycleBook' = LifecycleBook
BY DEF Durable, LifecycleBook, Whole

\* What is being copied and whether anybody commits, when a program goes on to next.
LEMMA GoingOn ==
  ASSUME TypeOK, NEW p \in Programs, NEW next, Continue(p, next),
         next.op # "committing"
  PROVE  /\ task[p].op # "committing" => (Committing' <=> Committing)
         /\ next.op \notin {"copying back", "downloading"} => LifecycleCopied' \subseteq LifecycleCopied
         /\ next.op \notin {"copying back", "downloading"}
            /\ task[p].op \notin {"copying back", "downloading"}
               => LifecycleCopied' = LifecycleCopied
         /\ next.op \in {"copying back", "downloading"}
            /\ task[p].op \notin {"copying back", "downloading"}
               => LifecycleCopied' = LifecycleCopied \cup {BookOf(next.front)}
<1>1. \A q \in Programs : task'[q] = IF q = p THEN next ELSE task[q]
  BY DEF TypeOK, Continue
<1>2. task[p].op # "committing" => (Committing' <=> Committing)
  BY <1>1 DEF Committing
<1> QED
  BY <1>1, <1>2 DEF LifecycleCopied

\* A program that neither copies nor commits shows nothing.
LEMMA QuietStutters ==
  ASSUME IInv, NEW p \in online, NEW next, Continue(p, next),
         UNCHANGED <<file, journal, backups>>,
         task[p].op \notin {"copying back", "downloading", "committing"},
         next.op \notin {"copying back", "downloading", "committing"}
  PROVE  UNCHANGED PromisedLifecycle!vars
<1>1. LifecycleCopied' = LifecycleCopied /\ (Committing' <=> Committing)
  BY Parts, GoingOn
<1> QED
  BY <1>1, SameBook, Stutter

\* Saving pages and writing the first new one changes nothing for a reader: a file that
\* was not there is found empty.
LEMMA BeginCommitStutters ==
  ASSUME IInv, NEW p \in online, NEW c \in SoundBook, NEW by, BeginCommit(p, c, by),
         UNCHANGED backups, task[p].op \notin {"copying back", "downloading"}
  PROVE  UNCHANGED PromisedLifecycle!vars
<1>1. PICK new : /\ Continue(p, [op |-> "committing", new |-> new, by |-> by])
                 /\ journal = None
                 /\ Durable' = IF file.front = Absent THEN Fresh(Empty) ELSE file
  BY CommitBegun
<1>2. LifecycleBook' = LifecycleBook
  <2>1. CASE file.front = Absent
    <3>1. LifecycleBook = Empty
      BY <1>1, <2>1, Parts, WhatIsFound DEF FilesSound
    <3>2. Whole(Fresh(Empty)) /\ Fresh(Empty).front = Empty
      BY Pages DEF Content
    <3>3. Durable' = Fresh(Empty)
      BY <1>1, <2>1
    <3>4. LifecycleBook' = Empty
      BY <3>2, <3>3, Kinds DEF LifecycleBook, Whole
    <3> QED
      BY <3>1, <3>4
  <2>2. CASE file.front # Absent
    <3>1. Durable' = Durable
      BY <1>1, <2>2, Parts
    <3> QED
      BY <3>1 DEF LifecycleBook, Whole
  <2> QED
    BY <2>1, <2>2
<1>3. LifecycleCopied' = LifecycleCopied /\ Committing'
  <2>1. /\ p \in Programs /\ task'[p].op = "committing"
        /\ \A q \in Programs : q # p => task'[q] = task[q]
    BY <1>1, Parts DEF Continue
  <2>2. \A q \in Programs :
          /\ task'[q].op \in {"copying back", "downloading"}
             <=> task[q].op \in {"copying back", "downloading"}
          /\ task[q].op \in {"copying back", "downloading"} => task'[q] = task[q]
    BY <2>1
  <2>3. LifecycleCopied' = LifecycleCopied
    BY <2>2 DEF LifecycleCopied
  <2> QED
    BY <2>1, <2>3 DEF Committing
<1> QED
  BY <1>1, <1>2, <1>3, Stutter

\* The end of a commit creates the database, enters a row, or moves its schema forward.
\* Where pages of different moments lie, they stay so.
LEMMA FinishCommitRefines ==
  ASSUME IInv, NEW p \in online, FinishCommit(p)
  PROVE  [PromisedLifecycle!Next]_PromisedLifecycle!vars
<1> DEFINE new == task[p].new
           old == journal.front
<1>1. /\ p \in Programs /\ task[p].op = "committing" /\ Committing
      /\ Durable' = new /\ journal' = None /\ backups' = backups
  BY Parts DEF FinishCommit, Committing, Durable
<1>2. /\ new.front \in SoundBook /\ Durable.front = old
      /\ Follows(old, new.front) /\ (Whole(new) <=> Whole(Durable))
  BY <1>1, Parts DEF CommitsFollow
<1>3. LifecycleKept' = LifecycleKept /\ LifecycleCopied' = LifecycleCopied
  <2>1. PICK next : Continue(p, next) /\ next.op \in {"verifying", "idle"}
    BY DEF FinishCommit, Idle
  <2> QED
    BY <1>1, <2>1, Parts, GoingOn DEF LifecycleKept
<1>4. CASE Whole(Durable)
  <2>1. LifecycleBook' = BookOf(new.front)
    BY <1>1, <1>2, <1>4, Kinds DEF LifecycleBook, Whole
  <2>2. LifecycleBook = IF old = Empty THEN Empty ELSE BookOf(old)
    <3>1. old = Empty \/ (old \in SoundBook /\ old # Empty)
      BY <1>2, Kinds DEF Follows
    <3> QED
      BY <1>2, <1>4, <3>1, WhatIsFound
  <2>3. CASE LifecycleBook = LifecycleBook'
    BY <1>1, <1>3, <2>3, Stutter
  <2>4. CASE PromisedLifecycle!Succeeds(LifecycleBook, LifecycleBook')
    BY <1>1, <1>3, <2>4 DEF PromisedLifecycle!Next, PromisedLifecycle!Commit
  <2> QED
    BY <1>2, <2>1, <2>2, <2>3, <2>4, FollowsSucceeds
<1>5. CASE ~Whole(Durable)
  <2>1. LifecycleBook' = Odd /\ LifecycleBook = Odd
    BY <1>1, <1>2, <1>5 DEF LifecycleBook, Whole
  <2> QED
    BY <1>1, <1>3, <2>1, Stutter
<1> QED
  BY <1>4, <1>5

\* A copy begins with a front page that a reader finds, that a commit is about to make
\* or that a backup holds.
LEMMA BeginCopyRefines ==
  ASSUME IInv, NEW p \in online, NEW next, Continue(p, next),
         next.op \in {"copying back", "downloading"}, next.front = file.front,
         task[p].op \notin {"copying back", "downloading", "committing"},
         file.front \in SoundBook, UNCHANGED <<file, journal, backups>>
  PROVE  PromisedLifecycle!BeginCopy
<1> DEFINE b == BookOf(file.front)
<1>1. LifecycleCopied' = LifecycleCopied \cup {b} /\ (Committing' <=> Committing)
  BY Parts, GoingOn
<1>2. b \in PromisedLifecycle!Books
  BY BookOfSound
<1>3. \/ b = LifecycleBook \/ PromisedLifecycle!Succeeds(LifecycleBook, b)
      \/ b \in LifecycleKept \/ LifecycleBook = Odd
  <2>1. CASE ~Whole(Durable)
    BY <2>1, WhatIsFound
  <2>2. CASE journal = None /\ Whole(Durable)
    BY <2>2, Parts, WhatIsFound
  <2>3. CASE journal # None /\ Whole(file) /\ file \in backups
    BY <2>3 DEF LifecycleKept
  <2>4. CASE journal # None /\ Whole(Durable) /\ Follows(journal.front, file.front)
    <3>1. journal.front = Empty \/ (journal.front \in SoundBook /\ journal.front # Empty)
      BY <2>4, Kinds DEF Follows
    <3>2. LifecycleBook = IF journal.front = Empty THEN Empty ELSE BookOf(journal.front)
      BY <2>4, <3>1, Parts, WhatIsFound
    <3> QED
      BY <2>4, <3>2, FollowsSucceeds
  <2> QED
    BY <2>1, <2>2, <2>3, <2>4, Parts DEF FilesSound
<1>4. b \in LifecycleCopied' /\ LifecycleKept' = LifecycleKept
  BY <1>1 DEF LifecycleKept
<1> HIDE DEF b
<1> QED
  BY <1>1, <1>2, <1>3, <1>4, SameBook DEF PromisedLifecycle!BeginCopy

\* A copy that ends whole holds what it began with.
LEMMA EndCopyRefines ==
  ASSUME IInv, NEW p \in online, NEW next, Continue(p, next),
         task[p].op \in {"copying back", "downloading"},
         next.op \notin {"copying back", "downloading", "committing"},
         UNCHANGED <<file, journal>>, NEW back,
         \/ backups' = backups
         \/ backups' = backups \cup {Image(task[p].front, task[p].rest, back)}
  PROVE  PromisedLifecycle!EndCopy
<1>1. LifecycleCopied' \subseteq LifecycleCopied /\ (Committing' <=> Committing)
  BY Parts, GoingOn
<1>2. BookOf(task[p].front) \in LifecycleCopied
  BY Parts DEF LifecycleCopied
<1>3. LifecycleKept \subseteq LifecycleKept'
  BY DEF LifecycleKept
<1>4. LifecycleKept' \subseteq LifecycleKept \cup LifecycleCopied
  <2> SUFFICES ASSUME NEW image \in backups', Whole(image), image \notin backups
               PROVE  BookOf(image.front) \in LifecycleCopied
    BY DEF LifecycleKept
  <2>1. image = Image(task[p].front, task[p].rest, back)
    OBVIOUS
  <2>2. image.front = task[p].front
    BY <2>1 DEF Image
  <2> QED
    BY <1>2, <2>2
<1> QED
  BY <1>1, <1>3, <1>4, SameBook DEF PromisedLifecycle!EndCopy

\* A program that dies leaves a copy, a commit or nothing unfinished.
LEMMA CrashRefines ==
  ASSUME IInv, NEW p \in online, Crash(p)
  PROVE  [PromisedLifecycle!Next]_PromisedLifecycle!vars
<1>1. Continue(p, Idle) /\ UNCHANGED <<file, journal>> /\ Idle.op = "idle"
  BY DEF Crash, Idle
<1>2. CASE task[p].op = "committing"
  <2>1. /\ journal # None /\ \A q \in Programs : task[q].op = "committing" => q = p
    BY <1>2, Parts DEF CommitsFollow
  <2>2. ~Committing'
    <3>1. \A q \in Programs : task'[q] = IF q = p THEN Idle ELSE task[q]
      BY <1>1, Parts DEF Continue
    <3> QED
      BY <1>1, <2>1, <3>1 DEF Committing
  <2>3. LifecycleCopied' = LifecycleCopied
    BY <1>1, <1>2, Parts, GoingOn
  <2>4. LifecycleKept' = LifecycleKept
    BY <1>2 DEF Crash, LifecycleKept
  <2> QED
    BY <1>1, <2>1, <2>2, <2>3, <2>4, SameBook
       DEF PromisedLifecycle!Next, PromisedLifecycle!Die
<1>3. CASE task[p].op \in {"copying back", "downloading"}
  <2>1. \/ backups' = backups
        \/ backups' = backups \cup {Image(task[p].front, task[p].rest, Odd)}
    BY DEF Crash
  <2> QED
    BY <1>1, <1>3, <2>1, EndCopyRefines DEF PromisedLifecycle!Next
<1>4. CASE task[p].op \notin {"copying back", "downloading", "committing"}
  BY <1>1, <1>4, QuietStutters DEF Crash
<1> QED
  BY <1>2, <1>3, <1>4

\* Putting a backup back is a Restore, unless a journal lies beside the file: then what is
\* found can be anything but a file that Lifecycle does not know.
LEMMA RestoreRefines ==
  ASSUME IInv, Restore
  PROVE  [PromisedLifecycle!Next]_PromisedLifecycle!vars
<1>1. PICK image \in backups : Whole(image) /\ file' = image
  BY DEF Restore
<1>2. /\ journal' = journal /\ backups' = backups /\ task' = task
      /\ \A p \in Programs : task[p].op = "idle"
      /\ image.front \in SoundBook /\ image.front.kind = "database"
  BY <1>1, BackupsSound, Kinds DEF Restore, Idle
<1>3. /\ LifecycleKept' = LifecycleKept /\ LifecycleCopied' = LifecycleCopied
      /\ ~Committing /\ ~Committing'
  BY <1>2 DEF LifecycleKept, LifecycleCopied, Committing
<1>4. CASE journal = None
  <2>1. Durable' = image
    BY <1>1, <1>2, <1>4 DEF Durable
  <2>2. LifecycleBook' = BookOf(image.front)
    BY <1>1, <1>2, <2>1 DEF LifecycleBook, Whole
  <2>3. LifecycleBook' \in LifecycleKept
    BY <1>1, <2>2 DEF LifecycleKept
  <2> QED
    BY <1>2, <1>3, <1>4, <2>3 DEF PromisedLifecycle!Next, PromisedLifecycle!Restore
<1>5. CASE journal # None /\ journal.back # None
  <2>1. Durable' = journal /\ Durable = journal
    BY <1>2, <1>5, Parts, DurableFields DEF Durable, TypeOK
  <2>2. LifecycleBook' = LifecycleBook
    BY <2>1 DEF LifecycleBook, Whole
  <2> QED
    BY <1>2, <1>3, <2>2, Stutter
<1>6. CASE journal # None /\ journal.back = None
  <2>1. journal.front \in SoundBook
    BY <1>6, Parts DEF FilesSound
  <2>2. Durable'.front = journal.front
    <3>1. TypeOK'
      BY RestoreKeepsIInv DEF IInv
    <3>2. Durable' = [journal EXCEPT !.back = image.back]
      BY <1>1, <1>2, <1>6 DEF Durable
    <3> QED
      BY <1>6, <3>2, Parts DEF TypeOK
  <2>3. LifecycleBook' \in PromisedLifecycle!Books \cup {Odd}
    BY <2>1, <2>2, BookOfSound, Kinds DEF LifecycleBook, Whole
  <2> QED
    BY <1>2, <1>3, <1>6, <2>3 DEF PromisedLifecycle!Next, PromisedLifecycle!RestoreBesideJournal
<1> QED
  BY <1>4, <1>5, <1>6

\* Every step of a program is a step of Lifecycle or none.
LEMMA ProgramRefines ==
  ASSUME IInv, NEW p \in online, ProgramStep(p)
  PROVE  [PromisedLifecycle!Next]_PromisedLifecycle!vars
<1>1. p \in Programs /\ task[p] \in Task
  BY Parts
<1>2. CASE CreateDatabase(p) \/ ApplyMigrations(p) \/ Write(p)
  <2>1. PICK c \in SoundBook, by \in {"init", "migrate", "user"} :
          /\ BeginCommit(p, c, by) /\ UNCHANGED backups
          /\ task[p].op \notin {"copying back", "downloading"}
    BY <1>2, CommitKinds
  <2> QED
    BY <2>1, BeginCommitStutters
<1>3. CASE FinishCommit(p)
  BY <1>3, FinishCommitRefines
<1>4. CASE CopyFront(p)
  <2> DEFINE next == [op |-> "copying back", build |-> task[p].build, from |-> task[p].from,
                      legacy |-> task[p].legacy, front |-> file.front, rest |-> file.rest]
  <2>1. file.front \in SoundBook
    BY <1>1, <1>4, Parts, Kinds DEF CopyFront, MigrationsFollow, FilesSound
  <2>2. /\ Continue(p, next) /\ UNCHANGED <<file, journal, backups>>
        /\ task[p].op = "copying front"
    BY <1>4 DEF CopyFront
  <2> QED
    BY <2>1, <2>2, BeginCopyRefines DEF PromisedLifecycle!Next
<1>5. CASE ReadFile(p)
  <2> DEFINE next == [op |-> "downloading", front |-> file.front, rest |-> file.rest]
  <2>1. file.front \in SoundBook
    BY <1>5, Parts, Kinds DEF ReadFile, FilesSound
  <2>2. /\ Continue(p, next) /\ UNCHANGED <<file, journal, backups>>
        /\ task[p].op = "idle"
    BY <1>5 DEF ReadFile, Idle
  <2> QED
    BY <2>1, <2>2, BeginCopyRefines DEF PromisedLifecycle!Next
<1>6. CASE CopyBack(p)
  <2> DEFINE next == [op |-> "migrating", build |-> task[p].build, from |-> task[p].from,
                      legacy |-> task[p].legacy]
  <2>1. /\ Continue(p, next) /\ UNCHANGED <<file, journal>> /\ task[p].op = "copying back"
        /\ backups' = backups \cup {Image(task[p].front, task[p].rest, file.back)}
    BY <1>6 DEF CopyBack
  <2> QED
    BY <2>1, EndCopyRefines DEF PromisedLifecycle!Next
<1>7. CASE SaveDownload(p)
  <2>1. PICK back : backups' = backups \cup {Image(task[p].front, task[p].rest, back)}
    BY <1>7 DEF SaveDownload
  <2>2. /\ Continue(p, Idle) /\ UNCHANGED <<file, journal>> /\ Idle.op = "idle"
        /\ task[p].op = "downloading"
    BY <1>7 DEF SaveDownload, Idle
  <2> QED
    BY <2>1, <2>2, EndCopyRefines DEF PromisedLifecycle!Next
<1>8. CASE Fail(p)
  <2>1. Continue(p, Idle) /\ UNCHANGED <<file, journal, backups>> /\ Idle.op = "idle"
        /\ task[p].op # "committing"
    BY <1>8 DEF Fail, Idle
  <2>2. CASE task[p].op \in {"copying back", "downloading"}
    BY <2>1, <2>2, EndCopyRefines DEF PromisedLifecycle!Next
  <2>3. CASE task[p].op \notin {"copying back", "downloading"}
    BY <2>1, <2>3, QuietStutters
  <2> QED
    BY <2>2, <2>3
<1>9. CASE Crash(p)
  BY <1>9, CrashRefines
<1>10. CASE \/ \E build \in Builds : InspectForInit(p, build) \/ EnsureReady(p, build)
                                   \/ InspectForMigration(p, build)
           \/ VerifyForeignKeys(p)
  <2>1. UNCHANGED <<file, journal, backups>>
    BY <1>10 DEF InspectForInit, EnsureReady, InspectForMigration, VerifyForeignKeys
  <2>2. CASE \E build \in Builds : InspectForInit(p, build)
    <3>1. PICK build \in Builds : Continue(p, [op |-> "creating", build |-> build])
      BY <2>2 DEF InspectForInit
    <3>2. task[p].op = "idle"
      BY <2>2 DEF InspectForInit, Idle
    <3> QED
      BY <2>1, <3>1, <3>2, QuietStutters
  <2>3. CASE \E build \in Builds : EnsureReady(p, build)
    <3>1. PICK build \in Builds : Continue(p, [op |-> "starting", build |-> build])
      BY <2>3 DEF EnsureReady
    <3>2. task[p].op = "idle"
      BY <2>3 DEF EnsureReady, Idle
    <3> QED
      BY <2>1, <3>1, <3>2, QuietStutters
  <2>4. CASE \E build \in Builds : InspectForMigration(p, build)
    <3>1. PICK build \in Builds : InspectForMigration(p, build)
      BY <2>4
    <3>2. Continue(p, [op |-> "copying front", build |-> build,
                       from |-> SchemaVersion(file.front),
                       legacy |-> UsesLegacyMetadata(file.front)])
      BY <3>1 DEF InspectForMigration
    <3>3. task[p] = Idle \/ task[p] = [op |-> "starting", build |-> build]
      BY <3>1 DEF InspectForMigration
    <3>4. task[p].op \notin {"copying back", "downloading", "committing"}
      <4>1. Idle.op = "idle" /\ [op |-> "starting", build |-> build].op = "starting"
        BY DEF Idle
      <4>2. task[p].op \in {"idle", "starting"}
        BY <3>3, <4>1
      <4> QED
        BY <4>2
    <3> QED
      BY <2>1, <3>2, <3>4, QuietStutters
  <2>5. CASE VerifyForeignKeys(p)
    <3>1. Continue(p, Idle) /\ Idle.op = "idle" /\ task[p].op = "verifying"
      BY <2>5 DEF VerifyForeignKeys, Idle
    <3> QED
      BY <2>1, <3>1, QuietStutters
  <2> QED
    BY <1>10, <2>2, <2>3, <2>4, <2>5
<1> QED
  BY <1>2, <1>3, <1>4, <1>5, <1>6, <1>7, <1>8, <1>9, <1>10 DEF ProgramStep, CommandStep

\* Every step is a step of Lifecycle or none.
LEMMA NextRefines == IInv /\ [Next]_vars => [PromisedLifecycle!Next]_PromisedLifecycle!vars
<1> SUFFICES ASSUME IInv, [Next]_vars
             PROVE  [PromisedLifecycle!Next]_PromisedLifecycle!vars
  OBVIOUS
<1>1. CASE UNCHANGED vars
  <2>1. LifecycleBook' = LifecycleBook /\ backups' = backups
    BY <1>1, SameBook DEF vars
  <2>2. LifecycleCopied' = LifecycleCopied
    BY <1>1 DEF vars, LifecycleCopied
  <2>3. (journal # None /\ ~Committing)' <=> (journal # None /\ ~Committing)
    BY <1>1 DEF vars, Committing
  <2> QED
    BY <2>1, <2>2, <2>3, Stutter
<1>2. CASE \E p \in online : ProgramStep(p)
  BY <1>2, ProgramRefines
<1>3. CASE RollBack
  <2>1. Durable' = Durable /\ journal' = None /\ UNCHANGED <<backups, task>>
    BY <1>3, RollBackKeepsIInv DEF RollBack
  <2>2. LifecycleBook' = LifecycleBook /\ LifecycleCopied' = LifecycleCopied
        /\ LifecycleKept' = LifecycleKept
    BY <2>1 DEF LifecycleBook, LifecycleCopied, LifecycleKept, Whole
  <2> QED
    BY <2>1, <2>2 DEF PromisedLifecycle!Next, PromisedLifecycle!Recover
<1>4. CASE Restore
  BY <1>4, RestoreRefines
<1> QED
  BY <1>1, <1>2, <1>3, <1>4 DEF Next

\* The file starts as something Lifecycle starts from.
LEMMA InitRefines == Init => PromisedLifecycle!Init
<1> SUFFICES ASSUME Init PROVE PromisedLifecycle!Init
  OBVIOUS
<1>1. PICK c \in Files : file = Fresh(c)
  BY DEF Init
<1>2. c \in Sound /\ c \in Content
  BY ConstantsAssumption, MadeAtSound, Kinds DEF Sound
<1>3. Whole(Durable) /\ Durable.front = c
  BY <1>1, <1>2, Pages DEF Init, Durable
<1>4. LifecycleBook \in PromisedLifecycle!Books \cup {Empty, Foreign}
  BY <1>2, <1>3, WhatIsFound, BookOfSound DEF Sound
<1>5. LifecycleKept = {} /\ LifecycleCopied = {}
  BY DEF Init, LifecycleKept, LifecycleCopied, Idle
<1> QED
  BY <1>4, <1>5 DEF Init, PromisedLifecycle!Init

\* The database is created once, its schema only moves forward, nothing that was entered
\* disappears and an intact backup is a state the database had or was being given, for as
\* many programs of as many builds as there may be: only Restore takes any of it back, and
\* only a restore beside the journal of a commit that died leaves anything else.
THEOREM LifecycleRefinement == Spec => ImplementsLifecycle
<1>1. Init => PromisedLifecycle!Init
  BY InitRefines
<1>2. IInv /\ [Next]_vars => [PromisedLifecycle!Next]_PromisedLifecycle!vars
  BY NextRefines
<1> QED
  BY <1>1, <1>2, Invariance, PTL DEF Spec, ImplementsLifecycle, PromisedLifecycle!Spec

===============================================================================
