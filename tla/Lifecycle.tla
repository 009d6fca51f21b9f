------------------------------- MODULE Lifecycle -------------------------------
(***************************************************************************)
(* What the database file promises whoever keeps books in it: it is        *)
(* created once, its schema only moves forward, nothing that was entered   *)
(* disappears, and an intact backup is a state that the database had, or   *)
(* was being given, when the copy began.  Only a user who puts a backup    *)
(* back makes any of it go backwards.  Who does so while a commit that     *)
(* died waits to be undone may find anything.                              *)
(***************************************************************************)
EXTENDS Naturals

CONSTANTS
    Versions,  \* the schema versions there are
    Newborn,   \* a database that has not been initialised
    Stranger,  \* a file that is not a LootSheet database
    Torn       \* a file that no program wrote like this

VARIABLES
    book,       \* what a reader of the file finds: its schema version and its rows
    kept,       \* what the intact backups hold
    copied,     \* what the copies in progress began with
    unfinished  \* a program died while it committed, and nobody opened the file since

vars == <<book, kept, copied, unfinished>>

Books == [version : Versions, rows : Nat]

Init ==
    /\ book \in Books \cup {Newborn, Stranger}
    /\ kept = {} /\ copied = {} /\ ~unfinished

\* What one commit can make of b: it creates a database, enters a row, or migrates.
Succeeds(b, c) ==
    /\ c \in Books
    /\ \/ b = Newborn /\ c.rows = 0
       \/ b \in Books /\ c = [b EXCEPT !.rows = @ + 1]
       \/ b \in Books /\ c.rows = b.rows /\ c.version > b.version

Commit ==
    /\ ~unfinished
    /\ Succeeds(book, book')
    /\ UNCHANGED <<kept, copied, unfinished>>

Die ==
    /\ unfinished' = TRUE
    /\ UNCHANGED <<book, kept, copied>>

Recover ==
    /\ unfinished' = FALSE
    /\ UNCHANGED <<book, kept, copied>>

\* A copy waits for no commit, and for no recovery of one that died.
BeginCopy ==
    /\ \E b \in copied' :
        /\ copied' = copied \cup {b} /\ b \in Books
        /\ b = book \/ Succeeds(book, b) \/ b \in kept \/ book = Torn
    /\ UNCHANGED <<book, kept, unfinished>>

EndCopy ==
    /\ copied' \subseteq copied
    /\ kept \subseteq kept' /\ kept' \subseteq kept \cup copied
    /\ UNCHANGED <<book, unfinished>>

Restore ==
    /\ ~unfinished
    /\ book' \in kept
    /\ UNCHANGED <<kept, copied, unfinished>>

RestoreBesideJournal ==
    /\ unfinished
    /\ book' \in Books \cup {Torn}
    /\ UNCHANGED <<kept, copied, unfinished>>

Next == Commit \/ Die \/ Recover \/ BeginCopy \/ EndCopy \/ Restore \/ RestoreBesideJournal

Spec == Init /\ [][Next]_vars

===============================================================================
