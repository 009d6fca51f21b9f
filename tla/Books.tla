-------------------------------- MODULE Books ---------------------------------
(***************************************************************************)
(* What the journal promises, whatever the order in which clients reach    *)
(* the database: one append-only book per campaign.  An entry goes to the  *)
(* end of its campaign's book and is never rewritten; an entry is taken    *)
(* back only by appending its mirror image and striking the original.      *)
(***************************************************************************)
EXTENDS JournalLines

CONSTANT Campaigns

VARIABLES
    book,    \* the entries recorded so far
    struck   \* <<campaign, number>> of the entries that were taken back

vars == <<book, struck>>

Init ==
    /\ book = {}
    /\ struck = {}

\* e is the first entry of its campaign's book or follows the last one.
FollowsIn(e, recorded) ==
    LET own == {f \in recorded : f.campaign = e.campaign}
    IN  /\ \A f \in own : f.number < e.number
        /\ e.number = 1 \/ \E f \in own : f.number = e.number - 1

\* A fresh entry is written at the end of a book.
Record ==
    /\ \E e \in book' \ book :
          /\ book' = book \cup {e}
          /\ e.campaign \in Campaigns
          /\ e.reverses = 0
          /\ FollowsIn(e, book)
    /\ UNCHANGED struck

\* The mirror image of an entry is written, and the entry is struck.
Strike ==
    \E e \in book' \ book, f \in book :
        /\ book' = book \cup {e}
        /\ e.campaign = f.campaign
        /\ e.reverses = f.number
        /\ e.lines = Mirror(f.lines)
        /\ FollowsIn(e, book)
        /\ struck' = struck \cup {<<f.campaign, f.number>>}

Next == Record \/ Strike

Spec == Init /\ [][Next]_vars

===============================================================================
