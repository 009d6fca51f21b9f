-------------------------------- MODULE Quests --------------------------------
(***************************************************************************)
(* The quest register of one campaign and the part of its journal that     *)
(* speaks of quests: payments, write-offs, their reversals, and entries    *)
(* posted by hand with the memo of a quest payment.                        *)
(*                                                                         *)
(* An entry keeps what the register asks of it: the net effect of its      *)
(* lines on party cash (account 1000) and on failed-patron losses (5500),  *)
(* debits positive.  That entries balance, are numbered and name existing  *)
(* accounts is the subject of Ledger.  As there, each read a call makes    *)
(* outside its transaction is a step of its own, and a client whose call   *)
(* has begun works from what it has read.                                  *)
(***************************************************************************)
EXTENDS Integers, FiniteSets, Functions

CONSTANTS
    Clients,    \* the most clients there can be
    QuestIds,   \* identifiers for quests; a bound on their number
    EntryIds,   \* identifiers for journal entries; a bound on their number
    Titles,     \* titles users give to quests; a payment's memo is its title
    Rewards,    \* rewards users promise
    Payments,   \* amounts the callers of CollectQuestPayment may ask for
    HandPosted, \* cash amounts users post by hand with a payment's memo
    Seed,       \* the quests the campaign starts with
    None        \* no row with this identifier yet; no quest, no entry, no title

VARIABLES
    quests,   \* table quests
    entries,  \* tables journal_entries and journal_lines
    online,   \* the clients that work on the database
    call      \* what each client's running call has read

vars == <<quests, entries, online, call>>

QuestStatus ==
    {"offered", "accepted", "completed", "collectible", "partially_paid",
     "paid", "defaulted", "voided"}

CollectibleOrPaid == {"completed", "collectible", "partially_paid", "paid"}

Collectible == {"completed", "collectible", "partially_paid"}

\* Accepted_on, patron, notes and the partial advance decide nothing below.
Quest == [title : Titles, promised : Nat, status : QuestStatus]

Entry ==
    [quest : QuestIds \cup {None}, memo : Titles \cup {None}, cash : Int, loss : Int,
     status : {"posted", "reversed"}, reverses : EntryIds \cup {None}]

Idle == [op |-> "idle"]

Settling == [quest : QuestIds, title : Titles, promised : Nat, amount : Nat]

Call ==
    {Idle}
    \cup [op : {"listed"}, kind : {"collect", "write off"}, quest : QuestIds, amount : Nat]
    \cup [op : {"read"}, kind : {"collect", "write off"}, row : Settling]
    \cup [op : {"totalled"}, kind : {"collect", "write off"}, row : Settling, paid : Nat]
    \cup [op : {"editing"}, quest : QuestIds, title : Titles, promised : Nat]
    \cup [op : {"reversing"}, entry : EntryIds, lines : [memo : Titles \cup {None}, cash : Int, loss : Int]]

ASSUME ConstantsAssumption ==
    /\ IsFiniteSet(Clients) /\ IsFiniteSet(EntryIds)
    /\ Rewards \subseteq Nat
    /\ Payments \subseteq Nat \ {0}
    /\ HandPosted \subseteq Int
    /\ Seed \in [QuestIds -> Quest \cup {None}]
    /\ None \notin Quest /\ None \notin Entry
    /\ None \notin QuestIds /\ None \notin EntryIds /\ None \notin Titles

-------------------------------------------------------------------------------

IsQuest(q) == quests[q] # None
IsEntry(e) == entries[e] # None

\* Variants, each named for a bug, stand before the definitions they vary and are
\* used nowhere: they are the mistakes that the properties must notice.

\* Only linked entries pay for a quest.
PaysForLinkedOnly(e, q, title) == entries[e].quest = q

\* An entry pays for quest q, now named title, when it is linked to it or, being
\* linked to none, has the memo of such a payment.  The latter were written
\* before quests were linked, or by hand, or to reverse a reversal.
PaysFor(e, q, title) ==
    entries[e].quest = q \/ (entries[e].quest = None /\ entries[e].memo = title)

TotalCash(from) == SumFunction([e \in from |-> entries[e].cash])

\* The debits to party cash of the posted entries that pay for q.
QueryQuestTotalPaid(q, title) ==
    TotalCash({e \in EntryIds :
        /\ IsEntry(e)
        /\ entries[e].status = "posted"
        /\ entries[e].cash > 0
        /\ PaysFor(e, q, title)})

\* What GetQuestReceivables lists for q.
Outstanding(q) == quests[q].promised - QueryQuestTotalPaid(q, quests[q].title)

Reply(s) == call' = [call EXCEPT ![s] = Idle]

-------------------------------------------------------------------------------
(* One step of a client.                                                   *)

CreateQuest(s, q, title, promised, status) ==
    /\ call[s] = Idle
    /\ ~IsQuest(q)
    /\ status \in {"offered", "accepted"}
    /\ quests' = [quests EXCEPT ![q] = [title |-> title, promised |-> promised, status |-> status]]
    /\ UNCHANGED <<entries, online, call>>

\* UpdateQuest reads the row, and beyond `accepted` refuses another reward.
ReadForUpdate(s, q, title, promised) ==
    /\ call[s] = Idle
    /\ IsQuest(q)
    /\ quests[q].status \notin {"offered", "accepted"} => promised = quests[q].promised
    /\ call' = [call EXCEPT ![s] =
          [op |-> "editing", quest |-> q, title |-> title, promised |-> promised]]
    /\ UNCHANGED <<quests, entries, online>>

\* Then it writes the descriptive columns and the reward, not the status.
CommitUpdate(s) ==
    /\ call[s].op = "editing"
    /\ quests' = [quests EXCEPT ![call[s].quest].title = call[s].title,
                                ![call[s].quest].promised = call[s].promised]
    /\ Reply(s)
    /\ UNCHANGED <<entries, online>>

\* Only data files and test set-up finish a quest; the program has no such call.
CompleteQuest(q) ==
    /\ IsQuest(q)
    /\ quests[q].status = "accepted"
    /\ quests' = [quests EXCEPT ![q].status = "completed"]
    /\ UNCHANGED <<entries, online, call>>

\* The amount is not looked at.
ListReceivableOfAnyAmount(s, q, kind) ==
    /\ call[s] = Idle
    /\ IsQuest(q)
    /\ quests[q].status \in Collectible
    /\ call' = [call EXCEPT ![s] =
          [op |-> "listed", kind |-> kind, quest |-> q, amount |-> Outstanding(q)]]
    /\ UNCHANGED <<quests, entries, online>>

\* The screen's collect and write-off commands look the outstanding amount up;
\* collecting asks for exactly that amount.  The query of receivables looks for
\* itself at status, reward and payments; the list of quests that is read before
\* it can only keep a quest from being offered, so both are one step.
ListReceivable(s, q, kind) ==
    /\ call[s] = Idle
    /\ IsQuest(q)
    /\ quests[q].status \in Collectible
    /\ Outstanding(q) > 0
    /\ call' = [call EXCEPT ![s] =
          [op |-> "listed", kind |-> kind, quest |-> q, amount |-> Outstanding(q)]]
    /\ UNCHANGED <<quests, entries, online>>

\* CollectQuestPayment and WriteOffQuest read the quest's row first ...
ReadQuest(s, q, kind, amount) ==
    /\ IsQuest(q)
    /\ quests[q].status \in Collectible
    /\ call' = [call EXCEPT ![s] =
          [op |-> "read", kind |-> kind,
           row |-> [quest |-> q, title |-> quests[q].title,
                    promised |-> quests[q].promised, amount |-> amount]]]
    /\ UNCHANGED <<quests, entries, online>>

CollectAmount(s, q, amount) ==
    /\ call[s] = Idle
    /\ ReadQuest(s, q, "collect", amount)

SettleListed(s) ==
    /\ call[s].op = "listed"
    /\ ReadQuest(s, call[s].quest, call[s].kind, call[s].amount)

\* ... and then, with the title just read, what has been paid so far.
ReadTotalPaid(s) ==
    /\ call[s].op = "read"
    /\ LET row == call[s].row
           paid == QueryQuestTotalPaid(row.quest, row.title)
       IN  /\ call[s].kind = "write off" => row.promised > paid
           /\ call' = [call EXCEPT ![s] =
                 [op |-> "totalled", kind |-> call[s].kind, row |-> row, paid |-> paid]]
    /\ UNCHANGED <<quests, entries, online>>

InsertEntry(e, quest, memo, cash, loss, reverses, amended) ==
    /\ entries[e] = None
    /\ entries' = [amended EXCEPT ![e] =
          [quest |-> quest, memo |-> memo, cash |-> cash, loss |-> loss,
           status |-> "posted", reverses |-> reverses]]

\* The status a payment leaves the quest in, from what was read before it.
StatusAfter(row, paid) ==
    IF paid + row.amount >= row.promised /\ row.promised > 0 THEN "paid" ELSE "partially_paid"

\* The status is forgotten when the payment is posted.
CommitCollectWithoutStatus(s) ==
    /\ call[s].op = "totalled" /\ call[s].kind = "collect"
    /\ LET row == call[s].row
       IN  \E e \in EntryIds :
              InsertEntry(e, row.quest, row.title, row.amount, 0, None, entries)
    /\ Reply(s)
    /\ UNCHANGED <<quests, online>>

\* The transactions post the entry and move the quest on, whatever its status.
CommitCollect(s) ==
    /\ call[s].op = "totalled" /\ call[s].kind = "collect"
    /\ LET row == call[s].row
       IN  /\ \E e \in EntryIds :
                 InsertEntry(e, row.quest, row.title, row.amount, 0, None, entries)
           /\ quests' = [quests EXCEPT ![row.quest].status = StatusAfter(row, call[s].paid)]
    /\ Reply(s)
    /\ UNCHANGED online

CommitWriteOff(s) ==
    /\ call[s].op = "totalled" /\ call[s].kind = "write off"
    /\ LET row == call[s].row
       IN  /\ \E e \in EntryIds :
                 InsertEntry(e, row.quest, None, 0, row.promised - call[s].paid, None, entries)
           /\ quests' = [quests EXCEPT ![row.quest].status = "defaulted"]
    /\ Reply(s)
    /\ UNCHANGED online

\* A balanced entry between cash and another account, with a payment's memo.
PostByHand(s, title, cash) ==
    /\ call[s] = Idle
    /\ \E e \in EntryIds : InsertEntry(e, None, title, cash, 0, None, entries)
    /\ UNCHANGED <<quests, online, call>>

\* ReverseJournalEntry: status and lines are read, then the transaction.
ReadForReversal(s, e) ==
    /\ call[s] = Idle
    /\ IsEntry(e)
    /\ entries[e].status = "posted"
    /\ call' = [call EXCEPT ![s] =
          [op |-> "reversing", entry |-> e,
           lines |-> [memo |-> entries[e].memo, cash |-> entries[e].cash, loss |-> entries[e].loss]]]
    /\ UNCHANGED <<quests, entries, online>>

\* The reversal keeps the memos of its original but is linked to no quest, and
\* no quest is touched.
CommitReversal(s) ==
    /\ call[s].op = "reversing"
    /\ LET original == call[s].entry
           lines == call[s].lines
       IN  \E e \in EntryIds :
              InsertEntry(e, None, lines.memo, -lines.cash, -lines.loss, original,
                          [entries EXCEPT ![original].status = "reversed"])
    /\ Reply(s)
    /\ UNCHANGED <<quests, online>>

\* A call may return an error after its first read; then it has written nothing.
Fail(s) ==
    /\ call[s] # Idle
    /\ Reply(s)
    /\ UNCHANGED <<quests, entries, online>>

-------------------------------------------------------------------------------

Init ==
    /\ quests = Seed
    /\ entries = [e \in EntryIds |-> None]
    /\ online \in (SUBSET Clients) \ {{}}
    /\ call = [s \in Clients |-> Idle]

EditStep(s) ==
    \/ \E q \in QuestIds, title \in Titles, promised \in Rewards :
          \/ \E status \in QuestStatus : CreateQuest(s, q, title, promised, status)
          \/ ReadForUpdate(s, q, title, promised)
    \/ CommitUpdate(s)

SettlementStep(s) ==
    \/ \E q \in QuestIds :
          \/ \E kind \in {"collect", "write off"} : ListReceivable(s, q, kind)
          \/ \E amount \in Payments : CollectAmount(s, q, amount)
    \/ SettleListed(s)
    \/ ReadTotalPaid(s)
    \/ CommitCollect(s)
    \/ CommitWriteOff(s)

JournalStep(s) ==
    \/ \E title \in Titles, cash \in HandPosted : PostByHand(s, title, cash)
    \/ \E e \in EntryIds : ReadForReversal(s, e)
    \/ CommitReversal(s)

Next ==
    \/ \E s \in online : EditStep(s) \/ SettlementStep(s) \/ JournalStep(s) \/ Fail(s)
    \/ \E q \in QuestIds : CompleteQuest(q)

Spec == Init /\ [][Next]_vars

-------------------------------------------------------------------------------
(* What must hold.                                                         *)

SoleClient == \A s, t \in online : s = t

TypeOK ==
    /\ quests \in [QuestIds -> Quest \cup {None}]
    /\ entries \in [EntryIds -> Entry \cup {None}]
    /\ online \in SUBSET Clients
    /\ call \in [Clients -> Call]

\* The settlements of a quest: the entries its own calls posted.
Settlements(q) == {e \in EntryIds : IsEntry(e) /\ entries[e].quest = q}

\* The register and the journal agree on what has begun: a quest has payments
\* or write-offs in the journal exactly when its status says so, and its status
\* is of the kind of one of them.  However calls overlap, CollectQuestPayment
\* and WriteOffQuest post the entry and set the status in one transaction.
\* (Seed quests that were settled before are left out.)
StatusFollowsJournal ==
    \A q \in QuestIds : IsQuest(q) /\ (Seed[q] = None \/ Seed[q].status = "accepted") =>
        /\ quests[q].status \in {"paid", "partially_paid"} =>
              \E e \in Settlements(q) : entries[e].cash > 0
        /\ quests[q].status = "defaulted" =>
              \E e \in Settlements(q) : entries[e].loss > 0
        /\ Settlements(q) # {} => quests[q].status \in {"paid", "partially_paid", "defaulted"}

Reversals(e) == {r \in EntryIds : IsEntry(r) /\ entries[r].reverses = e}

\* The entry that e takes back, or restores, or takes back again.
OriginOf(e) ==
    LET origin[f \in EntryIds] ==
            IF IsEntry(f) /\ entries[f].reverses # None THEN origin[entries[f].reverses] ELSE f
    IN  origin[e]

EntriesOf(q) == {e \in EntryIds : IsEntry(e) /\ entries[OriginOf(e)].quest = q}

\* The total that decides what can still be collected is the net cash the
\* payments of the quest have brought in, also when payments were reversed, and
\* reversals were reversed, in any order: the query counts posted debits only,
\* and finds a reversed reversal again by its memo.  It needs memos that tell
\* quests apart, and no entry that two overlapping calls reversed twice.
TotalPaidIsNetCash ==
    \A q \in QuestIds :
        /\ IsQuest(q)
        /\ \A e \in EntryIds : IsEntry(e) =>
              /\ Cardinality(Reversals(e)) <= 1
              /\ entries[e].cash # 0 => (entries[e].memo = quests[q].title <=> e \in EntriesOf(q))
        => QueryQuestTotalPaid(q, quests[q].title) = TotalCash(EntriesOf(q))

\* For such a client a quest that is paid or written off stays so, at the reward
\* it was settled for, and nothing more is posted for it.
SoleClosedQuestsRest ==
    [][SoleClient =>
        \A q \in QuestIds :
            IsQuest(q) /\ quests[q].status \in {"paid", "defaulted", "voided"} =>
                /\ quests'[q].status = quests[q].status
                /\ quests'[q].promised = quests[q].promised
                /\ Settlements(q)' = Settlements(q)
      ]_vars

===============================================================================
