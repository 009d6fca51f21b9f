--------------------------------- MODULE Loot ---------------------------------
(***************************************************************************)
(* The loot and asset registers of one campaign, their appraisals, and the *)
(* journal entries that recognize and sell items.                          *)
(*                                                                         *)
(* An entry keeps the net effect of its lines on loot inventory (account   *)
(* 1200) and party cash (1000), debits positive; what is left goes to gain *)
(* or loss accounts, since entries balance (see Ledger).  Recognizing and  *)
(* selling start on a screen: the handler lists the register, checks the   *)
(* item, and calls the repository, which reads again before it writes in   *)
(* one transaction.  Each query before the transaction is a step.          *)
(***************************************************************************)
EXTENDS Integers, FiniteSets, Functions

CONSTANTS
    Clients,       \* the most clients there can be
    ItemIds,       \* identifiers for items; a bound on their number
    AppraisalIds,  \* identifiers for appraisals; a bound on their number
    EntryIds,      \* identifiers for journal entries; a bound on their number
    Values,        \* appraised values
    Prices,        \* sale amounts
    Dates,         \* the dates appraisals may bear
    Quantities,    \* quantities users give to items
    None           \* no row with this identifier yet; no entry

VARIABLES
    items,       \* table loot_items
    appraisals,  \* table loot_appraisals
    entries,     \* tables journal_entries and journal_lines
    online,      \* the clients that work on the database
    call         \* what each client's running call has read

vars == <<items, appraisals, entries, online, call>>

\* The schema also has assigned, consumed and discarded, which nothing sets.
LootStatus == {"held", "recognized", "sold"}

ItemTypes == {"loot", "asset"}

Item == [status : LootStatus, type : ItemTypes, quantity : Quantities]

Appraisal == [item : ItemIds, value : Nat, at : Dates, entry : EntryIds \cup {None}]

\* The item of an entry is kept for the properties; the code writes it into
\* the description only, and a reversal is one of the original's item.
Entry ==
    [item : ItemIds, inventory : Int, cash : Int,
     status : {"posted", "reversed"}, reverses : EntryIds \cup {None}]

Idle == [op |-> "idle"]

Call ==
    {Idle}
    \cup [op : {"listed held", "listed recognized", "selling", "sale checked", "appraising"},
          item : ItemIds]
    \cup [op : {"chosen"}, appraisal : AppraisalIds]
    \cup [op : {"recognizing"}, appraisal : AppraisalIds, item : ItemIds, value : Nat]
    \cup [op : {"sale valued"}, item : ItemIds, value : Nat]
    \cup [op : {"editing"}, item : ItemIds, quantity : Quantities]
    \cup [op : {"transferring"}, item : ItemIds, type : ItemTypes]
    \cup [op : {"reversing"}, entry : EntryIds, inventory : Int, cash : Int]

ASSUME ConstantsAssumption ==
    /\ IsFiniteSet(Clients) /\ IsFiniteSet(EntryIds)
    /\ Values \subseteq Nat
    /\ Prices \subseteq Nat \ {0}
    /\ Dates \subseteq Nat
    /\ Quantities \subseteq Nat \ {0}
    /\ None \notin Item /\ None \notin Appraisal /\ None \notin Entry /\ None \notin EntryIds

-------------------------------------------------------------------------------

IsItem(i) == items[i] # None
IsAppraisal(a) == appraisals[a] # None
IsEntry(e) == entries[e] # None

AppraisalsOf(i) == {a \in AppraisalIds : IsAppraisal(a) /\ appraisals[a].item = i}

RecognizedAppraisals(i) == {a \in AppraisalsOf(i) : appraisals[a].entry # None}

\* Queries order by date and take the first row.  Rows of one date come in the
\* order of their second-resolution time stamps and random ids, or in none.
Latest(as) == {a \in as : \A b \in as : appraisals[b].at <= appraisals[a].at}

Reply(s) == call' = [call EXCEPT ![s] = Idle]

Continue(s, next) ==
    /\ call' = [call EXCEPT ![s] = next]
    /\ UNCHANGED <<items, appraisals, entries, online>>

\* The rows of one new entry, in the transaction of the call that posts it.
Post(e, i, inventory, cash, reverses, amended) ==
    /\ entries[e] = None
    /\ entries' = [amended EXCEPT ![e] =
          [item |-> i, inventory |-> inventory, cash |-> cash,
           status |-> "posted", reverses |-> reverses]]

-------------------------------------------------------------------------------
(* The registers.                                                          *)

CreateLootItem(s, i, type, quantity) ==
    /\ call[s] = Idle
    /\ ~IsItem(i)
    /\ items' = [items EXCEPT ![i] = [status |-> "held", type |-> type, quantity |-> quantity]]
    /\ UNCHANGED <<appraisals, entries, online, call>>

\* UpdateLootItem reads the row, then writes its descriptive columns.
ReadForUpdate(s, i, quantity) ==
    /\ call[s] = Idle
    /\ IsItem(i)
    /\ items[i].status = "held" \/ quantity = items[i].quantity
    /\ Continue(s, [op |-> "editing", item |-> i, quantity |-> quantity])

CommitUpdate(s) ==
    /\ call[s].op = "editing"
    /\ items' = [items EXCEPT ![call[s].item].quantity = call[s].quantity]
    /\ Reply(s)
    /\ UNCHANGED <<appraisals, entries, online>>

ReadForTransfer(s, i, type) ==
    /\ call[s] = Idle
    /\ IsItem(i)
    /\ items[i].type # type
    /\ Continue(s, [op |-> "transferring", item |-> i, type |-> type])

CommitTransfer(s) ==
    /\ call[s].op = "transferring"
    /\ items' = [items EXCEPT ![call[s].item].type = call[s].type]
    /\ Reply(s)
    /\ UNCHANGED <<appraisals, entries, online>>

\* AppraiseLootItem: a held item, then one more row.
ReadForAppraisal(s, i) ==
    /\ call[s] = Idle
    /\ IsItem(i)
    /\ items[i].status = "held"
    /\ Continue(s, [op |-> "appraising", item |-> i])

CommitAppraisal(s, value, at) ==
    /\ call[s].op = "appraising"
    /\ \E a \in AppraisalIds :
          /\ ~IsAppraisal(a)
          /\ appraisals' = [appraisals EXCEPT ![a] =
                [item |-> call[s].item, value |-> value, at |-> at, entry |-> None]]
    /\ Reply(s)
    /\ UNCHANGED <<items, entries, online>>

-------------------------------------------------------------------------------
(* Recognizing an item.                                                    *)

\* The handler lists the register: the item must be held ...
ListHeld(s, i) ==
    /\ call[s] = Idle
    /\ IsItem(i)
    /\ items[i].status = "held"
    /\ Continue(s, [op |-> "listed held", item |-> i])

\* ... and its latest appraisal worth something and not yet recognized.
ChooseAppraisal(s) ==
    /\ call[s].op = "listed held"
    /\ items[call[s].item].status \in {"held", "recognized"}
    /\ \E a \in Latest(AppraisalsOf(call[s].item)) :
          /\ appraisals[a].value >= 1
          /\ appraisals[a].entry = None
          /\ Continue(s, [op |-> "chosen", appraisal |-> a])

\* RecognizeLootAppraisal looks at the appraisal again, not at the item.
ReadForRecognition(s) ==
    /\ call[s].op = "chosen"
    /\ LET a == call[s].appraisal
       IN  /\ appraisals[a].entry = None
           /\ Continue(s, [op |-> "recognizing", appraisal |-> a,
                           item |-> appraisals[a].item, value |-> appraisals[a].value])

\* Variants, each named for a bug, stand before the definitions they vary and are
\* used nowhere: they are the mistakes that the properties must notice.

\* The appraisal is not linked to the entry.
CommitRecognitionWithoutLink(s) ==
    /\ call[s].op = "recognizing"
    /\ \E e \in EntryIds : Post(e, call[s].item, call[s].value, 0, None, entries)
    /\ items' = [items EXCEPT ![call[s].item].status = "recognized"]
    /\ Reply(s)
    /\ UNCHANGED <<appraisals, online>>

CommitRecognition(s) ==
    /\ call[s].op = "recognizing"
    /\ \E e \in EntryIds :
          /\ Post(e, call[s].item, call[s].value, 0, None, entries)
          /\ appraisals' = [appraisals EXCEPT ![call[s].appraisal].entry = e]
    /\ items' = [items EXCEPT ![call[s].item].status = "recognized"]
    /\ Reply(s)
    /\ UNCHANGED online

-------------------------------------------------------------------------------
(* Selling an item.                                                        *)

\* The handler lists the loot register: a recognized item, not an asset ...
ListRecognized(s, i) ==
    /\ call[s] = Idle
    /\ IsItem(i)
    /\ items[i].type = "loot"
    /\ items[i].status = "recognized"
    /\ Continue(s, [op |-> "listed recognized", item |-> i])

\* ... with a recognized appraisal.
ConfirmRecognized(s) ==
    /\ call[s].op = "listed recognized"
    /\ items[call[s].item].status \in {"held", "recognized"}
    /\ RecognizedAppraisals(call[s].item) # {}
    /\ Continue(s, [op |-> "selling", item |-> call[s].item])

\* SellLootItem reads the status, then the value the item is carried at.
ReadForSale(s) ==
    /\ call[s].op = "selling"
    /\ items[call[s].item].status = "recognized"
    /\ Continue(s, [op |-> "sale checked", item |-> call[s].item])

\* The latest appraisal is taken, recognized or not.
ReadRecognizedValueOfLatest(s) ==
    /\ call[s].op = "sale checked"
    /\ \E a \in Latest(AppraisalsOf(call[s].item)) :
          Continue(s, [op |-> "sale valued", item |-> call[s].item, value |-> appraisals[a].value])

ReadRecognizedValue(s) ==
    /\ call[s].op = "sale checked"
    /\ \E a \in Latest(RecognizedAppraisals(call[s].item)) :
          Continue(s, [op |-> "sale valued", item |-> call[s].item, value |-> appraisals[a].value])

\* A sale also takes a unit, be it the last one.
CommitSaleOfUnit(s, price) ==
    /\ call[s].op = "sale valued"
    /\ \E e \in EntryIds : Post(e, call[s].item, -call[s].value, price, None, entries)
    /\ items' = [items EXCEPT ![call[s].item].status = "sold", ![call[s].item].quantity = @ - 1]
    /\ Reply(s)
    /\ UNCHANGED <<appraisals, online>>

\* Cash in, inventory out at the value read, the difference a gain or a loss.
CommitSale(s, price) ==
    /\ call[s].op = "sale valued"
    /\ \E e \in EntryIds : Post(e, call[s].item, -call[s].value, price, None, entries)
    /\ items' = [items EXCEPT ![call[s].item].status = "sold"]
    /\ Reply(s)
    /\ UNCHANGED <<appraisals, online>>

-------------------------------------------------------------------------------
(* The journal's reversal knows nothing of items.                          *)

ReadForReversal(s, e) ==
    /\ call[s] = Idle
    /\ IsEntry(e)
    /\ entries[e].status = "posted"
    /\ Continue(s, [op |-> "reversing", entry |-> e,
                    inventory |-> entries[e].inventory, cash |-> entries[e].cash])

CommitReversal(s) ==
    /\ call[s].op = "reversing"
    /\ \E e \in EntryIds :
          Post(e, entries[call[s].entry].item, -call[s].inventory, -call[s].cash, call[s].entry,
               [entries EXCEPT ![call[s].entry].status = "reversed"])
    /\ Reply(s)
    /\ UNCHANGED <<items, appraisals, online>>

\* A call may return an error after its first read; then it has written nothing.
Fail(s) ==
    /\ call[s] # Idle
    /\ Reply(s)
    /\ UNCHANGED <<items, appraisals, entries, online>>

-------------------------------------------------------------------------------

Init ==
    /\ items = [i \in ItemIds |-> None]
    /\ appraisals = [a \in AppraisalIds |-> None]
    /\ entries = [e \in EntryIds |-> None]
    /\ online \in (SUBSET Clients) \ {{}}
    /\ call = [s \in Clients |-> Idle]

RegisterStep(s) ==
    \/ \E i \in ItemIds :
          \/ \E type \in ItemTypes, quantity \in Quantities : CreateLootItem(s, i, type, quantity)
          \/ \E quantity \in Quantities : ReadForUpdate(s, i, quantity)
          \/ \E type \in ItemTypes : ReadForTransfer(s, i, type)
          \/ ReadForAppraisal(s, i)
    \/ CommitUpdate(s)
    \/ CommitTransfer(s)
    \/ \E value \in Values, at \in Dates : CommitAppraisal(s, value, at)

RecognitionStep(s) ==
    \/ \E i \in ItemIds : ListHeld(s, i)
    \/ ChooseAppraisal(s)
    \/ ReadForRecognition(s)
    \/ CommitRecognition(s)

SaleStep(s) ==
    \/ \E i \in ItemIds : ListRecognized(s, i)
    \/ ConfirmRecognized(s)
    \/ ReadForSale(s)
    \/ ReadRecognizedValue(s)
    \/ \E price \in Prices : CommitSale(s, price)

ReversalStep(s) ==
    \/ \E e \in EntryIds : ReadForReversal(s, e)
    \/ CommitReversal(s)

Next ==
    \E s \in online :
        RegisterStep(s) \/ RecognitionStep(s) \/ SaleStep(s) \/ ReversalStep(s) \/ Fail(s)

Spec == Init /\ [][Next]_vars

-------------------------------------------------------------------------------
(* What must hold.                                                         *)

SoleClient == \A s, t \in online : s = t

TypeOK ==
    /\ items \in [ItemIds -> Item \cup {None}]
    /\ appraisals \in [AppraisalIds -> Appraisal \cup {None}]
    /\ entries \in [EntryIds -> Entry \cup {None}]
    /\ online \in SUBSET Clients
    /\ call \in [Clients -> Call]

EntriesOf(i) == {e \in EntryIds : IsEntry(e) /\ entries[e].item = i}

Recognitions(i) ==
    {e \in EntriesOf(i) : entries[e].reverses = None /\ entries[e].cash = 0}

\* What is booked for item i on the inventory account.
Inventory(i) == SumFunction([e \in EntriesOf(i) |-> entries[e].inventory])

\* The registers and the journal agree however calls overlap: an item is
\* recognized or sold exactly when one of its appraisals is linked to an entry;
\* the link leads to an entry that put the item on the books at that value; and
\* a sold item has an entry that took it off.  Each commit writes the entry, the
\* link and the status in one transaction.
RegisterFollowsJournal ==
    /\ \A i \in ItemIds : IsItem(i) =>
          /\ items[i].status \in {"recognized", "sold"} <=> RecognizedAppraisals(i) # {}
          /\ items[i].status = "sold" =>
                \E e \in EntriesOf(i) : entries[e].inventory < 0 /\ entries[e].cash > 0
    /\ \A a \in AppraisalIds : IsAppraisal(a) /\ appraisals[a].entry # None =>
          /\ appraisals[a].entry \in Recognitions(appraisals[a].item)
          /\ entries[appraisals[a].entry].inventory = appraisals[a].value

\* Unless entries are reversed, what a client that has the database to itself
\* books for an item is its recognized value until it is sold and nothing
\* before and after: the sale finds the appraisal that was recognized among all.
SoleInventoryMatches ==
    SoleClient /\ (\A e \in EntryIds : IsEntry(e) => entries[e].reverses = None)
    => \A i \in ItemIds : IsItem(i) =>
          IF items[i].status = "recognized"
          THEN \E a \in RecognizedAppraisals(i) : Inventory(i) = appraisals[a].value
          ELSE Inventory(i) = 0

===============================================================================
