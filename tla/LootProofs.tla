------------------------------ MODULE LootProofs ------------------------------
(***************************************************************************)
(* Proofs about the loot and asset registers and their part of the         *)
(* journal, for any number of clients, items, appraisals and entries.      *)
(***************************************************************************)
EXTENDS Loot, SumProofs

-------------------------------------------------------------------------------
(* The inductive invariant.                                                *)

OfItem == {"listed held", "listed recognized", "selling", "sale checked", "appraising"}

\* What a running call relies on, whoever else runs: the item it works on is there; the
\* appraisal it recognizes is worth something, and as it was read; the value it sells at is
\* that of a recognized appraisal; the entry it reverses is there.
Begun(c) ==
    /\ c.op \in OfItem \cup {"sale valued", "editing", "transferring"} => IsItem(c.item)
    /\ c.op \in {"chosen", "recognizing"} =>
          IsAppraisal(c.appraisal) /\ appraisals[c.appraisal].value >= 1
    /\ c.op = "recognizing" =>
          /\ c.item = appraisals[c.appraisal].item
          /\ c.value = appraisals[c.appraisal].value
    /\ c.op = "sale valued" =>
          \E a \in RecognizedAppraisals(c.item) : c.value = appraisals[a].value
    /\ c.op = "reversing" => IsEntry(c.entry)

\* Appraisals and entries are of items, and nothing worthless is recognized.
RowsSound ==
    /\ \A a \in AppraisalIds : IsAppraisal(a) =>
          /\ IsItem(appraisals[a].item)
          /\ appraisals[a].entry # None => appraisals[a].value >= 1
    /\ \A e \in EntryIds : IsEntry(e) => IsItem(entries[e].item)

\* What a client that has the database to itself finds when its call is c: the item it
\* recognizes is still held, the one it sells still recognized.
Steady(c) ==
    /\ c.op = "listed held" => items[c.item].status = "held"
    /\ c.op \in {"chosen", "recognizing"} =>
          items[appraisals[c.appraisal].item].status = "held"
    /\ c.op \in {"listed recognized", "selling", "sale checked", "sale valued"} =>
          items[c.item].status = "recognized"

\* Such a client recognizes an item once.
RecognizedOnce == \A i \in ItemIds : \A a, b \in RecognizedAppraisals(i) : a = b

IInv ==
    /\ TypeOK
    /\ RegisterFollowsJournal
    /\ SoleInventoryMatches
    /\ RowsSound
    /\ \A s \in Clients : Begun(call[s])
    /\ SoleClient => RecognizedOnce /\ \A s \in online : Steady(call[s])

-------------------------------------------------------------------------------
(* Calls and rows.                                                         *)

\* A call is one of these records, told apart by its op.
LEMMA CallShapes ==
  ASSUME NEW c \in Call
  PROVE  /\ c.op \in OfItem \cup {"idle", "chosen", "recognizing", "sale valued", "editing",
                                  "transferring", "reversing"}
         /\ c.op = "idle" => c = Idle
         /\ c.op \in OfItem \cup {"recognizing", "sale valued", "editing", "transferring"} =>
              c.item \in ItemIds
         /\ c.op \in {"chosen", "recognizing"} => c.appraisal \in AppraisalIds
         /\ c.op \in {"recognizing", "sale valued"} => c.value \in Nat
         /\ c.op = "editing" => c.quantity \in Quantities
         /\ c.op = "transferring" => c.type \in ItemTypes
         /\ c.op = "reversing" => c.entry \in EntryIds /\ c.inventory \in Int /\ c.cash \in Int
<1> DEFINE Plain == [op : OfItem, item : ItemIds]
           Chosen1 == [op : {"chosen"}, appraisal : AppraisalIds]
           Recognizing ==
               [op : {"recognizing"}, appraisal : AppraisalIds, item : ItemIds, value : Nat]
           Valued == [op : {"sale valued"}, item : ItemIds, value : Nat]
           Editing == [op : {"editing"}, item : ItemIds, quantity : Quantities]
           Transferring == [op : {"transferring"}, item : ItemIds, type : ItemTypes]
           Reversing == [op : {"reversing"}, entry : EntryIds, inventory : Int, cash : Int]
<1>1. c \in {Idle} \cup Plain \cup Chosen1 \cup Recognizing \cup Valued \cup Editing
            \cup Transferring \cup Reversing
  BY DEF Call, OfItem
<1>2. /\ c \in Plain => c.op \in OfItem /\ c.item \in ItemIds
      /\ c \in Chosen1 => c.op = "chosen" /\ c.appraisal \in AppraisalIds
      /\ c \in Recognizing => c.op = "recognizing" /\ c.appraisal \in AppraisalIds
                              /\ c.item \in ItemIds /\ c.value \in Nat
      /\ c \in Valued => c.op = "sale valued" /\ c.item \in ItemIds /\ c.value \in Nat
      /\ c \in Editing => c.op = "editing" /\ c.item \in ItemIds /\ c.quantity \in Quantities
      /\ c \in Transferring => c.op = "transferring" /\ c.item \in ItemIds /\ c.type \in ItemTypes
      /\ c \in Reversing => c.op = "reversing" /\ c.entry \in EntryIds
                            /\ c.inventory \in Int /\ c.cash \in Int
  OBVIOUS
<1>3. Idle.op = "idle"
  BY DEF Idle
<1> HIDE DEF Plain, Chosen1, Recognizing, Valued, Editing, Transferring, Reversing
<1> QED
  BY <1>1, <1>2, <1>3 DEF OfItem

\* The calls that actions make.
LEMMA CallsMade ==
  /\ Idle \in Call /\ Idle.op = "idle"
  /\ \A op \in OfItem, i \in ItemIds : [op |-> op, item |-> i] \in Call
  /\ \A a \in AppraisalIds :
       /\ [op |-> "chosen", appraisal |-> a] \in Call
       /\ \A i \in ItemIds, v \in Nat :
            [op |-> "recognizing", appraisal |-> a, item |-> i, value |-> v] \in Call
  /\ \A i \in ItemIds :
       /\ \A v \in Nat : [op |-> "sale valued", item |-> i, value |-> v] \in Call
       /\ \A n \in Quantities : [op |-> "editing", item |-> i, quantity |-> n] \in Call
       /\ \A type \in ItemTypes : [op |-> "transferring", item |-> i, type |-> type] \in Call
  /\ \A e \in EntryIds, m, n \in Int :
       [op |-> "reversing", entry |-> e, inventory |-> m, cash |-> n] \in Call
<1>1. Idle \in Call /\ Idle.op = "idle"
  BY DEF Call, Idle
<1>2. \A op \in OfItem, i \in ItemIds : [op |-> op, item |-> i] \in Call
  BY DEF Call, OfItem
<1>3. \A a \in AppraisalIds :
       /\ [op |-> "chosen", appraisal |-> a] \in Call
       /\ \A i \in ItemIds, v \in Nat :
            [op |-> "recognizing", appraisal |-> a, item |-> i, value |-> v] \in Call
  BY DEF Call
<1>4. \A i \in ItemIds :
       /\ \A v \in Nat : [op |-> "sale valued", item |-> i, value |-> v] \in Call
       /\ \A n \in Quantities : [op |-> "editing", item |-> i, quantity |-> n] \in Call
       /\ \A type \in ItemTypes : [op |-> "transferring", item |-> i, type |-> type] \in Call
  BY DEF Call
<1>5. \A e \in EntryIds, m, n \in Int :
       [op |-> "reversing", entry |-> e, inventory |-> m, cash |-> n] \in Call
  BY DEF Call
<1> QED
  BY <1>1, <1>2, <1>3, <1>4, <1>5

\* An item's columns are written in place.
LEMMA ItemWritten ==
  ASSUME NEW item \in Item
  PROVE  /\ \A status \in LootStatus :
              /\ [item EXCEPT !.status = status] \in Item
              /\ [item EXCEPT !.status = status].status = status
         /\ \A quantity \in Quantities :
              /\ [item EXCEPT !.quantity = quantity] \in Item
              /\ [item EXCEPT !.quantity = quantity].status = item.status
         /\ \A type \in ItemTypes :
              /\ [item EXCEPT !.type = type] \in Item
              /\ [item EXCEPT !.type = type].status = item.status
BY DEF Item

\* An appraisal is linked to an entry in place.
LEMMA AppraisalLinked ==
  ASSUME NEW appraisal \in Appraisal, NEW e \in EntryIds
  PROVE  LET new == [appraisal EXCEPT !.entry = e]
         IN  new \in Appraisal /\ new.item = appraisal.item /\ new.value = appraisal.value
             /\ new.entry = e
BY DEF Appraisal

\* An entry is marked as reversed in place.
LEMMA EntryMarked ==
  ASSUME NEW entry \in Entry
  PROVE  LET new == [entry EXCEPT !.status = "reversed"]
         IN  /\ new \in Entry
             /\ new.item = entry.item /\ new.inventory = entry.inventory
             /\ new.cash = entry.cash /\ new.reverses = entry.reverses
BY DEF Entry

\* An entry is posted with what it needs.
LEMMA EntryMade ==
  ASSUME NEW item \in ItemIds, NEW inventory \in Int, NEW cash \in Int,
         NEW reverses \in EntryIds \cup {None}
  PROVE  [item |-> item, inventory |-> inventory, cash |-> cash,
          status |-> "posted", reverses |-> reverses] \in Entry
BY DEF Entry

\* No row is None.
LEMMA RowsAreNotNone ==
  ASSUME TypeOK
  PROVE  /\ \A i \in ItemIds : IsItem(i) <=> items[i] \in Item
         /\ \A a \in AppraisalIds : IsAppraisal(a) <=> appraisals[a] \in Appraisal
         /\ \A e \in EntryIds : IsEntry(e) <=> entries[e] \in Entry
BY ConstantsAssumption DEF TypeOK, IsItem, IsAppraisal, IsEntry

-------------------------------------------------------------------------------
(* A step of one client.                                                   *)

\* Items are never deleted, and appraisals and entries stay what they are for.
ItemsStay == \A i \in ItemIds : IsItem(i) => IsItem(i)'

SameAppraisal(a) ==
    /\ IsAppraisal(a)'
    /\ appraisals'[a].item = appraisals[a].item
    /\ appraisals'[a].value = appraisals[a].value
    /\ appraisals[a].entry # None => appraisals'[a].entry # None

AppraisalsStay == \A a \in AppraisalIds : IsAppraisal(a) => SameAppraisal(a)

SameDeed(e) ==
    /\ IsEntry(e)'
    /\ entries'[e].item = entries[e].item
    /\ entries'[e].inventory = entries[e].inventory
    /\ entries'[e].cash = entries[e].cash
    /\ entries'[e].reverses = entries[e].reverses

EntriesStay == \A e \in EntryIds : IsEntry(e) => SameDeed(e)

\* What has been recognized stays so.
LEMMA RecognizedStays ==
  ASSUME AppraisalsStay, NEW i \in ItemIds
  PROVE  \A a \in RecognizedAppraisals(i) :
            a \in RecognizedAppraisals(i)' /\ appraisals'[a].value = appraisals[a].value
BY DEF RecognizedAppraisals, AppraisalsOf, AppraisalsStay, SameAppraisal

\* A step of one client keeps the invariant if it keeps what the invariant says of the data
\* and of its own call: what other calls rely on stays.
LEMMA OneClient ==
  ASSUME IInv, NEW s \in online, NEW next \in Call, call' = [call EXCEPT ![s] = next],
         UNCHANGED online,
         items' \in [ItemIds -> Item \cup {None}],
         appraisals' \in [AppraisalIds -> Appraisal \cup {None}],
         entries' \in [EntryIds -> Entry \cup {None}],
         ItemsStay, AppraisalsStay, EntriesStay,
         RegisterFollowsJournal', SoleInventoryMatches', RowsSound',
         Begun(next)', SoleClient => RecognizedOnce' /\ Steady(next)'
  PROVE  IInv'
<1>0. TypeOK /\ s \in Clients
  BY DEF IInv, TypeOK
<1>1. call'[s] = next /\ \A t \in Clients \ {s} : call'[t] = call[t]
  BY <1>0 DEF TypeOK
<1>2. TypeOK'
  BY <1>0 DEF TypeOK
<1>3. ASSUME NEW t \in Clients PROVE Begun(call[t])'
  <2>1. CASE t = s
    BY <1>1, <2>1 DEF Begun
  <2>2. CASE t # s
    <3>1. PICK c \in Call : c = call[t]
      BY <1>0 DEF TypeOK
    <3>2. Begun(c) /\ call'[t] = c
      BY <1>1, <2>2, <3>1 DEF IInv
    <3>3. c.op \in OfItem \cup {"sale valued", "editing", "transferring"} => IsItem(c.item)'
      BY <3>2, CallShapes DEF Begun, ItemsStay
    <3>4. c.op \in {"chosen", "recognizing"} =>
            /\ IsAppraisal(c.appraisal)'
            /\ appraisals'[c.appraisal].item = appraisals[c.appraisal].item
            /\ appraisals'[c.appraisal].value = appraisals[c.appraisal].value
      BY <3>2, CallShapes DEF Begun, AppraisalsStay, SameAppraisal
    <3>5. c.op = "sale valued" =>
            \E a \in RecognizedAppraisals(c.item)' : c.value = appraisals'[a].value
      <4>1. SUFFICES ASSUME c.op = "sale valued"
                     PROVE  \E a \in RecognizedAppraisals(c.item)' : c.value = appraisals'[a].value
        OBVIOUS
      <4>2. c.item \in ItemIds
        BY <4>1, CallShapes
      <4>3. PICK a \in RecognizedAppraisals(c.item) : c.value = appraisals[a].value
        BY <3>2, <4>1 DEF Begun
      <4> QED
        BY <4>2, <4>3, RecognizedStays
    <3>6. c.op = "reversing" => IsEntry(c.entry)'
      BY <3>2, CallShapes DEF Begun, EntriesStay, SameDeed
    <3>7. Begun(c)'
      BY <3>2, <3>3, <3>4, <3>5, <3>6 DEF Begun
    <3> QED
      BY <3>2, <3>7 DEF Begun
  <2> QED
    BY <2>1, <2>2
<1>4. ASSUME SoleClient', NEW t \in online' PROVE RecognizedOnce' /\ Steady(call[t])'
  <2>1. SoleClient /\ t = s
    BY <1>4 DEF SoleClient
  <2> QED
    BY <1>1, <2>1 DEF Steady
<1>5. SoleClient' => RecognizedOnce'
  BY DEF SoleClient
<1> QED
  BY <1>2, <1>3, <1>4, <1>5 DEF IInv

\* What rests on the data alone stays when the data does.
LEMMA DataStays ==
  ASSUME IInv, UNCHANGED <<items, appraisals, entries, online>>
  PROVE  /\ RegisterFollowsJournal' /\ SoleInventoryMatches' /\ RowsSound'
         /\ ItemsStay /\ AppraisalsStay /\ EntriesStay
         /\ SoleClient => RecognizedOnce'
<1>1. ItemsStay /\ AppraisalsStay /\ EntriesStay
  BY DEF ItemsStay, AppraisalsStay, SameAppraisal, EntriesStay, SameDeed, IsItem, IsAppraisal, IsEntry
<1>2. RegisterFollowsJournal'
  BY DEF IInv, RegisterFollowsJournal, IsItem, IsAppraisal, IsEntry, RecognizedAppraisals,
         AppraisalsOf, EntriesOf, Recognitions
<1>3. SoleInventoryMatches'
  BY DEF IInv, SoleInventoryMatches, SoleClient, IsItem, IsAppraisal, IsEntry,
         RecognizedAppraisals, AppraisalsOf, EntriesOf, Inventory
<1>4. RowsSound'
  BY DEF IInv, RowsSound, IsItem, IsAppraisal, IsEntry
<1>5. SoleClient => RecognizedOnce'
  BY DEF IInv, RecognizedOnce, RecognizedAppraisals, AppraisalsOf, IsAppraisal
<1> QED
  BY <1>1, <1>2, <1>3, <1>4, <1>5

\* A step that only carries the call on.
LEMMA QuietStep ==
  ASSUME IInv, NEW s \in online, NEW next \in Call, Continue(s, next),
         Begun(next), SoleClient => Steady(next)
  PROVE  IInv'
<1>1. call' = [call EXCEPT ![s] = next] /\ UNCHANGED <<items, appraisals, entries, online>>
  BY DEF Continue
<1>2. Begun(next)' /\ (SoleClient => Steady(next)')
  BY <1>1 DEF Begun, Steady, IsItem, IsAppraisal, IsEntry, RecognizedAppraisals, AppraisalsOf
<1>3. TypeOK
  BY DEF IInv
<1> QED
  BY <1>1, <1>2, <1>3, DataStays, OneClient DEF TypeOK

-------------------------------------------------------------------------------
(* Each action keeps the invariant: reads.                                 *)

\* Reads at the start of a call find their item, held or recognized as they ask.
LEMMA FirstReadsKeepIInv ==
  ASSUME IInv, NEW s \in online, NEW i \in ItemIds,
         \/ \E quantity \in Quantities : ReadForUpdate(s, i, quantity)
         \/ \E type \in ItemTypes : ReadForTransfer(s, i, type)
         \/ ReadForAppraisal(s, i)
         \/ ListHeld(s, i)
         \/ ListRecognized(s, i)
  PROVE  IInv'
<1>1. ASSUME NEW quantity \in Quantities, ReadForUpdate(s, i, quantity) PROVE IInv'
  <2>1. PICK next \in Call : next = [op |-> "editing", item |-> i, quantity |-> quantity]
    BY CallsMade
  <2>2. IsItem(i) /\ Continue(s, next)
    BY <1>1, <2>1 DEF ReadForUpdate
  <2>3. Begun(next) /\ Steady(next)
    BY <2>1, <2>2 DEF Begun, Steady
  <2> QED
    BY <2>2, <2>3, QuietStep
<1>2. ASSUME NEW type \in ItemTypes, ReadForTransfer(s, i, type) PROVE IInv'
  <2>1. PICK next \in Call : next = [op |-> "transferring", item |-> i, type |-> type]
    BY CallsMade
  <2>2. IsItem(i) /\ Continue(s, next)
    BY <1>2, <2>1 DEF ReadForTransfer
  <2>3. Begun(next) /\ Steady(next)
    BY <2>1, <2>2 DEF Begun, Steady
  <2> QED
    BY <2>2, <2>3, QuietStep
<1>3. CASE ReadForAppraisal(s, i)
  <2>1. PICK next \in Call : next = [op |-> "appraising", item |-> i]
    BY CallsMade DEF OfItem
  <2>2. IsItem(i) /\ Continue(s, next)
    BY <1>3, <2>1 DEF ReadForAppraisal
  <2>3. Begun(next) /\ Steady(next)
    BY <2>1, <2>2 DEF Begun, Steady
  <2> QED
    BY <2>2, <2>3, QuietStep
<1>4. CASE ListHeld(s, i)
  <2>1. PICK next \in Call : next = [op |-> "listed held", item |-> i]
    BY CallsMade DEF OfItem
  <2>2. IsItem(i) /\ items[i].status = "held" /\ Continue(s, next)
    BY <1>4, <2>1 DEF ListHeld
  <2>3. Begun(next) /\ Steady(next)
    BY <2>1, <2>2 DEF Begun, Steady
  <2> QED
    BY <2>2, <2>3, QuietStep
<1>5. CASE ListRecognized(s, i)
  <2>1. PICK next \in Call : next = [op |-> "listed recognized", item |-> i]
    BY CallsMade DEF OfItem
  <2>2. IsItem(i) /\ items[i].status = "recognized" /\ Continue(s, next)
    BY <1>5, <2>1 DEF ListRecognized
  <2>3. Begun(next) /\ Steady(next)
    BY <2>1, <2>2 DEF Begun, Steady
  <2> QED
    BY <2>2, <2>3, QuietStep
<1> QED
  BY <1>1, <1>2, <1>3, <1>4, <1>5

\* The appraisal chosen is worth something.
LEMMA ChooseAppraisalKeepsIInv ==
  ASSUME IInv, NEW s \in online, ChooseAppraisal(s)
  PROVE  IInv'
<1>1. PICK c \in Call : c = call[s]
  BY DEF IInv, TypeOK
<1>2. c.op = "listed held" /\ Begun(c) /\ (SoleClient => Steady(c))
  BY <1>1 DEF IInv, TypeOK, ChooseAppraisal
<1>3. PICK a \in Latest(AppraisalsOf(c.item)) :
        appraisals[a].value >= 1 /\ Continue(s, [op |-> "chosen", appraisal |-> a])
  BY <1>1 DEF ChooseAppraisal
<1>4. a \in AppraisalIds /\ IsAppraisal(a) /\ appraisals[a].item = c.item
  BY DEF Latest, AppraisalsOf
<1>5. PICK next \in Call : next = [op |-> "chosen", appraisal |-> a]
  BY <1>4, CallsMade
<1>6. Begun(next)
  BY <1>3, <1>4, <1>5 DEF Begun, OfItem
<1>7. SoleClient => Steady(next)
  BY <1>2, <1>4, <1>5 DEF Steady
<1> QED
  BY <1>3, <1>5, <1>6, <1>7, QuietStep

\* What is read of the appraisal is what it is of and what it is worth.
LEMMA ReadForRecognitionKeepsIInv ==
  ASSUME IInv, NEW s \in online, ReadForRecognition(s)
  PROVE  IInv'
<1>1. PICK c \in Call : c = call[s]
  BY DEF IInv, TypeOK
<1>2. c.op = "chosen" /\ Begun(c) /\ (SoleClient => Steady(c))
  BY <1>1 DEF IInv, TypeOK, ReadForRecognition
<1>3. PICK a \in AppraisalIds : a = c.appraisal
  BY <1>2, CallShapes
<1>4. IsAppraisal(a) /\ appraisals[a].value >= 1
  BY <1>2, <1>3 DEF Begun
<1>5. appraisals[a].item \in ItemIds /\ appraisals[a].value \in Nat
  BY <1>4, RowsAreNotNone DEF IInv, Appraisal
<1>6. PICK next \in Call : next = [op |-> "recognizing", appraisal |-> a,
                                   item |-> appraisals[a].item, value |-> appraisals[a].value]
  BY <1>5, CallsMade
<1>7. Continue(s, next)
  BY <1>1, <1>3, <1>6 DEF ReadForRecognition
<1>8. Begun(next)
  BY <1>4, <1>6 DEF Begun, OfItem
<1>9. SoleClient => Steady(next)
  BY <1>2, <1>3, <1>6 DEF Steady
<1> QED
  BY <1>7, <1>8, <1>9, QuietStep

\* A sale goes on with its item.
LEMMA ConfirmRecognizedKeepsIInv ==
  ASSUME IInv, NEW s \in online, ConfirmRecognized(s) \/ ReadForSale(s)
  PROVE  IInv'
<1>1. PICK c \in Call : c = call[s]
  BY DEF IInv, TypeOK
<1>2. c.op \in {"listed recognized", "selling"} /\ Begun(c) /\ (SoleClient => Steady(c))
  BY <1>1 DEF IInv, TypeOK, ConfirmRecognized, ReadForSale
<1>3. c.item \in ItemIds /\ IsItem(c.item)
  BY <1>2, CallShapes DEF OfItem, Begun
<1>4. PICK op \in {"selling", "sale checked"} : Continue(s, [op |-> op, item |-> c.item])
  BY <1>1 DEF ConfirmRecognized, ReadForSale
<1>5. PICK next \in Call : next = [op |-> op, item |-> c.item]
  BY <1>3, CallsMade DEF OfItem
<1>6. Begun(next)
  BY <1>3, <1>5 DEF Begun
<1>7. SoleClient => Steady(next)
  BY <1>2, <1>5 DEF Steady
<1> QED
  BY <1>4, <1>5, <1>6, <1>7, QuietStep

\* The value read for the sale is that of a recognized appraisal.
LEMMA ReadRecognizedValueKeepsIInv ==
  ASSUME IInv, NEW s \in online, ReadRecognizedValue(s)
  PROVE  IInv'
<1>1. PICK c \in Call : c = call[s]
  BY DEF IInv, TypeOK
<1>2. c.op = "sale checked" /\ Begun(c) /\ (SoleClient => Steady(c))
  BY <1>1 DEF IInv, TypeOK, ReadRecognizedValue
<1>3. c.item \in ItemIds /\ IsItem(c.item)
  BY <1>2, CallShapes DEF OfItem, Begun
<1>4. PICK a \in Latest(RecognizedAppraisals(c.item)) :
        Continue(s, [op |-> "sale valued", item |-> c.item, value |-> appraisals[a].value])
  BY <1>1 DEF ReadRecognizedValue
<1>5. a \in RecognizedAppraisals(c.item) /\ a \in AppraisalIds /\ IsAppraisal(a)
  BY DEF Latest, RecognizedAppraisals, AppraisalsOf
<1>6. appraisals[a].value \in Nat
  BY <1>5, RowsAreNotNone DEF IInv, Appraisal
<1>7. PICK next \in Call :
        next = [op |-> "sale valued", item |-> c.item, value |-> appraisals[a].value]
  BY <1>3, <1>6, CallsMade
<1>8. Begun(next)
  BY <1>3, <1>5, <1>7 DEF Begun
<1>9. SoleClient => Steady(next)
  BY <1>2, <1>7 DEF Steady
<1> QED
  BY <1>4, <1>7, <1>8, <1>9, QuietStep

\* What a reversal reads is what was posted.
LEMMA ReadForReversalKeepsIInv ==
  ASSUME IInv, NEW s \in online, NEW e \in EntryIds, ReadForReversal(s, e)
  PROVE  IInv'
<1>1. IsEntry(e)
  BY DEF ReadForReversal
<1>2. entries[e].inventory \in Int /\ entries[e].cash \in Int
  BY <1>1, RowsAreNotNone DEF IInv, Entry
<1>3. PICK next \in Call : next = [op |-> "reversing", entry |-> e,
                                   inventory |-> entries[e].inventory, cash |-> entries[e].cash]
  BY <1>2, CallsMade
<1>4. Continue(s, next)
  BY <1>3 DEF ReadForReversal
<1>5. Begun(next) /\ Steady(next)
  BY <1>1, <1>3 DEF Begun, Steady, OfItem
<1> QED
  BY <1>4, <1>5, QuietStep

\* A call that fails has written nothing.
LEMMA FailKeepsIInv ==
  ASSUME IInv, NEW s \in online, Fail(s)
  PROVE  IInv'
<1>1. Idle \in Call /\ Begun(Idle) /\ Steady(Idle)
  BY CallsMade DEF Begun, Steady, OfItem
<1>2. Continue(s, Idle)
  BY DEF Fail, Reply, Continue
<1> QED
  BY <1>1, <1>2, QuietStep

-------------------------------------------------------------------------------
(* Each action keeps the invariant: the registers.                         *)

\* The register follows the journal while neither changes but by new items, which are held.
LEMMA ItemsChange ==
  ASSUME IInv, UNCHANGED <<appraisals, entries, online>>,
         items' \in [ItemIds -> Item \cup {None}], ItemsStay,
         \A i \in ItemIds : IsItem(i)' =>
            items'[i].status = IF IsItem(i) THEN items[i].status ELSE "held"
  PROVE  /\ RegisterFollowsJournal' /\ SoleInventoryMatches' /\ RowsSound'
         /\ AppraisalsStay /\ EntriesStay
         /\ SoleClient => RecognizedOnce'
<1>0. TypeOK /\ RegisterFollowsJournal /\ SoleInventoryMatches /\ RowsSound
  BY DEF IInv
<1>1. AppraisalsStay /\ EntriesStay
  BY DEF AppraisalsStay, SameAppraisal, EntriesStay, SameDeed, IsAppraisal, IsEntry
<1>2. \A i \in ItemIds : /\ RecognizedAppraisals(i)' = RecognizedAppraisals(i)
                         /\ EntriesOf(i)' = EntriesOf(i)
                         /\ Recognitions(i)' = Recognitions(i)
                         /\ Inventory(i)' = Inventory(i)
  BY DEF RecognizedAppraisals, AppraisalsOf, IsAppraisal, EntriesOf, IsEntry, Recognitions, Inventory
<1>3. ASSUME NEW i \in ItemIds, ~IsItem(i)
      PROVE  RecognizedAppraisals(i) = {} /\ Inventory(i) = 0
  <2>1. RecognizedAppraisals(i) = {}
    BY <1>0, <1>3 DEF RowsSound, RecognizedAppraisals, AppraisalsOf
  <2>2. EntriesOf(i) = {}
    BY <1>0, <1>3 DEF RowsSound, EntriesOf
  <2>3. Inventory(i) = 0
    BY <2>2, SumOfNone DEF Inventory, SumFunction
  <2> QED
    BY <2>1, <2>3
<1>4. RowsSound'
  <2>1. \A a \in AppraisalIds : IsAppraisal(a) => appraisals[a].item \in ItemIds
    BY <1>0, RowsAreNotNone DEF Appraisal
  <2>2. \A e \in EntryIds : IsEntry(e) => entries[e].item \in ItemIds
    BY <1>0, RowsAreNotNone DEF Entry
  <2> QED
    BY <1>0, <2>1, <2>2 DEF RowsSound, ItemsStay, IsAppraisal, IsEntry
<1>5. RegisterFollowsJournal'
  <2>1. ASSUME NEW i \in ItemIds, IsItem(i)'
        PROVE  /\ items'[i].status \in {"recognized", "sold"} <=> RecognizedAppraisals(i)' # {}
               /\ items'[i].status = "sold" =>
                     \E e \in EntriesOf(i)' : entries'[e].inventory < 0 /\ entries'[e].cash > 0
    BY <1>0, <1>2, <1>3, <2>1 DEF RegisterFollowsJournal
  <2>2. ASSUME NEW a \in AppraisalIds, IsAppraisal(a)', appraisals'[a].entry # None
        PROVE  /\ appraisals'[a].entry \in Recognitions(appraisals[a].item)'
               /\ entries'[appraisals'[a].entry].inventory = appraisals'[a].value
    <3>1. IsAppraisal(a) /\ appraisals[a].item \in ItemIds
      BY <1>0, <2>2, RowsAreNotNone DEF IsAppraisal, Appraisal
    <3> QED
      BY <1>0, <1>2, <2>2, <3>1 DEF RegisterFollowsJournal, Recognitions, EntriesOf, IsEntry
  <2> QED
    BY <2>1, <2>2 DEF RegisterFollowsJournal
<1>6. SoleInventoryMatches'
  <2>1. SUFFICES ASSUME SoleClient, \A e \in EntryIds : IsEntry(e) => entries[e].reverses = None,
                        NEW i \in ItemIds, IsItem(i)'
                 PROVE  IF items'[i].status = "recognized"
                        THEN \E a \in RecognizedAppraisals(i)' : Inventory(i)' = appraisals'[a].value
                        ELSE Inventory(i)' = 0
    BY DEF SoleInventoryMatches, SoleClient, IsEntry
  <2>2. CASE IsItem(i)
    <3>1. IF items[i].status = "recognized"
          THEN \E a \in RecognizedAppraisals(i) : Inventory(i) = appraisals[a].value
          ELSE Inventory(i) = 0
      BY <1>0, <2>1, <2>2 DEF SoleInventoryMatches
    <3> QED
      BY <1>2, <2>1, <2>2, <3>1
  <2>3. CASE ~IsItem(i)
    BY <1>2, <1>3, <2>1, <2>3
  <2> QED
    BY <2>2, <2>3
<1>7. SoleClient => RecognizedOnce'
  BY <1>2 DEF IInv, RecognizedOnce
<1> QED
  BY <1>1, <1>4, <1>5, <1>6, <1>7

\* A step that writes one item, and keeps its status if it had one.
LEMMA ItemStep ==
  ASSUME IInv, NEW s \in online, NEW i \in ItemIds, NEW new \in Item,
         items' = [items EXCEPT ![i] = new],
         new.status = IF IsItem(i) THEN items[i].status ELSE "held",
         call' = [call EXCEPT ![s] = Idle],
         UNCHANGED <<appraisals, entries, online>>
  PROVE  IInv'
<1>0. TypeOK
  BY DEF IInv
<1>1. /\ items' \in [ItemIds -> Item \cup {None}]
      /\ items'[i] = new /\ \A j \in ItemIds \ {i} : items'[j] = items[j]
  BY <1>0 DEF TypeOK
<1>2. ItemsStay
  BY <1>1, ConstantsAssumption DEF ItemsStay, IsItem
<1>3. ASSUME NEW j \in ItemIds, IsItem(j)'
      PROVE  items'[j].status = IF IsItem(j) THEN items[j].status ELSE "held"
  BY <1>1, <1>3 DEF IsItem
<1>4. Idle \in Call /\ Begun(Idle)' /\ Steady(Idle)'
  BY CallsMade DEF Begun, Steady, OfItem
<1>5. /\ appraisals' \in [AppraisalIds -> Appraisal \cup {None}]
      /\ entries' \in [EntryIds -> Entry \cup {None}]
  BY <1>0 DEF TypeOK
<1> QED
  BY <1>1, <1>2, <1>3, <1>4, <1>5, ItemsChange, OneClient

\* New items are held, and editing or transferring an item leaves its status alone.
LEMMA RegisterWritesKeepIInv ==
  ASSUME IInv, NEW s \in online,
         \/ \E i \in ItemIds, type \in ItemTypes, quantity \in Quantities :
               CreateLootItem(s, i, type, quantity)
         \/ CommitUpdate(s)
         \/ CommitTransfer(s)
  PROVE  IInv'
<1>0. TypeOK /\ s \in Clients
  BY DEF IInv, TypeOK
<1>1. PICK c \in Call : c = call[s]
  BY <1>0 DEF TypeOK
<1>2. Begun(c)
  BY <1>0, <1>1 DEF IInv
<1>3. ASSUME NEW i \in ItemIds, NEW type \in ItemTypes, NEW quantity \in Quantities,
             CreateLootItem(s, i, type, quantity)
      PROVE  IInv'
  <2>1. PICK new \in Item : new = [status |-> "held", type |-> type, quantity |-> quantity]
    BY DEF Item, LootStatus
  <2>2. /\ items' = [items EXCEPT ![i] = new] /\ ~IsItem(i) /\ call[s] = Idle
        /\ UNCHANGED <<appraisals, entries, online, call>>
    BY <1>3, <2>1 DEF CreateLootItem
  <2>3. call' = [call EXCEPT ![s] = Idle]
    BY <1>0, <2>2 DEF TypeOK
  <2>4. new.status = IF IsItem(i) THEN items[i].status ELSE "held"
    BY <2>1, <2>2
  <2> QED
    BY <2>2, <2>3, <2>4, ItemStep
<1>4. CASE CommitUpdate(s)
  <2>1. c.op = "editing" /\ UNCHANGED <<appraisals, entries, online>>
        /\ items' = [items EXCEPT ![c.item].quantity = c.quantity]
        /\ call' = [call EXCEPT ![s] = Idle]
    BY <1>1, <1>4 DEF CommitUpdate, Reply
  <2>2. c.item \in ItemIds /\ IsItem(c.item) /\ c.quantity \in Quantities
    BY <1>2, <2>1, CallShapes DEF Begun
  <2>3. PICK new \in Item :
          new = [items[c.item] EXCEPT !.quantity = c.quantity] /\ new.status = items[c.item].status
    BY <1>0, <2>2, RowsAreNotNone, ItemWritten
  <2>4. items' = [items EXCEPT ![c.item] = new]
    BY <1>0, <2>1, <2>2, <2>3 DEF TypeOK
  <2>5. new.status = IF IsItem(c.item) THEN items[c.item].status ELSE "held"
    BY <2>2, <2>3
  <2> QED
    BY <2>1, <2>2, <2>4, <2>5, ItemStep
<1>5. CASE CommitTransfer(s)
  <2>1. c.op = "transferring" /\ UNCHANGED <<appraisals, entries, online>>
        /\ items' = [items EXCEPT ![c.item].type = c.type]
        /\ call' = [call EXCEPT ![s] = Idle]
    BY <1>1, <1>5 DEF CommitTransfer, Reply
  <2>2. c.item \in ItemIds /\ IsItem(c.item) /\ c.type \in ItemTypes
    BY <1>2, <2>1, CallShapes DEF Begun
  <2>3. PICK new \in Item :
          new = [items[c.item] EXCEPT !.type = c.type] /\ new.status = items[c.item].status
    BY <1>0, <2>2, RowsAreNotNone, ItemWritten
  <2>4. items' = [items EXCEPT ![c.item] = new]
    BY <1>0, <2>1, <2>2, <2>3 DEF TypeOK
  <2>5. new.status = IF IsItem(c.item) THEN items[c.item].status ELSE "held"
    BY <2>2, <2>3
  <2> QED
    BY <2>1, <2>2, <2>4, <2>5, ItemStep
<1> QED
  BY <1>3, <1>4, <1>5

\* A new appraisal is not recognized yet.
LEMMA CommitAppraisalKeepsIInv ==
  ASSUME IInv, NEW s \in online, NEW value \in Values, NEW at \in Dates,
         CommitAppraisal(s, value, at)
  PROVE  IInv'
<1>0. TypeOK /\ s \in Clients /\ RegisterFollowsJournal /\ SoleInventoryMatches /\ RowsSound
  BY DEF IInv, TypeOK
<1>1. PICK c \in Call : c = call[s]
  BY <1>0 DEF TypeOK
<1>2. c.op = "appraising" /\ c.item \in ItemIds /\ IsItem(c.item)
  <2>1. c.op = "appraising" /\ Begun(c)
    BY <1>0, <1>1 DEF IInv, CommitAppraisal
  <2> QED
    BY <2>1, CallShapes DEF OfItem, Begun
<1>3. PICK new \in Appraisal : new = [item |-> c.item, value |-> value, at |-> at, entry |-> None]
  BY <1>2, ConstantsAssumption DEF Appraisal
<1>4. PICK a \in AppraisalIds : ~IsAppraisal(a) /\ appraisals' = [appraisals EXCEPT ![a] = new]
  BY <1>1, <1>3 DEF CommitAppraisal
<1>5. call' = [call EXCEPT ![s] = Idle] /\ UNCHANGED <<items, entries, online>>
  BY DEF CommitAppraisal, Reply
<1>6. /\ appraisals' \in [AppraisalIds -> Appraisal \cup {None}]
      /\ appraisals'[a] = new /\ \A b \in AppraisalIds \ {a} : appraisals'[b] = appraisals[b]
  BY <1>0, <1>4 DEF TypeOK
<1>7. ItemsStay /\ AppraisalsStay /\ EntriesStay
  BY <1>4, <1>5, <1>6 DEF ItemsStay, AppraisalsStay, SameAppraisal, EntriesStay, SameDeed, IsItem,
                          IsAppraisal, IsEntry
<1>8. new.item = c.item /\ new.entry = None
  BY <1>3
<1>9. ASSUME NEW i \in ItemIds
      PROVE  /\ RecognizedAppraisals(i)' = RecognizedAppraisals(i)
             /\ \A b \in RecognizedAppraisals(i) : appraisals'[b] = appraisals[b]
             /\ EntriesOf(i)' = EntriesOf(i)
             /\ Inventory(i)' = Inventory(i)
  <2>1. RecognizedAppraisals(i)' = RecognizedAppraisals(i)
    BY <1>4, <1>6, <1>8 DEF RecognizedAppraisals, AppraisalsOf, IsAppraisal
  <2>2. \A b \in RecognizedAppraisals(i) : appraisals'[b] = appraisals[b]
    BY <1>4, <1>6 DEF RecognizedAppraisals, AppraisalsOf
  <2>3. EntriesOf(i)' = EntriesOf(i) /\ Inventory(i)' = Inventory(i)
    BY <1>5 DEF EntriesOf, IsEntry, Inventory
  <2> QED
    BY <2>1, <2>2, <2>3
<1>10. RowsSound'
  BY <1>0, <1>2, <1>5, <1>6, <1>8 DEF RowsSound, IsItem, IsAppraisal, IsEntry
<1>11. RegisterFollowsJournal'
  <2>1. ASSUME NEW i \in ItemIds, IsItem(i)'
        PROVE  /\ items'[i].status \in {"recognized", "sold"} <=> RecognizedAppraisals(i)' # {}
               /\ items'[i].status = "sold" =>
                     \E e \in EntriesOf(i)' : entries'[e].inventory < 0 /\ entries'[e].cash > 0
    BY <1>0, <1>5, <1>9, <2>1 DEF RegisterFollowsJournal, IsItem
  <2>2. ASSUME NEW b \in AppraisalIds, IsAppraisal(b)', appraisals'[b].entry # None
        PROVE  (/\ appraisals[b].entry \in Recognitions(appraisals[b].item)
                /\ entries[appraisals[b].entry].inventory = appraisals[b].value)'
    <3>1. b # a
      BY <1>6, <1>8, <2>2
    <3>2. appraisals'[b] = appraisals[b] /\ IsAppraisal(b)
      BY <1>6, <2>2, <3>1 DEF IsAppraisal
    <3>3. /\ appraisals[b].entry \in Recognitions(appraisals[b].item)
          /\ entries[appraisals[b].entry].inventory = appraisals[b].value
      BY <1>0, <2>2, <3>2 DEF RegisterFollowsJournal
    <3> QED
      BY <1>5, <3>2, <3>3 DEF Recognitions, EntriesOf, IsEntry
  <2> QED
    BY <2>1, <2>2 DEF RegisterFollowsJournal
<1>12. SoleInventoryMatches'
  <2>1. SUFFICES ASSUME SoleClient, \A e \in EntryIds : IsEntry(e) => entries[e].reverses = None,
                        NEW i \in ItemIds, IsItem(i)
                 PROVE  IF items[i].status = "recognized"
                        THEN \E b \in RecognizedAppraisals(i)' : Inventory(i)' = appraisals'[b].value
                        ELSE Inventory(i)' = 0
    BY <1>5 DEF SoleInventoryMatches, SoleClient, IsEntry, IsItem
  <2>2. IF items[i].status = "recognized"
        THEN \E b \in RecognizedAppraisals(i) : Inventory(i) = appraisals[b].value
        ELSE Inventory(i) = 0
    BY <1>0, <2>1 DEF SoleInventoryMatches
  <2> QED
    BY <1>9, <2>2
<1>13. SoleClient => RecognizedOnce'
  BY <1>9 DEF IInv, RecognizedOnce
<1>14. Idle \in Call /\ Begun(Idle)' /\ Steady(Idle)'
  BY CallsMade DEF Begun, Steady, OfItem
<1>15. /\ items' \in [ItemIds -> Item \cup {None}]
       /\ entries' \in [EntryIds -> Entry \cup {None}]
  BY <1>0, <1>5 DEF TypeOK
<1> QED
  BY <1>5, <1>6, <1>7, <1>10, <1>11, <1>12, <1>13, <1>14, <1>15, OneClient

-------------------------------------------------------------------------------
(* Each action keeps the invariant: those that post an entry.              *)

\* Entry e is new, and original, if there is one, is what it reverses.
Posted(e, new, original) ==
    /\ entries[e] = None
    /\ entries'[e] = new
    /\ \A f \in EntryIds \ {e} :
          /\ f # original => entries'[f] = entries[f]
          /\ f = original => entries'[f] = [entries[f] EXCEPT !.status = "reversed"]

\* What the insertion of an entry does to the journal.
LEMMA InsertedIsPosted ==
  ASSUME TypeOK, NEW e \in EntryIds, NEW new \in Entry, NEW original \in EntryIds \cup {None},
         original # None => IsEntry(original),
         entries[e] = None,
         entries' = [(IF original = None THEN entries
                      ELSE [entries EXCEPT ![original].status = "reversed"]) EXCEPT ![e] = new]
  PROVE  /\ Posted(e, new, original)
         /\ entries' \in [EntryIds -> Entry \cup {None}]
<1>1. CASE original = None
  BY <1>1, ConstantsAssumption DEF Posted, TypeOK
<1>2. CASE original # None
  <2> DEFINE marked == [entries[original] EXCEPT !.status = "reversed"]
  <2>1. entries[original] \in Entry /\ original \in EntryIds
    BY <1>2, RowsAreNotNone
  <2>2. marked \in Entry
    BY <2>1, EntryMarked
  <2>3. original # e
    BY <1>2 DEF IsEntry
  <2>4. entries' = [[entries EXCEPT ![original] = marked] EXCEPT ![e] = new]
    BY <1>2, <2>1 DEF TypeOK
  <2> HIDE DEF marked
  <2>5. /\ entries'[e] = new /\ entries'[original] = marked
        /\ \A f \in EntryIds \ {e, original} : entries'[f] = entries[f]
        /\ entries' \in [EntryIds -> Entry \cup {None}]
    BY <2>1, <2>2, <2>3, <2>4 DEF TypeOK
  <2> QED
    BY <2>3, <2>5 DEF Posted, marked
<1> QED
  BY <1>1, <1>2

\* The entries of an item are those it had, and the new one if it is of the item.
LEMMA OthersStay ==
  ASSUME TypeOK, NEW e \in EntryIds, NEW new \in Entry, NEW original \in EntryIds \cup {None},
         original # None => IsEntry(original), Posted(e, new, original)
  PROVE  /\ EntriesStay
         /\ ~IsEntry(e) /\ IsEntry(e)' /\ entries'[e] = new
         /\ \A f \in EntryIds \ {e} : IsEntry(f)' <=> IsEntry(f)
         /\ \A i \in ItemIds :
               EntriesOf(i)' = EntriesOf(i) \cup (IF new.item = i THEN {e} ELSE {})
<1>1. ~IsEntry(e) /\ IsEntry(e)' /\ entries'[e] = new
  BY ConstantsAssumption DEF Posted, IsEntry
<1>2. ASSUME NEW f \in EntryIds \ {e}, IsEntry(f)
      PROVE  SameDeed(f)
  <2>1. entries[f] \in Entry
    BY <1>2, RowsAreNotNone
  <2>2. CASE f = original
    <3>1. entries'[f] = [entries[f] EXCEPT !.status = "reversed"]
      BY <2>2 DEF Posted
    <3> QED
      BY <2>1, <3>1, EntryMarked, ConstantsAssumption DEF SameDeed, IsEntry
  <2>3. CASE f # original
    BY <1>2, <2>3 DEF Posted, SameDeed, IsEntry
  <2> QED
    BY <2>2, <2>3
<1>3. ASSUME NEW f \in EntryIds \ {e}, ~IsEntry(f)
      PROVE  ~IsEntry(f)'
  BY <1>3, ConstantsAssumption DEF Posted, IsEntry
<1>4. EntriesStay
  BY <1>1, <1>2 DEF EntriesStay
<1>5. \A f \in EntryIds \ {e} : IsEntry(f)' <=> IsEntry(f)
  BY <1>2, <1>3 DEF SameDeed
<1>6. ASSUME NEW i \in ItemIds
      PROVE  EntriesOf(i)' = EntriesOf(i) \cup (IF new.item = i THEN {e} ELSE {})
  BY <1>1, <1>2, <1>5 DEF EntriesOf, SameDeed
<1> QED
  BY <1>1, <1>4, <1>5, <1>6

\* The new entry is added to what is booked for its item.
LEMMA InventoryAdds ==
  ASSUME TypeOK, NEW e \in EntryIds, NEW new \in Entry, NEW original \in EntryIds \cup {None},
         original # None => IsEntry(original), Posted(e, new, original), NEW i \in ItemIds
  PROVE  /\ Inventory(i) \in Int
         /\ Inventory(i)' = IF new.item = i THEN new.inventory + Inventory(i) ELSE Inventory(i)
<1> DEFINE D == EntriesOf(i)
           E == EntriesOf(i)'
           before == [f \in D |-> entries[f].inventory]
           after == [f \in E |-> entries'[f].inventory]
<1>1. /\ EntriesStay /\ ~IsEntry(e) /\ entries'[e] = new
      /\ E = D \cup (IF new.item = i THEN {e} ELSE {})
  BY OthersStay
<1>2. IsFiniteSet(D)
  <2>1. D \subseteq EntryIds
    BY DEF EntriesOf
  <2> QED
    BY <2>1, FS_Subset, ConstantsAssumption
<1>3. \A f \in D : f \in EntryIds /\ IsEntry(f) /\ entries[f].inventory \in Int
  BY RowsAreNotNone DEF EntriesOf, Entry
<1>4. Inventory(i) = SumFunctionOnSet(before, D) /\ Inventory(i)' = SumFunctionOnSet(after, E)
  BY DEF Inventory, SumFunction
<1>5. \A f \in D : before[f] \in Int /\ before[f] = after[f]
  BY <1>1, <1>3 DEF EntriesStay, SameDeed
<1>6. e \notin D
  BY <1>1, <1>3
<1>7. new.item = i => e \in E /\ after[e] = new.inventory /\ new.inventory \in Int
  BY <1>1 DEF Entry
<1> HIDE DEF D, E, before, after
<1>8. SumFunctionOnSet(before, D) \in Int
  BY <1>2, <1>5, SumIsInt
<1>9. SumFunctionOnSet(after, D) = SumFunctionOnSet(before, D)
  BY <1>2, <1>5, SumOfSame
<1>10. CASE new.item = i
  <2>1. E = D \cup {e} /\ \A f \in D \cup {e} : after[f] \in Int
    BY <1>1, <1>5, <1>7, <1>10
  <2>2. SumFunctionOnSet(after, D \cup {e}) = after[e] + SumFunctionOnSet(after, D)
    BY <1>2, <1>6, <2>1, SumAdds
  <2> QED
    BY <1>4, <1>7, <1>8, <1>9, <1>10, <2>1, <2>2
<1>11. CASE new.item # i
  <2>1. E = D
    BY <1>1, <1>11
  <2> QED
    BY <1>4, <1>8, <1>9, <1>11, <2>1
<1> QED
  BY <1>10, <1>11

\* A recognition books the value of the appraisal and links the two; to a client that has the
\* database to itself nothing was booked before.
LEMMA CommitRecognitionKeepsIInv ==
  ASSUME IInv, NEW s \in online, CommitRecognition(s)
  PROVE  IInv'
<1>0. TypeOK /\ s \in Clients /\ RegisterFollowsJournal /\ SoleInventoryMatches /\ RowsSound
  BY DEF IInv, TypeOK
<1>1. PICK c \in Call : c = call[s]
  BY <1>0 DEF TypeOK
<1>2. c.op = "recognizing" /\ Begun(c) /\ (SoleClient => Steady(c))
  BY <1>0, <1>1 DEF IInv, CommitRecognition
<1>3. PICK a \in AppraisalIds, i \in ItemIds, v \in Nat :
        a = c.appraisal /\ i = c.item /\ v = c.value
  BY <1>2, CallShapes
<1>4. /\ IsItem(i) /\ IsAppraisal(a) /\ appraisals[a] \in Appraisal /\ items[i] \in Item
      /\ appraisals[a].item = i /\ appraisals[a].value = v /\ v >= 1
  <2>1. IsAppraisal(a) /\ appraisals[a].item = i /\ appraisals[a].value = v /\ v >= 1
    BY <1>2, <1>3 DEF Begun
  <2>2. IsItem(i)
    BY <1>0, <2>1 DEF RowsSound
  <2> QED
    BY <1>0, <2>1, <2>2, RowsAreNotNone
<1>5. PICK new \in Entry : new = [item |-> i, inventory |-> v, cash |-> 0,
                                  status |-> "posted", reverses |-> None]
  <2>1. v \in Int /\ 0 \in Int /\ None \in EntryIds \cup {None}
    OBVIOUS
  <2>2. [item |-> i, inventory |-> v, cash |-> 0, status |-> "posted", reverses |-> None] \in Entry
    BY <2>1, EntryMade
  <2> QED
    BY <2>2
<1>6. PICK e \in EntryIds : /\ entries[e] = None
                            /\ entries' = [entries EXCEPT ![e] = new]
                            /\ appraisals' = [appraisals EXCEPT ![a].entry = e]
  BY <1>1, <1>3, <1>5 DEF CommitRecognition, Post
<1>7. /\ items' = [items EXCEPT ![i].status = "recognized"]
      /\ call' = [call EXCEPT ![s] = Idle] /\ UNCHANGED online
  BY <1>1, <1>3 DEF CommitRecognition, Reply
<1>8. PICK item \in Item : item = [items[i] EXCEPT !.status = "recognized"]
                           /\ item.status = "recognized"
  <2>1. items[i] \in Item /\ "recognized" \in LootStatus
    BY <1>4 DEF LootStatus
  <2>2. /\ [items[i] EXCEPT !.status = "recognized"] \in Item
        /\ [items[i] EXCEPT !.status = "recognized"].status = "recognized"
    BY <2>1, ItemWritten
  <2> QED
    BY <2>2
<1>9. /\ items' \in [ItemIds -> Item \cup {None}]
      /\ items'[i] = item /\ \A j \in ItemIds \ {i} : items'[j] = items[j]
  BY <1>0, <1>7, <1>8 DEF TypeOK
<1>10. PICK linked \in Appraisal :
         /\ linked = [appraisals[a] EXCEPT !.entry = e]
         /\ linked.item = i /\ linked.value = v /\ linked.entry = e
  BY <1>4, AppraisalLinked
<1>11. /\ appraisals' \in [AppraisalIds -> Appraisal \cup {None}]
       /\ appraisals'[a] = linked /\ \A b \in AppraisalIds \ {a} : appraisals'[b] = appraisals[b]
  BY <1>0, <1>6, <1>10 DEF TypeOK
<1>12. Posted(e, new, None) /\ entries' \in [EntryIds -> Entry \cup {None}]
  BY <1>0, <1>6, InsertedIsPosted
<1>13. /\ EntriesStay /\ ~IsEntry(e) /\ IsEntry(e)' /\ entries'[e] = new
       /\ \A f \in EntryIds \ {e} : IsEntry(f)' <=> IsEntry(f)
       /\ \A j \in ItemIds :
             EntriesOf(j)' = EntriesOf(j) \cup (IF new.item = j THEN {e} ELSE {})
  BY <1>0, <1>12, OthersStay
<1>14. /\ new.item = i /\ new.inventory = v /\ new.cash = 0 /\ new.reverses = None
  BY <1>5
<1>15. e # None
  BY ConstantsAssumption
<1>16. ItemsStay /\ AppraisalsStay
  <2>1. ItemsStay
    BY <1>9, ConstantsAssumption DEF ItemsStay, IsItem
  <2>2. AppraisalsStay
    BY <1>4, <1>10, <1>11, <1>15, ConstantsAssumption DEF AppraisalsStay, SameAppraisal, IsAppraisal
  <2> QED
    BY <2>1, <2>2
<1>17. ASSUME NEW j \in ItemIds
       PROVE  RecognizedAppraisals(j)' = RecognizedAppraisals(j) \cup (IF i = j THEN {a} ELSE {})
  BY <1>4, <1>10, <1>11, <1>15, ConstantsAssumption
     DEF RecognizedAppraisals, AppraisalsOf, IsAppraisal
<1>18. RowsSound'
  <2>1. ASSUME NEW b \in AppraisalIds, IsAppraisal(b)'
        PROVE  IsItem(appraisals[b].item)' /\ (appraisals'[b].entry # None => appraisals'[b].value >= 1)
    <3>1. CASE b = a
      BY <1>4, <1>10, <1>11, <1>16, <3>1 DEF ItemsStay, IsItem
    <3>2. CASE b # a
      <4>1. appraisals'[b] = appraisals[b] /\ IsAppraisal(b)
        BY <1>11, <2>1, <3>2 DEF IsAppraisal
      <4>2. appraisals[b].item \in ItemIds
        BY <1>0, <4>1, RowsAreNotNone DEF Appraisal
      <4> QED
        BY <1>0, <1>16, <4>1, <4>2 DEF RowsSound, ItemsStay, IsItem
    <3> QED
      BY <3>1, <3>2
  <2>2. ASSUME NEW f \in EntryIds, IsEntry(f)'
        PROVE  IsItem(entries[f].item)'
    <3>1. CASE f = e
      BY <1>4, <1>13, <1>14, <1>16, <3>1 DEF ItemsStay, IsItem
    <3>2. CASE f # e
      <4>1. IsEntry(f) /\ entries'[f].item = entries[f].item
        BY <1>13, <2>2, <3>2 DEF EntriesStay, SameDeed
      <4>2. entries[f].item \in ItemIds
        BY <1>0, <4>1, RowsAreNotNone DEF Entry
      <4> QED
        BY <1>0, <1>16, <4>1, <4>2 DEF RowsSound, ItemsStay, IsItem
    <3> QED
      BY <3>1, <3>2
  <2> QED
    BY <2>1, <2>2 DEF RowsSound
<1>19. RegisterFollowsJournal'
  <2>1. ASSUME NEW j \in ItemIds, IsItem(j)'
        PROVE  /\ items'[j].status \in {"recognized", "sold"} <=> RecognizedAppraisals(j)' # {}
               /\ items'[j].status = "sold" =>
                     \E f \in EntriesOf(j)' : entries'[f].inventory < 0 /\ entries'[f].cash > 0
    <3>1. CASE j = i
      BY <1>8, <1>9, <1>17, <3>1
    <3>2. CASE j # i
      <4>1. /\ items'[j] = items[j] /\ IsItem(j)
            /\ RecognizedAppraisals(j)' = RecognizedAppraisals(j)
        BY <1>9, <1>17, <2>1, <3>2 DEF IsItem
      <4>2. \A f \in EntriesOf(j) : /\ f \in EntriesOf(j)'
                                    /\ entries'[f].inventory = entries[f].inventory
                                    /\ entries'[f].cash = entries[f].cash
        BY <1>13 DEF EntriesOf, EntriesStay, SameDeed
      <4> QED
        BY <1>0, <4>1, <4>2 DEF RegisterFollowsJournal
    <3> QED
      BY <3>1, <3>2
  <2>2. ASSUME NEW b \in AppraisalIds, IsAppraisal(b)', appraisals'[b].entry # None
        PROVE  (/\ appraisals[b].entry \in Recognitions(appraisals[b].item)
                /\ entries[appraisals[b].entry].inventory = appraisals[b].value)'
    <3>1. CASE b = a
      BY <1>10, <1>11, <1>13, <1>14, <3>1 DEF Recognitions, EntriesOf, IsEntry
    <3>2. CASE b # a
      <4>1. appraisals'[b] = appraisals[b] /\ IsAppraisal(b)
        BY <1>11, <2>2, <3>2 DEF IsAppraisal
      <4>2. PICK f \in EntryIds : f = appraisals[b].entry
        BY <1>0, <2>2, <4>1, RowsAreNotNone DEF Appraisal
      <4>3. /\ IsEntry(f) /\ entries[f].item = appraisals[b].item /\ entries[f].reverses = None
            /\ entries[f].cash = 0 /\ entries[f].inventory = appraisals[b].value
        BY <1>0, <2>2, <4>1, <4>2 DEF RegisterFollowsJournal, Recognitions, EntriesOf
      <4>4. SameDeed(f)
        BY <1>13, <4>3 DEF EntriesStay
      <4> QED
        BY <4>1, <4>2, <4>3, <4>4 DEF SameDeed, Recognitions, EntriesOf, IsEntry
    <3> QED
      BY <3>1, <3>2
  <2> QED
    BY <2>1, <2>2 DEF RegisterFollowsJournal
<1>20. SoleClient => items[i].status = "held"
  BY <1>2, <1>3, <1>4 DEF Steady
<1>21. SoleClient => RecognizedAppraisals(i) = {}
  BY <1>0, <1>4, <1>20 DEF RegisterFollowsJournal
<1>22. SoleClient => RecognizedOnce'
  BY <1>17, <1>21 DEF IInv, RecognizedOnce
<1>23. SoleInventoryMatches'
  <2>1. SUFFICES ASSUME SoleClient, \A f \in EntryIds : IsEntry(f)' => entries'[f].reverses = None,
                        NEW j \in ItemIds, IsItem(j)'
                 PROVE  IF items'[j].status = "recognized"
                        THEN \E b \in RecognizedAppraisals(j)' : Inventory(j)' = appraisals'[b].value
                        ELSE Inventory(j)' = 0
    BY <1>7 DEF SoleInventoryMatches, SoleClient
  <2>2. \A f \in EntryIds : IsEntry(f) => entries[f].reverses = None
    BY <1>13, <2>1 DEF EntriesStay, SameDeed
  <2>3. \A k \in ItemIds : IsItem(k) =>
           IF items[k].status = "recognized"
           THEN \E b \in RecognizedAppraisals(k) : Inventory(k) = appraisals[b].value
           ELSE Inventory(k) = 0
    BY <1>0, <2>1, <2>2 DEF SoleInventoryMatches
  <2>4. Inventory(j)' = IF i = j THEN v + Inventory(j) ELSE Inventory(j)
    BY <1>0, <1>12, <1>14, InventoryAdds
  <2>5. CASE j = i
    <3>1. Inventory(i) = 0
      BY <1>4, <1>20, <2>1, <2>3
    <3>2. Inventory(i)' = v
      BY <2>4, <2>5, <3>1
    <3>3. a \in RecognizedAppraisals(i)' /\ appraisals'[a].value = v
      BY <1>10, <1>11, <1>17
    <3> QED
      BY <1>8, <1>9, <2>5, <3>2, <3>3
  <2>6. CASE j # i
    <3>1. /\ items'[j] = items[j] /\ IsItem(j) /\ Inventory(j)' = Inventory(j)
          /\ RecognizedAppraisals(j)' = RecognizedAppraisals(j)
      BY <1>9, <1>17, <2>1, <2>4, <2>6 DEF IsItem
    <3>2. \A b \in RecognizedAppraisals(j) : appraisals'[b].value = appraisals[b].value
      BY <1>16, RecognizedStays
    <3> QED
      BY <2>3, <3>1, <3>2
  <2> QED
    BY <2>5, <2>6
<1>24. Idle \in Call /\ Begun(Idle)' /\ Steady(Idle)'
  BY CallsMade DEF Begun, Steady, OfItem
<1> QED
  BY <1>7, <1>9, <1>11, <1>12, <1>13, <1>16, <1>18, <1>19, <1>22, <1>23, <1>24, OneClient

\* An entry that is posted while appraisals stay leaves them linked to the entries that
\* recognized them.
LEMMA LinksStay ==
  ASSUME IInv, EntriesStay, UNCHANGED appraisals
  PROVE  \A a \in AppraisalIds : IsAppraisal(a)' /\ appraisals'[a].entry # None =>
            (/\ appraisals[a].entry \in Recognitions(appraisals[a].item)
             /\ entries[appraisals[a].entry].inventory = appraisals[a].value)'
<1> SUFFICES ASSUME NEW a \in AppraisalIds, IsAppraisal(a), appraisals[a].entry # None
             PROVE  (/\ appraisals[a].entry \in Recognitions(appraisals[a].item)
                     /\ entries[appraisals[a].entry].inventory = appraisals[a].value)'
  BY DEF IsAppraisal
<1>1. PICK f \in EntryIds : f = appraisals[a].entry
  BY RowsAreNotNone DEF IInv, Appraisal
<1>2. /\ IsEntry(f) /\ entries[f].item = appraisals[a].item /\ entries[f].reverses = None
      /\ entries[f].cash = 0 /\ entries[f].inventory = appraisals[a].value
  BY <1>1 DEF IInv, RegisterFollowsJournal, Recognitions, EntriesOf
<1>3. SameDeed(f)
  BY <1>2 DEF EntriesStay
<1> QED
  BY <1>1, <1>2, <1>3 DEF SameDeed, Recognitions, EntriesOf, IsEntry

\* A sale takes off the books the value that was read, which to a client that has the database
\* to itself is all that is booked for the item.
LEMMA CommitSaleKeepsIInv ==
  ASSUME IInv, NEW s \in online, NEW price \in Prices, CommitSale(s, price)
  PROVE  IInv'
<1>0. TypeOK /\ s \in Clients /\ RegisterFollowsJournal /\ SoleInventoryMatches /\ RowsSound
  BY DEF IInv, TypeOK
<1>1. PICK c \in Call : c = call[s]
  BY <1>0 DEF TypeOK
<1>2. c.op = "sale valued" /\ Begun(c) /\ (SoleClient => Steady(c))
  BY <1>0, <1>1 DEF IInv, CommitSale
<1>3. PICK i \in ItemIds, v \in Nat : i = c.item /\ v = c.value
  BY <1>2, CallShapes
<1>4. PICK a \in RecognizedAppraisals(i) : v = appraisals[a].value
  BY <1>2, <1>3 DEF Begun
<1>5. IsItem(i) /\ items[i] \in Item /\ v >= 1
  <2>1. IsItem(i)
    BY <1>2, <1>3 DEF Begun
  <2>2. v >= 1
    BY <1>0, <1>4 DEF RowsSound, RecognizedAppraisals, AppraisalsOf
  <2> QED
    BY <1>0, <2>1, <2>2, RowsAreNotNone
<1>6. price \in Int /\ price > 0 /\ -v \in Int /\ -v < 0
  BY <1>5, ConstantsAssumption
<1>7. PICK new \in Entry : new = [item |-> i, inventory |-> -v, cash |-> price,
                                  status |-> "posted", reverses |-> None]
  <2>1. None \in EntryIds \cup {None}
    OBVIOUS
  <2>2. [item |-> i, inventory |-> -v, cash |-> price, status |-> "posted", reverses |-> None]
        \in Entry
    BY <1>6, <2>1, EntryMade
  <2> QED
    BY <2>2
<1>8. PICK e \in EntryIds : entries[e] = None /\ entries' = [entries EXCEPT ![e] = new]
  BY <1>1, <1>3, <1>7 DEF CommitSale, Post
<1>9. /\ items' = [items EXCEPT ![i].status = "sold"]
      /\ call' = [call EXCEPT ![s] = Idle] /\ UNCHANGED <<appraisals, online>>
  BY <1>1, <1>3 DEF CommitSale, Reply
<1>10. PICK item \in Item : item = [items[i] EXCEPT !.status = "sold"] /\ item.status = "sold"
  BY <1>5, ItemWritten DEF LootStatus
<1>11. /\ items' \in [ItemIds -> Item \cup {None}]
       /\ items'[i] = item /\ \A j \in ItemIds \ {i} : items'[j] = items[j]
  BY <1>0, <1>9, <1>10 DEF TypeOK
<1>12. Posted(e, new, None) /\ entries' \in [EntryIds -> Entry \cup {None}]
  BY <1>0, <1>8, InsertedIsPosted
<1>13. /\ EntriesStay /\ ~IsEntry(e) /\ IsEntry(e)' /\ entries'[e] = new
       /\ \A f \in EntryIds \ {e} : IsEntry(f)' <=> IsEntry(f)
       /\ \A j \in ItemIds :
             EntriesOf(j)' = EntriesOf(j) \cup (IF new.item = j THEN {e} ELSE {})
  BY <1>0, <1>12, OthersStay
<1>14. /\ new.item = i /\ new.inventory = -v /\ new.cash = price /\ new.reverses = None
  BY <1>7
<1>15. ItemsStay /\ AppraisalsStay
  BY <1>9, <1>11, ConstantsAssumption
     DEF ItemsStay, AppraisalsStay, SameAppraisal, IsItem, IsAppraisal
<1>16. \A j \in ItemIds : RecognizedAppraisals(j)' = RecognizedAppraisals(j)
  BY <1>9 DEF RecognizedAppraisals, AppraisalsOf, IsAppraisal
<1>17. RowsSound'
  <2>1. ASSUME NEW b \in AppraisalIds, IsAppraisal(b)
        PROVE  IsItem(appraisals[b].item)'
    <3>1. appraisals[b].item \in ItemIds /\ IsItem(appraisals[b].item)
      BY <1>0, <2>1, RowsAreNotNone DEF Appraisal, RowsSound
    <3> QED
      BY <1>9, <1>15, <3>1 DEF ItemsStay, IsItem
  <2>2. ASSUME NEW f \in EntryIds, IsEntry(f)'
        PROVE  IsItem(entries[f].item)'
    <3>1. CASE f = e
      BY <1>5, <1>13, <1>14, <1>15, <3>1 DEF ItemsStay, IsItem
    <3>2. CASE f # e
      <4>1. IsEntry(f) /\ entries'[f].item = entries[f].item
        BY <1>13, <2>2, <3>2 DEF EntriesStay, SameDeed
      <4>2. entries[f].item \in ItemIds
        BY <1>0, <4>1, RowsAreNotNone DEF Entry
      <4> QED
        BY <1>0, <1>15, <4>1, <4>2 DEF RowsSound, ItemsStay, IsItem
    <3> QED
      BY <3>1, <3>2
  <2> QED
    BY <1>0, <1>9, <2>1, <2>2 DEF RowsSound, IsAppraisal
<1>18. RegisterFollowsJournal'
  <2>1. ASSUME NEW j \in ItemIds, IsItem(j)'
        PROVE  /\ items'[j].status \in {"recognized", "sold"} <=> RecognizedAppraisals(j)' # {}
               /\ items'[j].status = "sold" =>
                     \E f \in EntriesOf(j)' : entries'[f].inventory < 0 /\ entries'[f].cash > 0
    <3>1. CASE j = i
      <4>1. e \in EntriesOf(i)'
        BY <1>13, <1>14
      <4> QED
        BY <1>4, <1>6, <1>10, <1>11, <1>13, <1>14, <1>16, <3>1, <4>1
    <3>2. CASE j # i
      <4>1. items'[j] = items[j] /\ IsItem(j)
        BY <1>11, <2>1, <3>2 DEF IsItem
      <4>2. \A f \in EntriesOf(j) : /\ f \in EntriesOf(j)'
                                    /\ entries'[f].inventory = entries[f].inventory
                                    /\ entries'[f].cash = entries[f].cash
        BY <1>13 DEF EntriesOf, EntriesStay, SameDeed
      <4> QED
        BY <1>0, <1>16, <4>1, <4>2 DEF RegisterFollowsJournal
    <3> QED
      BY <3>1, <3>2
  <2> QED
    BY <1>9, <1>13, <2>1, LinksStay DEF RegisterFollowsJournal
<1>19. SoleClient => RecognizedOnce'
  BY <1>16 DEF IInv, RecognizedOnce
<1>20. SoleInventoryMatches'
  <2>1. SUFFICES ASSUME SoleClient, \A f \in EntryIds : IsEntry(f)' => entries'[f].reverses = None,
                        NEW j \in ItemIds, IsItem(j)'
                 PROVE  IF items'[j].status = "recognized"
                        THEN \E b \in RecognizedAppraisals(j)' : Inventory(j)' = appraisals'[b].value
                        ELSE Inventory(j)' = 0
    BY <1>9 DEF SoleInventoryMatches, SoleClient
  <2>2. \A f \in EntryIds : IsEntry(f) => entries[f].reverses = None
    BY <1>13, <2>1 DEF EntriesStay, SameDeed
  <2>3. \A k \in ItemIds : IsItem(k) =>
           IF items[k].status = "recognized"
           THEN \E b \in RecognizedAppraisals(k) : Inventory(k) = appraisals[b].value
           ELSE Inventory(k) = 0
    BY <1>0, <2>1, <2>2 DEF SoleInventoryMatches
  <2>4. Inventory(j)' = IF i = j THEN -v + Inventory(j) ELSE Inventory(j)
    BY <1>0, <1>12, <1>14, InventoryAdds
  <2>5. CASE j = i
    <3>1. items[i].status = "recognized"
      BY <1>2, <1>3, <2>1 DEF Steady
    <3>2. PICK b \in RecognizedAppraisals(i) : Inventory(i) = appraisals[b].value
      BY <1>5, <2>3, <3>1
    <3>3. b = a
      BY <1>4, <2>1 DEF IInv, RecognizedOnce
    <3>4. Inventory(i)' = 0
      BY <1>4, <2>4, <2>5, <3>2, <3>3
    <3> QED
      BY <1>10, <1>11, <2>5, <3>4
  <2>6. CASE j # i
    <3>1. items'[j] = items[j] /\ IsItem(j) /\ Inventory(j)' = Inventory(j)
      BY <1>11, <2>1, <2>4, <2>6 DEF IsItem
    <3> QED
      BY <1>9, <1>16, <2>3, <3>1
  <2> QED
    BY <2>5, <2>6
<1>21. Idle \in Call /\ Begun(Idle)' /\ Steady(Idle)'
  BY CallsMade DEF Begun, Steady, OfItem
<1>22. appraisals' \in [AppraisalIds -> Appraisal \cup {None}]
  BY <1>0, <1>9 DEF TypeOK
<1> QED
  BY <1>9, <1>11, <1>12, <1>13, <1>15, <1>17, <1>18, <1>19, <1>20, <1>21, <1>22, OneClient

\* A reversal is one of the original's item; the registers are left alone.
LEMMA CommitReversalKeepsIInv ==
  ASSUME IInv, NEW s \in online, CommitReversal(s)
  PROVE  IInv'
<1>0. TypeOK /\ s \in Clients /\ RegisterFollowsJournal /\ RowsSound
  BY DEF IInv, TypeOK
<1>1. PICK c \in Call : c = call[s]
  BY <1>0 DEF TypeOK
<1>2. c.op = "reversing" /\ Begun(c)
  BY <1>0, <1>1 DEF IInv, CommitReversal
<1>3. PICK original \in EntryIds : original = c.entry
  BY <1>2, CallShapes
<1>4. IsEntry(original) /\ original # None /\ entries[original] \in Entry
  BY <1>0, <1>2, <1>3, RowsAreNotNone, ConstantsAssumption DEF Begun
<1>5. PICK i \in ItemIds : i = entries[original].item
  BY <1>4 DEF Entry
<1>6. IsItem(i)
  BY <1>0, <1>4, <1>5 DEF RowsSound
<1>7. PICK m \in Int, n \in Int : m = -c.inventory /\ n = -c.cash
  <2>1. c.inventory \in Int /\ c.cash \in Int
    BY <1>2, CallShapes
  <2>2. -c.inventory \in Int /\ -c.cash \in Int
    BY <2>1
  <2> QED
    BY <2>2
<1>8. PICK new \in Entry : new = [item |-> i, inventory |-> m, cash |-> n,
                                  status |-> "posted", reverses |-> original]
  BY EntryMade
<1>9. PICK e \in EntryIds :
        /\ entries[e] = None
        /\ entries' = [[entries EXCEPT ![original].status = "reversed"] EXCEPT ![e] = new]
  BY <1>1, <1>3, <1>5, <1>7, <1>8 DEF CommitReversal, Post
<1>10. call' = [call EXCEPT ![s] = Idle] /\ UNCHANGED <<items, appraisals, online>>
  BY <1>1, <1>3 DEF CommitReversal, Reply
<1>11. Posted(e, new, original) /\ entries' \in [EntryIds -> Entry \cup {None}]
  BY <1>0, <1>4, <1>9, InsertedIsPosted
<1>12. /\ EntriesStay /\ ~IsEntry(e) /\ IsEntry(e)' /\ entries'[e] = new
       /\ \A f \in EntryIds \ {e} : IsEntry(f)' <=> IsEntry(f)
       /\ \A j \in ItemIds :
             EntriesOf(j)' = EntriesOf(j) \cup (IF new.item = j THEN {e} ELSE {})
  BY <1>0, <1>4, <1>11, OthersStay
<1>13. new.item = i /\ new.reverses = original
  BY <1>8
<1>14. ItemsStay /\ AppraisalsStay
  BY <1>10 DEF ItemsStay, AppraisalsStay, SameAppraisal, IsItem, IsAppraisal
<1>15. \A j \in ItemIds : RecognizedAppraisals(j)' = RecognizedAppraisals(j)
  BY <1>10 DEF RecognizedAppraisals, AppraisalsOf, IsAppraisal
<1>16. RowsSound'
  <2>1. ASSUME NEW f \in EntryIds, IsEntry(f)'
        PROVE  IsItem(entries[f].item)'
    <3>1. CASE f = e
      BY <1>6, <1>10, <1>12, <1>13, <3>1 DEF IsItem
    <3>2. CASE f # e
      <4>1. IsEntry(f) /\ entries'[f].item = entries[f].item
        BY <1>12, <2>1, <3>2 DEF EntriesStay, SameDeed
      <4> QED
        BY <1>0, <1>10, <4>1 DEF RowsSound, IsItem
    <3> QED
      BY <3>1, <3>2
  <2> QED
    BY <1>0, <1>10, <2>1 DEF RowsSound, IsItem, IsAppraisal
<1>17. RegisterFollowsJournal'
  <2>1. ASSUME NEW j \in ItemIds, IsItem(j)'
        PROVE  /\ items'[j].status \in {"recognized", "sold"} <=> RecognizedAppraisals(j)' # {}
               /\ items'[j].status = "sold" =>
                     \E f \in EntriesOf(j)' : entries'[f].inventory < 0 /\ entries'[f].cash > 0
    <3>1. items'[j] = items[j] /\ IsItem(j)
      BY <1>10, <2>1 DEF IsItem
    <3>2. \A f \in EntriesOf(j) : /\ f \in EntriesOf(j)'
                                  /\ entries'[f].inventory = entries[f].inventory
                                  /\ entries'[f].cash = entries[f].cash
      BY <1>12 DEF EntriesOf, EntriesStay, SameDeed
    <3> QED
      BY <1>0, <1>15, <3>1, <3>2 DEF RegisterFollowsJournal
  <2> QED
    BY <1>10, <1>12, <2>1, LinksStay DEF RegisterFollowsJournal
<1>18. SoleClient => RecognizedOnce'
  BY <1>15 DEF IInv, RecognizedOnce
<1>19. SoleInventoryMatches'
  <2>1. ~ \A f \in EntryIds : IsEntry(f)' => entries'[f].reverses = None
    BY <1>4, <1>12, <1>13
  <2> QED
    BY <2>1 DEF SoleInventoryMatches
<1>20. Idle \in Call /\ Begun(Idle)' /\ Steady(Idle)'
  BY CallsMade DEF Begun, Steady, OfItem
<1>21. /\ items' \in [ItemIds -> Item \cup {None}]
       /\ appraisals' \in [AppraisalIds -> Appraisal \cup {None}]
  BY <1>0, <1>10 DEF TypeOK
<1> QED
  BY <1>10, <1>11, <1>12, <1>14, <1>16, <1>17, <1>18, <1>19, <1>20, <1>21, OneClient

-------------------------------------------------------------------------------
(* The theorems.                                                           *)

\* At first there are no rows.
LEMMA InitIInv == Init => IInv
<1> SUFFICES ASSUME Init PROVE IInv
  OBVIOUS
<1>1. /\ \A s \in Clients : call[s] = Idle
      /\ \A i \in ItemIds : ~IsItem(i)
      /\ \A a \in AppraisalIds : ~IsAppraisal(a)
      /\ \A e \in EntryIds : ~IsEntry(e)
      /\ online \subseteq Clients
  BY DEF Init, IsItem, IsAppraisal, IsEntry
<1>2. TypeOK
  BY CallsMade DEF Init, TypeOK
<1>3. RegisterFollowsJournal /\ SoleInventoryMatches /\ RowsSound
  BY <1>1 DEF RegisterFollowsJournal, SoleInventoryMatches, RowsSound
<1>4. RecognizedOnce
  BY <1>1 DEF RecognizedOnce, RecognizedAppraisals, AppraisalsOf
<1>5. \A s \in Clients : Begun(call[s]) /\ Steady(call[s])
  BY <1>1, CallsMade DEF Begun, Steady, OfItem
<1> QED
  BY <1>1, <1>2, <1>3, <1>4, <1>5 DEF IInv

\* Every step keeps the invariant.
LEMMA NextKeepsIInv == IInv /\ [Next]_vars => IInv'
<1> SUFFICES ASSUME IInv, [Next]_vars PROVE IInv'
  OBVIOUS
<1>1. ASSUME NEW s \in online, RegisterStep(s) PROVE IInv'
  BY <1>1, FirstReadsKeepIInv, RegisterWritesKeepIInv, CommitAppraisalKeepsIInv DEF RegisterStep
<1>2. ASSUME NEW s \in online, RecognitionStep(s) PROVE IInv'
  BY <1>2, FirstReadsKeepIInv, ChooseAppraisalKeepsIInv, ReadForRecognitionKeepsIInv,
     CommitRecognitionKeepsIInv DEF RecognitionStep
<1>3. ASSUME NEW s \in online, SaleStep(s) PROVE IInv'
  BY <1>3, FirstReadsKeepIInv, ConfirmRecognizedKeepsIInv, ReadRecognizedValueKeepsIInv,
     CommitSaleKeepsIInv DEF SaleStep
<1>4. ASSUME NEW s \in online, ReversalStep(s) PROVE IInv'
  BY <1>4, ReadForReversalKeepsIInv, CommitReversalKeepsIInv DEF ReversalStep
<1>5. ASSUME UNCHANGED vars PROVE IInv'
  <2>1. UNCHANGED <<items, appraisals, entries, online, call>>
    BY <1>5 DEF vars
  <2>2. TypeOK'
    BY <2>1 DEF IInv, TypeOK
  <2>3. \A s \in Clients : Begun(call[s])'
    BY <2>1 DEF IInv, Begun, IsItem, IsAppraisal, IsEntry, RecognizedAppraisals, AppraisalsOf
  <2>4. SoleClient' => SoleClient /\ \A s \in online' : Steady(call[s])'
    BY <2>1 DEF IInv, SoleClient, Steady
  <2> QED
    BY <2>1, <2>2, <2>3, <2>4, DataStays DEF IInv
<1> QED
  BY <1>1, <1>2, <1>3, <1>4, <1>5, FailKeepsIInv DEF Next

\* The invariant holds in every behaviour.
THEOREM Invariance == Spec => []IInv
BY InitIInv, NextKeepsIInv, PTL DEF Spec

\* Every variable keeps its type, for any number of clients, items, appraisals and entries.
THEOREM TypeCorrect == Spec => []TypeOK
<1>1. IInv => TypeOK
  BY DEF IInv
<1> QED
  BY <1>1, Invariance, PTL

\* The registers and the journal agree, however calls overlap.
THEOREM RegisterInStep == Spec => []RegisterFollowsJournal
<1>1. IInv => RegisterFollowsJournal
  BY DEF IInv
<1> QED
  BY <1>1, Invariance, PTL

\* What a client that has the database to itself books for an item is its recognized value
\* until it is sold, and nothing before and after.
THEOREM InventoryMatches == Spec => []SoleInventoryMatches
<1>1. IInv => SoleInventoryMatches
  BY DEF IInv
<1> QED
  BY <1>1, Invariance, PTL

===============================================================================
