----------------------------- MODULE QuestsProofs -----------------------------
(***************************************************************************)
(* Proofs about the quest register and its part of the journal, for any    *)
(* number of clients, quests and entries.                                  *)
(***************************************************************************)
EXTENDS Quests, SumProofs

-------------------------------------------------------------------------------
(* The inductive invariant.                                                *)

\* What a running call relies on, whoever else runs: the quest it works on is there, there
\* is something to collect or to write off, and a reversal has the lines of its original.
Begun(c) ==
    /\ c.op = "editing" => IsQuest(c.quest)
    /\ c.op = "listed" => IsQuest(c.quest) /\ c.amount > 0
    /\ c.op \in {"read", "totalled"} => IsQuest(c.row.quest) /\ c.row.amount > 0
    /\ c.op = "totalled" /\ c.kind = "write off" => c.row.promised > c.paid
    /\ c.op = "reversing" =>
          /\ IsEntry(c.entry)
          /\ c.lines.memo = entries[c.entry].memo
          /\ c.lines.cash = entries[c.entry].cash

\* An entry that settles a quest is no reversal and takes nothing out; a reversal has the
\* opposite cash of a reversed original and its memo; a reversed entry has a reversal.
EntrySound(e) ==
    /\ entries[e].quest # None =>
          /\ IsQuest(entries[e].quest)
          /\ entries[e].cash >= 0
          /\ entries[e].reverses = None
    /\ entries[e].reverses # None =>
          /\ IsEntry(entries[e].reverses)
          /\ entries[entries[e].reverses].status = "reversed"
          /\ entries[entries[e].reverses].cash = - entries[e].cash
    /\ entries[e].status = "reversed" => Reversals(e) # {}

EntriesSound == \A e \in EntryIds : IsEntry(e) => EntrySound(e)

\* A function that leads from each entry to the one it takes back in the end.
Leads(origin) ==
    origin = [f \in EntryIds |->
        IF IsEntry(f) /\ entries[f].reverses # None THEN origin[entries[f].reverses] ELSE f]

OriginsDefined == \E origin : Leads(origin)

Closed == {"paid", "defaulted", "voided"}

\* What a client that has the database to itself finds when its call is c: the quest it
\* settles is still open, and one that is closed keeps the reward it has.
Steady(c) ==
    /\ c.op = "listed" => quests[c.quest].status \notin Closed
    /\ c.op \in {"read", "totalled"} => quests[c.row.quest].status \notin Closed
    /\ c.op = "editing" /\ quests[c.quest].status \in Closed =>
          c.promised = quests[c.quest].promised

IInv ==
    /\ TypeOK
    /\ StatusFollowsJournal
    /\ EntriesSound
    /\ OriginsDefined
    /\ \A s \in Clients : Begun(call[s])
    /\ SoleClient => \A s \in online : Steady(call[s])

-------------------------------------------------------------------------------
(* Calls and rows.                                                         *)

Kinds == {"collect", "write off"}

Lines == [memo : Titles \cup {None}, cash : Int, loss : Int]

\* A call is one of these records, told apart by its op.
LEMMA CallShapes ==
  ASSUME NEW c \in Call
  PROVE  /\ c = Idle \/ c.op \in {"listed", "read", "totalled", "editing", "reversing"}
         /\ c.op = "listed" =>
              c \in [op : {"listed"}, kind : Kinds, quest : QuestIds, amount : Nat]
         /\ c.op = "read" => c \in [op : {"read"}, kind : Kinds, row : Settling]
         /\ c.op = "totalled" =>
              c \in [op : {"totalled"}, kind : Kinds, row : Settling, paid : Nat]
         /\ c.op = "editing" =>
              c \in [op : {"editing"}, quest : QuestIds, title : Titles, promised : Nat]
         /\ c.op = "reversing" =>
              c \in [op : {"reversing"}, entry : EntryIds, lines : Lines]
<1> DEFINE Listed == [op : {"listed"}, kind : Kinds, quest : QuestIds, amount : Nat]
           Read == [op : {"read"}, kind : Kinds, row : Settling]
           Totalled == [op : {"totalled"}, kind : Kinds, row : Settling, paid : Nat]
           Editing == [op : {"editing"}, quest : QuestIds, title : Titles, promised : Nat]
           Reversing == [op : {"reversing"}, entry : EntryIds, lines : Lines]
<1>1. c \in {Idle} \cup Listed \cup Read \cup Totalled \cup Editing \cup Reversing
  BY DEF Call, Kinds, Lines
<1>2. /\ c \in Listed => c.op = "listed"
      /\ c \in Read => c.op = "read"
      /\ c \in Totalled => c.op = "totalled"
      /\ c \in Editing => c.op = "editing"
      /\ c \in Reversing => c.op = "reversing"
  OBVIOUS
<1>3. Idle.op = "idle"
  BY DEF Idle
<1> HIDE DEF Listed, Read, Totalled, Editing, Reversing
<1>4. /\ c = Idle \/ c.op \in {"listed", "read", "totalled", "editing", "reversing"}
      /\ c.op = "listed" => c \in Listed
      /\ c.op = "read" => c \in Read
      /\ c.op = "totalled" => c \in Totalled
      /\ c.op = "editing" => c \in Editing
      /\ c.op = "reversing" => c \in Reversing
  BY <1>1, <1>2, <1>3
<1> QED
  BY <1>4 DEF Listed, Read, Totalled, Editing, Reversing

\* The calls that actions make.
LEMMA CallsMade ==
  /\ Idle \in Call /\ Idle.op = "idle"
  /\ \A kind \in Kinds :
       /\ \A q \in QuestIds, n \in Nat :
            [op |-> "listed", kind |-> kind, quest |-> q, amount |-> n] \in Call
       /\ \A row \in Settling :
            /\ [op |-> "read", kind |-> kind, row |-> row] \in Call
            /\ \A n \in Nat : [op |-> "totalled", kind |-> kind, row |-> row, paid |-> n] \in Call
  /\ \A q \in QuestIds, title \in Titles, n \in Nat :
       [op |-> "editing", quest |-> q, title |-> title, promised |-> n] \in Call
  /\ \A e \in EntryIds, lines \in Lines : [op |-> "reversing", entry |-> e, lines |-> lines] \in Call
BY DEF Call, Idle, Kinds, Lines

\* A quest's status is written in place.
LEMMA StatusWritten ==
  ASSUME NEW row \in Quest, NEW status \in QuestStatus
  PROVE  LET new == [row EXCEPT !.status = status]
         IN  new \in Quest /\ new.status = status /\ new.title = row.title
             /\ new.promised = row.promised
BY DEF Quest

\* So are its title and its reward.
LEMMA RowWritten ==
  ASSUME NEW row \in Quest, NEW title \in Titles, NEW promised \in Nat
  PROVE  LET new == [row EXCEPT !.title = title, !.promised = promised]
         IN  new \in Quest /\ new.status = row.status /\ new.title = title
             /\ new.promised = promised
BY DEF Quest

\* An entry is marked as reversed in place.
LEMMA EntryMarked ==
  ASSUME NEW entry \in Entry
  PROVE  LET new == [entry EXCEPT !.status = "reversed"]
         IN  /\ new \in Entry /\ new.status = "reversed"
             /\ new.quest = entry.quest /\ new.memo = entry.memo /\ new.cash = entry.cash
             /\ new.loss = entry.loss /\ new.reverses = entry.reverses
BY DEF Entry

\* An entry is posted with what it needs.
LEMMA EntryMade ==
  ASSUME NEW quest \in QuestIds \cup {None}, NEW memo \in Titles \cup {None},
         NEW cash \in Int, NEW loss \in Int, NEW reverses \in EntryIds \cup {None}
  PROVE  [quest |-> quest, memo |-> memo, cash |-> cash, loss |-> loss,
          status |-> "posted", reverses |-> reverses] \in Entry
BY DEF Entry

\* No row is None.
LEMMA RowsAreNotNone ==
  ASSUME TypeOK
  PROVE  /\ \A q \in QuestIds : IsQuest(q) <=> quests[q] \in Quest
         /\ \A e \in EntryIds : IsEntry(e) <=> entries[e] \in Entry
BY ConstantsAssumption DEF TypeOK, IsQuest, IsEntry

\* What a quest has been paid is a natural number.
LEMMA TotalPaidIsNat ==
  ASSUME TypeOK, NEW q \in QuestIds, NEW title \in Titles
  PROVE  QueryQuestTotalPaid(q, title) \in Nat
<1> DEFINE P == {e \in EntryIds :
                   /\ IsEntry(e)
                   /\ entries[e].status = "posted"
                   /\ entries[e].cash > 0
                   /\ PaysFor(e, q, title)}
           f == [e \in P |-> entries[e].cash]
<1>1. IsFiniteSet(P)
  <2>1. P \subseteq EntryIds
    OBVIOUS
  <2> HIDE DEF P
  <2> QED
    BY <2>1, FS_Subset, ConstantsAssumption
<1>2. \A e \in P : f[e] \in Nat
  <2>1. ASSUME NEW e \in P PROVE entries[e].cash \in Nat
    <3>1. entries[e].cash \in Int /\ entries[e].cash > 0
      BY RowsAreNotNone DEF Entry
    <3> QED
      BY <3>1
  <2> QED
    BY <2>1
<1>3. QueryQuestTotalPaid(q, title) = SumFunctionOnSet(f, P)
  BY DEF QueryQuestTotalPaid, TotalCash, SumFunction
<1> HIDE DEF P, f
<1> QED
  BY <1>1, <1>2, <1>3, SumIsNat

-------------------------------------------------------------------------------
(* A step of one client.                                                   *)

\* Quests are never deleted.
QuestsStay == \A q \in QuestIds : IsQuest(q) => IsQuest(q)'

\* What an entry was posted with is never changed.
SameDeed(e) ==
    /\ IsEntry(e)'
    /\ entries'[e].quest = entries[e].quest
    /\ entries'[e].memo = entries[e].memo
    /\ entries'[e].cash = entries[e].cash
    /\ entries'[e].loss = entries[e].loss
    /\ entries'[e].reverses = entries[e].reverses

EntriesStay == \A e \in EntryIds : IsEntry(e) => SameDeed(e)

\* A step of one client keeps the invariant if it keeps what the invariant says of the data
\* and of its own call: what other calls rely on stays.
LEMMA OneClient ==
  ASSUME IInv, NEW s \in online, NEW next \in Call, call' = [call EXCEPT ![s] = next],
         UNCHANGED online,
         quests' \in [QuestIds -> Quest \cup {None}],
         entries' \in [EntryIds -> Entry \cup {None}],
         QuestsStay, EntriesStay,
         StatusFollowsJournal', EntriesSound', OriginsDefined',
         Begun(next)', SoleClient => Steady(next)'
  PROVE  IInv'
<1>0. TypeOK /\ s \in Clients
  BY DEF IInv, TypeOK
<1>1. call'[s] = next /\ \A t \in Clients \ {s} : call'[t] = call[t]
  BY <1>0 DEF TypeOK
<1>2. TypeOK'
  BY <1>0 DEF TypeOK
<1>3. ASSUME NEW t \in Clients PROVE Begun(call[t])'
  <2>1. CASE t = s
    BY <1>1, <2>1 DEF Begun
  <2>2. CASE t # s
    <3>1. Begun(call[t]) /\ call'[t] = call[t] /\ call[t] \in Call
      BY <1>0, <1>1, <2>2 DEF IInv, TypeOK
    <3>2. /\ call[t].op = "editing" => call[t].quest \in QuestIds
          /\ call[t].op = "listed" => call[t].quest \in QuestIds
          /\ call[t].op \in {"read", "totalled"} => call[t].row.quest \in QuestIds
          /\ call[t].op = "reversing" => call[t].entry \in EntryIds
      BY <3>1, CallShapes DEF Settling
    <3> QED
      BY <3>1, <3>2 DEF Begun, QuestsStay, EntriesStay, SameDeed
  <2> QED
    BY <2>1, <2>2
<1>4. ASSUME SoleClient', NEW t \in online' PROVE Steady(call[t])'
  <2>1. SoleClient /\ t = s
    BY <1>4 DEF SoleClient
  <2> QED
    BY <1>1, <2>1 DEF Steady
<1> QED
  BY <1>2, <1>3, <1>4 DEF IInv

\* While the journal stays as it is, it stays sound.
LEMMA JournalStays ==
  ASSUME IInv, UNCHANGED entries, QuestsStay
  PROVE  EntriesSound' /\ OriginsDefined' /\ EntriesStay
         /\ entries' \in [EntryIds -> Entry \cup {None}]
<1>1. TypeOK /\ EntriesSound /\ OriginsDefined
  BY DEF IInv
<1>2. OriginsDefined'
  BY <1>1 DEF OriginsDefined, Leads, IsEntry
<1>3. ASSUME NEW e \in EntryIds, IsEntry(e)' PROVE EntrySound(e)'
  <2>1. EntrySound(e) /\ entries[e] \in Entry
    BY <1>1, <1>3, RowsAreNotNone DEF EntriesSound, IsEntry
  <2>2. Reversals(e)' = Reversals(e)
    BY DEF Reversals, IsEntry
  <2>3. entries[e].quest # None => entries[e].quest \in QuestIds
    BY <2>1 DEF Entry
  <2> QED
    BY <2>1, <2>2, <2>3 DEF EntrySound, QuestsStay, IsEntry
<1>4. EntriesStay
  BY DEF EntriesStay, SameDeed, IsEntry
<1> QED
  BY <1>1, <1>2, <1>3, <1>4 DEF EntriesSound, TypeOK

\* A step that only carries the call on.
LEMMA QuietStep ==
  ASSUME IInv, NEW s \in online, NEW next \in Call, call' = [call EXCEPT ![s] = next],
         UNCHANGED <<quests, entries, online>>,
         Begun(next), SoleClient => Steady(next)
  PROVE  IInv'
<1>1. TypeOK /\ StatusFollowsJournal
  BY DEF IInv
<1>2. QuestsStay
  BY DEF QuestsStay, IsQuest
<1>3. StatusFollowsJournal'
  BY <1>1 DEF StatusFollowsJournal, IsQuest, Settlements, IsEntry
<1>4. Begun(next)' /\ (SoleClient => Steady(next)')
  BY DEF Begun, Steady, IsQuest, IsEntry
<1> QED
  BY <1>1, <1>2, <1>3, <1>4, JournalStays, OneClient DEF TypeOK

\* A step that changes quests but neither settles one nor changes the status of one that is
\* settled keeps the register in line with the journal.
LEMMA RegisterStays ==
  ASSUME IInv, UNCHANGED entries, QuestsStay,
         quests' \in [QuestIds -> Quest \cup {None}],
         \A q \in QuestIds : IsQuest(q)' =>
            \/ IsQuest(q) /\ quests'[q].status = quests[q].status
            \/ /\ ~IsQuest(q) \/ quests[q].status = "accepted"
               /\ quests'[q].status \in {"offered", "accepted", "completed"}
  PROVE  StatusFollowsJournal'
<1>1. StatusFollowsJournal /\ EntriesSound
  BY DEF IInv
<1>2. ASSUME NEW q \in QuestIds, IsQuest(q)', Seed[q] = None \/ Seed[q].status = "accepted"
      PROVE  /\ quests'[q].status \in {"paid", "partially_paid"} =>
                   \E e \in Settlements(q)' : entries'[e].cash > 0
             /\ quests'[q].status = "defaulted" =>
                   \E e \in Settlements(q)' : entries'[e].loss > 0
             /\ Settlements(q)' # {} =>
                   quests'[q].status \in {"paid", "partially_paid", "defaulted"}
  <2>1. Settlements(q)' = Settlements(q)
    BY DEF Settlements, IsEntry
  <2>2. CASE IsQuest(q) /\ quests'[q].status = quests[q].status
    BY <1>1, <1>2, <2>1, <2>2 DEF StatusFollowsJournal
  <2>3. CASE /\ ~IsQuest(q) \/ quests[q].status = "accepted"
             /\ quests'[q].status \in {"offered", "accepted", "completed"}
    <3>1. Settlements(q) = {}
      <4>1. CASE IsQuest(q)
        BY <1>1, <1>2, <2>3, <4>1 DEF StatusFollowsJournal
      <4>2. CASE ~IsQuest(q)
        <5>1. \A e \in EntryIds : IsEntry(e) => entries[e].quest # q
          BY <1>1, <4>2, ConstantsAssumption DEF EntriesSound, EntrySound
        <5> QED
          BY <5>1 DEF Settlements
      <4> QED
        BY <4>1, <4>2
    <3> QED
      BY <2>1, <2>3, <3>1
  <2> QED
    BY <1>2, <2>2, <2>3
<1> QED
  BY <1>2 DEF StatusFollowsJournal

-------------------------------------------------------------------------------
(* Each action keeps the invariant: those that post nothing.               *)

\* A new quest has no settlements.
LEMMA CreateQuestKeepsIInv ==
  ASSUME IInv, NEW s \in online, NEW q \in QuestIds, NEW title \in Titles, NEW promised \in Rewards,
         NEW status \in QuestStatus, CreateQuest(s, q, title, promised, status)
  PROVE  IInv'
<1> DEFINE new == [title |-> title, promised |-> promised, status |-> status]
<1>0. TypeOK /\ s \in Clients
  BY DEF IInv, TypeOK
<1>1. /\ call[s] = Idle /\ ~IsQuest(q) /\ status \in {"offered", "accepted"}
      /\ quests' = [quests EXCEPT ![q] = new]
      /\ UNCHANGED <<entries, online, call>>
  BY DEF CreateQuest
<1>2. new \in Quest /\ new.status = status
  BY ConstantsAssumption DEF Quest
<1> HIDE DEF new
<1>3. /\ quests' \in [QuestIds -> Quest \cup {None}]
      /\ quests'[q] = new /\ \A r \in QuestIds \ {q} : quests'[r] = quests[r]
  BY <1>0, <1>1, <1>2 DEF TypeOK
<1>4. QuestsStay
  BY <1>1, <1>3 DEF QuestsStay, IsQuest
<1>5. StatusFollowsJournal'
  <2>1. ASSUME NEW r \in QuestIds, IsQuest(r)'
        PROVE  \/ IsQuest(r) /\ quests'[r].status = quests[r].status
               \/ /\ ~IsQuest(r) \/ quests[r].status = "accepted"
                  /\ quests'[r].status \in {"offered", "accepted", "completed"}
    BY <1>1, <1>2, <1>3, <2>1 DEF IsQuest
  <2> QED
    BY <1>1, <1>3, <1>4, <2>1, RegisterStays
<1>6. call' = [call EXCEPT ![s] = Idle] /\ Idle \in Call
  BY <1>0, <1>1, CallsMade DEF TypeOK
<1>7. Begun(Idle)' /\ Steady(Idle)'
  BY CallsMade DEF Begun, Steady
<1> QED
  BY <1>1, <1>3, <1>4, <1>5, <1>6, <1>7, JournalStays, OneClient

\* The reward of a quest that is closed is not changed.
LEMMA ReadForUpdateKeepsIInv ==
  ASSUME IInv, NEW s \in online, NEW q \in QuestIds, NEW title \in Titles, NEW promised \in Rewards,
         ReadForUpdate(s, q, title, promised)
  PROVE  IInv'
<1>1. PICK next \in Call :
        next = [op |-> "editing", quest |-> q, title |-> title, promised |-> promised]
  BY CallsMade, ConstantsAssumption
<1>2. /\ IsQuest(q)
      /\ quests[q].status \notin {"offered", "accepted"} => promised = quests[q].promised
      /\ call' = [call EXCEPT ![s] = next]
      /\ UNCHANGED <<quests, entries, online>>
  BY <1>1 DEF ReadForUpdate
<1>3. Begun(next) /\ Steady(next)
  BY <1>1, <1>2 DEF Begun, Steady, Closed
<1> QED
  BY <1>2, <1>3, QuietStep

\* The status stays when the rest of the row is written.
LEMMA CommitUpdateKeepsIInv ==
  ASSUME IInv, NEW s \in online, CommitUpdate(s)
  PROVE  IInv'
<1> DEFINE q == call[s].quest
           title == call[s].title
           promised == call[s].promised
<1>0. TypeOK /\ s \in Clients /\ call[s] \in Call /\ Begun(call[s])
  BY DEF IInv, TypeOK
<1>1. /\ call[s].op = "editing"
      /\ quests' = [quests EXCEPT ![q].title = title, ![q].promised = promised]
      /\ call' = [call EXCEPT ![s] = Idle]
      /\ UNCHANGED <<entries, online>>
  BY DEF CommitUpdate, Reply
<1>2. q \in QuestIds /\ title \in Titles /\ promised \in Nat /\ IsQuest(q)
  BY <1>0, <1>1, CallShapes DEF Begun
<1> HIDE DEF q, title, promised
<1>3. quests[q] \in Quest
  BY <1>0, <1>2, RowsAreNotNone
<1>4. quests' = [quests EXCEPT ![q] = [quests[q] EXCEPT !.title = title, !.promised = promised]]
  BY <1>0, <1>1, <1>2 DEF TypeOK
<1>5. /\ quests' \in [QuestIds -> Quest \cup {None}]
      /\ quests'[q] \in Quest /\ quests'[q].status = quests[q].status
      /\ \A r \in QuestIds \ {q} : quests'[r] = quests[r]
  <2> DEFINE new == [quests[q] EXCEPT !.title = title, !.promised = promised]
  <2>1. new \in Quest /\ new.status = quests[q].status
    BY <1>2, <1>3 DEF Quest
  <2> HIDE DEF new
  <2>2. quests' = [quests EXCEPT ![q] = new]
    BY <1>4 DEF new
  <2> QED
    BY <1>0, <1>2, <2>1, <2>2 DEF TypeOK
<1>6. QuestsStay
  BY <1>5, ConstantsAssumption DEF QuestsStay, IsQuest
<1>7. StatusFollowsJournal'
  <2>1. ASSUME NEW r \in QuestIds, IsQuest(r)'
        PROVE  IsQuest(r) /\ quests'[r].status = quests[r].status
    BY <1>2, <1>5, <2>1 DEF IsQuest
  <2> QED
    BY <1>1, <1>5, <1>6, <2>1, RegisterStays
<1>8. Idle \in Call /\ Begun(Idle)' /\ Steady(Idle)'
  BY CallsMade DEF Begun, Steady
<1> QED
  BY <1>1, <1>5, <1>6, <1>7, <1>8, JournalStays, OneClient

\* A quest that is finished was accepted, not settled, and is not closed by it.
LEMMA CompleteQuestKeepsIInv ==
  ASSUME IInv, NEW q \in QuestIds, CompleteQuest(q)
  PROVE  IInv'
<1>0. TypeOK
  BY DEF IInv
<1>1. /\ IsQuest(q) /\ quests[q].status = "accepted"
      /\ quests' = [quests EXCEPT ![q].status = "completed"]
      /\ UNCHANGED <<entries, online, call>>
  BY DEF CompleteQuest
<1>2. quests[q] \in Quest
  BY <1>0, <1>1, RowsAreNotNone
<1>3. quests' = [quests EXCEPT ![q] = [quests[q] EXCEPT !.status = "completed"]]
  BY <1>0, <1>1 DEF TypeOK
<1>4. "completed" \in QuestStatus
  BY DEF QuestStatus
<1>5. /\ quests' \in [QuestIds -> Quest \cup {None}]
      /\ quests'[q] \in Quest /\ quests'[q].status = "completed"
      /\ \A r \in QuestIds \ {q} : quests'[r] = quests[r]
  BY <1>0, <1>2, <1>3, <1>4, StatusWritten DEF TypeOK
<1>6. QuestsStay
  BY <1>5, ConstantsAssumption DEF QuestsStay, IsQuest
<1>7. StatusFollowsJournal'
  <2>1. ASSUME NEW r \in QuestIds, IsQuest(r)'
        PROVE  \/ IsQuest(r) /\ quests'[r].status = quests[r].status
               \/ /\ ~IsQuest(r) \/ quests[r].status = "accepted"
                  /\ quests'[r].status \in {"offered", "accepted", "completed"}
    BY <1>1, <1>5, <2>1 DEF IsQuest
  <2> QED
    BY <1>1, <1>5, <1>6, <2>1, RegisterStays
<1>8. EntriesSound' /\ OriginsDefined' /\ TypeOK'
  BY <1>0, <1>1, <1>5, <1>6, JournalStays DEF TypeOK
<1>9. ASSUME NEW s \in Clients PROVE Begun(call[s])'
  <2>1. Begun(call[s]) /\ call[s] \in Call
    BY <1>0 DEF IInv, TypeOK
  <2>2. /\ call[s].op = "editing" => call[s].quest \in QuestIds
        /\ call[s].op = "listed" => call[s].quest \in QuestIds
        /\ call[s].op \in {"read", "totalled"} => call[s].row.quest \in QuestIds
    BY <2>1, CallShapes DEF Settling
  <2> QED
    BY <1>1, <1>6, <2>1, <2>2 DEF Begun, QuestsStay, IsEntry
<1>10. ASSUME SoleClient', NEW s \in online' PROVE Steady(call[s])'
  <2>1. SoleClient /\ s \in online
    BY <1>1, <1>10 DEF SoleClient
  <2>2. Steady(call[s]) /\ call[s] \in Call
    BY <1>0, <2>1 DEF IInv, TypeOK
  <2>3. /\ call[s].op = "editing" => call[s].quest \in QuestIds
        /\ call[s].op = "listed" => call[s].quest \in QuestIds
        /\ call[s].op \in {"read", "totalled"} => call[s].row.quest \in QuestIds
    BY <2>2, CallShapes DEF Settling
  <2>4. \A r \in QuestIds : quests'[r].status \in Closed => quests'[r] = quests[r]
    BY <1>5 DEF Closed
  <2>5. \A r \in QuestIds : quests[r].status \notin Closed => quests'[r].status \notin Closed
    BY <2>4
  <2> QED
    BY <1>1, <2>2, <2>3, <2>4, <2>5 DEF Steady
<1> QED
  BY <1>7, <1>8, <1>9, <1>10 DEF IInv

\* What is listed is outstanding, of a quest that is not closed.
LEMMA ListReceivableKeepsIInv ==
  ASSUME IInv, NEW s \in online, NEW q \in QuestIds, NEW kind \in Kinds,
         ListReceivable(s, q, kind)
  PROVE  IInv'
<1>1. IsQuest(q) /\ quests[q].status \in Collectible /\ Outstanding(q) > 0
  BY DEF ListReceivable
<1>2. Outstanding(q) \in Nat
  <2>1. quests[q].promised \in Nat /\ quests[q].title \in Titles /\ TypeOK
    BY <1>1, RowsAreNotNone DEF IInv, Quest
  <2>2. QueryQuestTotalPaid(q, quests[q].title) \in Nat
    BY <2>1, TotalPaidIsNat
  <2> QED
    BY <1>1, <2>1, <2>2 DEF Outstanding
<1>3. PICK next \in Call :
        next = [op |-> "listed", kind |-> kind, quest |-> q, amount |-> Outstanding(q)]
  BY <1>2, CallsMade
<1>4. call' = [call EXCEPT ![s] = next] /\ UNCHANGED <<quests, entries, online>>
  BY <1>3 DEF ListReceivable
<1>5. Begun(next) /\ Steady(next)
  BY <1>1, <1>3 DEF Begun, Steady, Collectible, Closed
<1> QED
  BY <1>4, <1>5, QuietStep

\* So is what is read for a settlement.
LEMMA ReadQuestKeepsIInv ==
  ASSUME IInv, NEW s \in online, NEW q \in QuestIds, NEW kind \in Kinds,
         NEW amount \in Nat \ {0}, ReadQuest(s, q, kind, amount)
  PROVE  IInv'
<1> DEFINE row == [quest |-> q, title |-> quests[q].title, promised |-> quests[q].promised,
                   amount |-> amount]
<1>1. IsQuest(q) /\ quests[q].status \in Collectible
  BY DEF ReadQuest
<1>2. row \in Settling
  <2>1. quests[q].promised \in Nat /\ quests[q].title \in Titles
    BY <1>1, RowsAreNotNone DEF IInv, Quest
  <2> QED
    BY <2>1 DEF Settling
<1>3. PICK next \in Call : next = [op |-> "read", kind |-> kind, row |-> row]
  BY <1>2, CallsMade
<1>4. call' = [call EXCEPT ![s] = next] /\ UNCHANGED <<quests, entries, online>>
  BY <1>3 DEF ReadQuest
<1>5. Begun(next) /\ Steady(next)
  BY <1>1, <1>3 DEF Begun, Steady, Collectible, Closed
<1> QED
  BY <1>4, <1>5, QuietStep

\* A write-off goes on when something is left to write off.
LEMMA ReadTotalPaidKeepsIInv ==
  ASSUME IInv, NEW s \in online, ReadTotalPaid(s)
  PROVE  IInv'
<1> DEFINE row == call[s].row
           kind == call[s].kind
           paid == QueryQuestTotalPaid(row.quest, row.title)
<1>0. TypeOK /\ s \in Clients /\ call[s] \in Call /\ Begun(call[s])
      /\ (SoleClient => Steady(call[s]))
  BY DEF IInv, TypeOK
<1>1. call[s].op = "read"
  BY DEF ReadTotalPaid
<1>2. row \in Settling /\ kind \in Kinds
  BY <1>0, <1>1, CallShapes
<1>3. paid \in Nat
  BY <1>0, <1>2, TotalPaidIsNat DEF Settling
<1>4. PICK next \in Call : next = [op |-> "totalled", kind |-> kind, row |-> row, paid |-> paid]
  <2> HIDE DEF paid, row, kind
  <2> QED
    BY <1>2, <1>3, CallsMade
<1>5. /\ kind = "write off" => row.promised > paid
      /\ call' = [call EXCEPT ![s] = next] /\ UNCHANGED <<quests, entries, online>>
  BY <1>4 DEF ReadTotalPaid
<1>6. IsQuest(row.quest) /\ row.amount > 0
  BY <1>0, <1>1 DEF Begun
<1>7. SoleClient => quests[row.quest].status \notin Closed
  BY <1>0, <1>1 DEF Steady
<1> HIDE DEF paid, row, kind
<1>8. Begun(next) /\ (SoleClient => Steady(next))
  BY <1>4, <1>5, <1>6, <1>7 DEF Begun, Steady
<1> QED
  BY <1>5, <1>8, QuietStep

\* What a reversal reads is what was posted.
LEMMA ReadForReversalKeepsIInv ==
  ASSUME IInv, NEW s \in online, NEW e \in EntryIds, ReadForReversal(s, e)
  PROVE  IInv'
<1> DEFINE lines == [memo |-> entries[e].memo, cash |-> entries[e].cash, loss |-> entries[e].loss]
<1>1. IsEntry(e)
  BY DEF ReadForReversal
<1>2. lines \in Lines
  <2>1. entries[e] \in Entry
    BY <1>1, RowsAreNotNone DEF IInv
  <2>2. entries[e].memo \in Titles \cup {None} /\ entries[e].cash \in Int /\ entries[e].loss \in Int
    BY <2>1 DEF Entry
  <2> QED
    BY <2>2 DEF Lines
<1>3. PICK next \in Call : next = [op |-> "reversing", entry |-> e, lines |-> lines]
  BY <1>2, CallsMade
<1>4. call' = [call EXCEPT ![s] = next] /\ UNCHANGED <<quests, entries, online>>
  BY <1>3 DEF ReadForReversal
<1>5. Begun(next) /\ Steady(next)
  BY <1>1, <1>3 DEF Begun, Steady
<1> QED
  BY <1>4, <1>5, QuietStep

\* A call that fails has written nothing.
LEMMA FailKeepsIInv ==
  ASSUME IInv, NEW s \in online, Fail(s)
  PROVE  IInv'
<1>1. Idle \in Call /\ Begun(Idle) /\ Steady(Idle)
  BY CallsMade DEF Begun, Steady
<1>2. call' = [call EXCEPT ![s] = Idle] /\ UNCHANGED <<quests, entries, online>>
  BY DEF Fail, Reply
<1> QED
  BY <1>1, <1>2, QuietStep

-------------------------------------------------------------------------------
(* Each action keeps the invariant: those that post an entry.              *)

\* Entry e is new, and original, if there is one, is what it reverses.
Posted(e, new, original) ==
    /\ entries[e] = None
    /\ entries'[e] = new
    /\ \A f \in EntryIds \ {e} :
          /\ f # original => entries'[f] = entries[f]
          /\ f = original => entries'[f] = [entries[f] EXCEPT !.status = "reversed"]

\* What the insertion of an entry does to the journal.
LEMMA InsertedIsPosted ==
  ASSUME TypeOK, NEW e \in EntryIds, NEW new \in Entry, NEW original \in EntryIds \cup {None},
         original # None => IsEntry(original),
         entries[e] = None,
         entries' = [(IF original = None THEN entries
                      ELSE [entries EXCEPT ![original].status = "reversed"]) EXCEPT ![e] = new]
  PROVE  /\ Posted(e, new, original)
         /\ entries' \in [EntryIds -> Entry \cup {None}]
<1>1. CASE original = None
  BY <1>1, ConstantsAssumption DEF Posted, TypeOK
<1>2. CASE original # None
  <2> DEFINE marked == [entries[original] EXCEPT !.status = "reversed"]
  <2>1. entries[original] \in Entry /\ original \in EntryIds
    BY <1>2, RowsAreNotNone
  <2>2. marked \in Entry
    BY <2>1, EntryMarked
  <2>3. original # e
    BY <1>2 DEF IsEntry
  <2>4. entries' = [[entries EXCEPT ![original] = marked] EXCEPT ![e] = new]
    BY <1>2, <2>1 DEF TypeOK
  <2> HIDE DEF marked
  <2>5. /\ entries'[e] = new /\ entries'[original] = marked
        /\ \A f \in EntryIds \ {e, original} : entries'[f] = entries[f]
        /\ entries' \in [EntryIds -> Entry \cup {None}]
    BY <2>1, <2>2, <2>3, <2>4 DEF TypeOK
  <2> QED
    BY <2>3, <2>5 DEF Posted, marked
<1> QED
  BY <1>1, <1>2

\* The others stay what they were, but for the status of the one that is reversed.
LEMMA OthersStay ==
  ASSUME TypeOK, NEW e \in EntryIds, NEW new \in Entry, NEW original \in EntryIds \cup {None},
         original # None => IsEntry(original), Posted(e, new, original)
  PROVE  /\ EntriesStay
         /\ ~IsEntry(e) /\ IsEntry(e)' /\ original # e
         /\ \A f \in EntryIds \ {e} : IsEntry(f)' <=> IsEntry(f)
         /\ \A f \in EntryIds \ {e} : IsEntry(f) =>
               entries'[f].status = IF f = original THEN "reversed" ELSE entries[f].status
<1>1. ~IsEntry(e) /\ IsEntry(e)' /\ original # e
  BY ConstantsAssumption DEF Posted, IsEntry
<1>2. ASSUME NEW f \in EntryIds \ {e}, IsEntry(f)
      PROVE  SameDeed(f) /\ entries'[f].status = IF f = original THEN "reversed" ELSE entries[f].status
  <2>1. entries[f] \in Entry
    BY <1>2, RowsAreNotNone
  <2>2. CASE f = original
    <3>1. entries'[f] = [entries[f] EXCEPT !.status = "reversed"]
      BY <2>2 DEF Posted
    <3> QED
      BY <2>1, <2>2, <3>1, EntryMarked, ConstantsAssumption DEF SameDeed, IsEntry
  <2>3. CASE f # original
    BY <1>2, <2>3 DEF Posted, SameDeed, IsEntry
  <2> QED
    BY <2>2, <2>3
<1>3. ASSUME NEW f \in EntryIds \ {e}, ~IsEntry(f)
      PROVE  ~IsEntry(f)'
  BY <1>3, ConstantsAssumption DEF Posted, IsEntry
<1>4. EntriesStay
  BY <1>1, <1>2 DEF EntriesStay
<1>5. \A f \in EntryIds \ {e} : IsEntry(f)' <=> IsEntry(f)
  BY <1>2, <1>3 DEF SameDeed
<1> QED
  BY <1>1, <1>2, <1>4, <1>5

\* The journal stays sound, and leads from each entry back to its origin: nothing reverses
\* the entry that has just been posted.
LEMMA JournalStaysSound ==
  ASSUME IInv, NEW e \in EntryIds, NEW new \in Entry, NEW original \in EntryIds \cup {None},
         original # None => IsEntry(original) /\ new.quest = None
                            /\ new.cash = - entries[original].cash,
         Posted(e, new, original), QuestsStay,
         new.status = "posted", new.reverses = original,
         new.quest # None => IsQuest(new.quest) /\ new.cash >= 0
  PROVE  EntriesSound' /\ OriginsDefined'
<1>0. TypeOK /\ EntriesSound
  BY DEF IInv
<1>1. /\ EntriesStay /\ ~IsEntry(e) /\ IsEntry(e)' /\ original # e /\ entries'[e] = new
      /\ \A f \in EntryIds \ {e} : IsEntry(f)' <=> IsEntry(f)
      /\ \A f \in EntryIds \ {e} : IsEntry(f) =>
            entries'[f].status = IF f = original THEN "reversed" ELSE entries[f].status
  <2>1. TypeOK /\ Posted(e, new, original) /\ (original # None => IsEntry(original))
    BY <1>0
  <2>2. entries'[e] = new
    BY DEF Posted
  <2> QED
    BY ONLY <2>1, <2>2, OthersStay, e \in EntryIds, new \in Entry, original \in EntryIds \cup {None}
<1>2. ASSUME NEW f \in EntryIds, IsEntry(f) PROVE Reversals(f) \subseteq Reversals(f)'
  BY <1>1 DEF Reversals, EntriesStay, SameDeed
<1>3. EntrySound(e)'
  <2>1. new.quest # None => IsQuest(new.quest)'
    BY DEF QuestsStay, Entry
  <2>2. original # None => /\ IsEntry(original)' /\ entries'[original].status = "reversed"
                           /\ entries'[original].cash = - new.cash
    <3>1. SUFFICES ASSUME original # None
                   PROVE  /\ IsEntry(original)' /\ entries'[original].status = "reversed"
                          /\ entries'[original].cash = - new.cash
      OBVIOUS
    <3>2. original \in EntryIds \ {e} /\ IsEntry(original)
      BY <1>1, <3>1
    <3>3. entries[original].cash \in Int
      BY <1>0, <3>2, RowsAreNotNone DEF Entry
    <3>4. entries'[original].cash = entries[original].cash /\ new.cash = - entries[original].cash
      BY <1>1, <3>1, <3>2 DEF EntriesStay, SameDeed
    <3>5. entries'[original].cash = - new.cash
      BY <3>3, <3>4
    <3> QED
      BY <1>1, <3>2, <3>5
  <2>3. new.quest # None => new.reverses = None
    OBVIOUS
  <2> QED
    BY <1>1, <2>1, <2>2, <2>3 DEF EntrySound
<1>4. ASSUME NEW f \in EntryIds, IsEntry(f)', f # e PROVE EntrySound(f)'
  <2>1. IsEntry(f) /\ SameDeed(f) /\ EntrySound(f) /\ entries[f] \in Entry
    BY <1>0, <1>1, <1>4, RowsAreNotNone DEF EntriesSound, EntriesStay
  <2>2. (entries[f].quest # None =>
           IsQuest(entries[f].quest) /\ entries[f].cash >= 0 /\ entries[f].reverses = None)'
    <3>1. entries[f].quest # None =>
             IsQuest(entries[f].quest) /\ entries[f].cash >= 0 /\ entries[f].reverses = None
      BY <2>1 DEF EntrySound
    <3>2. entries[f].quest # None => entries[f].quest \in QuestIds
      BY <2>1 DEF Entry
    <3> QED
      BY <2>1, <3>1, <3>2 DEF SameDeed, QuestsStay
  <2>3. (entries[f].reverses # None =>
           /\ IsEntry(entries[f].reverses)
           /\ entries[entries[f].reverses].status = "reversed"
           /\ entries[entries[f].reverses].cash = - entries[f].cash)'
    <3>1. PICK r \in EntryIds \cup {None} : r = entries[f].reverses
      BY <2>1 DEF Entry
    <3>2. r # None => /\ IsEntry(r) /\ entries[r].status = "reversed"
                      /\ entries[r].cash = - entries[f].cash
      BY <2>1, <3>1 DEF EntrySound
    <3>3. r # None => r \in EntryIds \ {e} /\ SameDeed(r)
      BY <1>1, <3>2 DEF EntriesStay
    <3>4. r # None => /\ IsEntry(r)' /\ entries'[r].status = "reversed"
                      /\ entries'[r].cash = - entries[f].cash
      BY <1>1, <3>2, <3>3 DEF SameDeed
    <3>5. entries'[f].reverses = r /\ entries'[f].cash = entries[f].cash
      BY <2>1, <3>1 DEF SameDeed
    <3> QED
      BY <3>4, <3>5 DEF IsEntry
  <2>4. entries'[f].status = "reversed" => Reversals(f)' # {}
    <3>1. CASE f = original
      <4>1. e \in Reversals(f)'
        BY <1>1, <3>1 DEF Reversals
      <4> QED
        BY <4>1
    <3>2. CASE f # original
      <4>1. entries'[f].status = entries[f].status
        BY <1>1, <1>4, <2>1, <3>2
      <4> QED
        BY <1>2, <2>1, <4>1 DEF EntrySound
    <3> QED
      BY <3>1, <3>2
  <2> QED
    BY <2>2, <2>3, <2>4 DEF EntrySound
<1>5. OriginsDefined'
  <2>1. PICK origin : Leads(origin)
    BY DEF IInv, OriginsDefined
  <2> DEFINE end == IF original = None THEN e ELSE origin[original]
             later == [f \in EntryIds |-> IF f = e THEN end ELSE origin[f]]
  <2>2. ASSUME NEW f \in EntryIds
        PROVE  later[f] = IF IsEntry(f)' /\ entries'[f].reverses # None
                          THEN later[entries'[f].reverses] ELSE f
    <3>1. CASE f = e
      BY <1>1, <3>1
    <3>2. CASE f # e /\ IsEntry(f)
      <4>1. IsEntry(f)' /\ entries'[f].reverses = entries[f].reverses
        BY <1>1, <3>2 DEF EntriesStay, SameDeed
      <4>2. origin[f] = IF entries[f].reverses # None THEN origin[entries[f].reverses] ELSE f
        BY <2>1, <3>2 DEF Leads
      <4>3. entries[f].reverses # None =>
              entries[f].reverses \in EntryIds /\ entries[f].reverses # e
        BY <1>0, <1>1, <3>2, RowsAreNotNone DEF EntriesSound, EntrySound, Entry
      <4> QED
        BY <3>2, <4>1, <4>2, <4>3
    <3>3. CASE f # e /\ ~IsEntry(f)
      <4>1. ~IsEntry(f)'
        BY <1>1, <3>3
      <4>2. origin[f] = f
        BY <2>1, <3>3 DEF Leads
      <4> QED
        BY <3>3, <4>1, <4>2
    <3> QED
      BY <3>1, <3>2, <3>3
  <2>3. later = [f \in EntryIds |-> later[f]]
    OBVIOUS
  <2> HIDE DEF later
  <2>4. Leads(later)'
    BY <2>2, <2>3 DEF Leads
  <2> QED
    BY <2>4 DEF OriginsDefined
<1> QED
  BY <1>3, <1>4, <1>5 DEF EntriesSound

\* The register follows the journal when the quest the entry settles, if it settles one, gets
\* a status of its kind, and the other quests are left alone.
LEMMA RegisterFollows ==
  ASSUME IInv, NEW e \in EntryIds, NEW new \in Entry, NEW original \in EntryIds \cup {None},
         original # None => IsEntry(original), Posted(e, new, original),
         \A q \in QuestIds : q # new.quest => quests'[q] = quests[q],
         \/ new.quest = None
         \/ quests'[new.quest].status \in {"paid", "partially_paid"} /\ new.cash > 0
         \/ quests'[new.quest].status = "defaulted" /\ new.loss > 0
  PROVE  StatusFollowsJournal'
<1>0. TypeOK /\ StatusFollowsJournal
  BY DEF IInv
<1>1. /\ EntriesStay /\ ~IsEntry(e) /\ IsEntry(e)' /\ entries'[e] = new
      /\ \A f \in EntryIds \ {e} : IsEntry(f)' <=> IsEntry(f)
  <2>1. entries'[e] = new
    BY DEF Posted
  <2> QED
    BY <1>0, <2>1, OthersStay
<1>2. ASSUME NEW f \in EntryIds, IsEntry(f)
      PROVE  f # e /\ IsEntry(f)' /\ entries'[f].quest = entries[f].quest
             /\ entries'[f].cash = entries[f].cash /\ entries'[f].loss = entries[f].loss
  BY <1>1, <1>2 DEF EntriesStay, SameDeed
<1>3. ASSUME NEW q \in QuestIds, IsQuest(q)', Seed[q] = None \/ Seed[q].status = "accepted"
      PROVE  /\ quests'[q].status \in {"paid", "partially_paid"} =>
                   \E f \in Settlements(q)' : entries'[f].cash > 0
             /\ quests'[q].status = "defaulted" =>
                   \E f \in Settlements(q)' : entries'[f].loss > 0
             /\ Settlements(q)' # {} =>
                   quests'[q].status \in {"paid", "partially_paid", "defaulted"}
  <2>1. CASE q = new.quest
    <3>1. e \in Settlements(q)'
      BY <1>1, <2>1 DEF Settlements
    <3>2. q # None
      BY ConstantsAssumption
    <3> QED
      BY <1>1, <2>1, <3>1, <3>2
  <2>2. CASE q # new.quest
    <3>1. quests'[q] = quests[q] /\ IsQuest(q)
      BY <1>3, <2>2 DEF IsQuest
    <3>2. Settlements(q)' = Settlements(q)
      BY <1>1, <1>2, <2>2 DEF Settlements
    <3>3. \A f \in Settlements(q) : entries'[f].cash = entries[f].cash
                                    /\ entries'[f].loss = entries[f].loss
      BY <1>2 DEF Settlements
    <3>4. /\ quests[q].status \in {"paid", "partially_paid"} =>
                \E f \in Settlements(q) : entries[f].cash > 0
          /\ quests[q].status = "defaulted" =>
                \E f \in Settlements(q) : entries[f].loss > 0
          /\ Settlements(q) # {} =>
                quests[q].status \in {"paid", "partially_paid", "defaulted"}
      BY <1>0, <1>3, <3>1 DEF StatusFollowsJournal
    <3> QED
      BY <3>1, <3>2, <3>3, <3>4
  <2> QED
    BY <2>1, <2>2
<1> QED
  BY <1>3 DEF StatusFollowsJournal

\* A call that posts an entry keeps the invariant.
LEMMA PostingKeepsIInv ==
  ASSUME IInv, NEW s \in online, call' = [call EXCEPT ![s] = Idle], UNCHANGED online,
         NEW e \in EntryIds, NEW new \in Entry, NEW original \in EntryIds \cup {None},
         original # None => IsEntry(original) /\ new.quest = None
                            /\ new.cash = - entries[original].cash,
         new.status = "posted", new.reverses = original,
         new.quest # None => IsQuest(new.quest) /\ new.cash >= 0,
         entries[e] = None,
         entries' = [(IF original = None THEN entries
                      ELSE [entries EXCEPT ![original].status = "reversed"]) EXCEPT ![e] = new],
         quests' \in [QuestIds -> Quest \cup {None}], QuestsStay,
         \A q \in QuestIds : q # new.quest => quests'[q] = quests[q],
         \/ new.quest = None
         \/ quests'[new.quest].status \in {"paid", "partially_paid"} /\ new.cash > 0
         \/ quests'[new.quest].status = "defaulted" /\ new.loss > 0
  PROVE  IInv'
<1>0. TypeOK
  BY DEF IInv
<1>1. Posted(e, new, original) /\ entries' \in [EntryIds -> Entry \cup {None}]
  BY <1>0, InsertedIsPosted
<1>2. EntriesStay
  BY <1>0, <1>1, OthersStay
<1>3. EntriesSound' /\ OriginsDefined'
  BY <1>1, JournalStaysSound
<1>4. StatusFollowsJournal'
  BY <1>1, RegisterFollows
<1>5. Idle \in Call /\ Begun(Idle)' /\ Steady(Idle)'
  BY CallsMade DEF Begun, Steady
<1> QED
  BY <1>1, <1>2, <1>3, <1>4, <1>5, OneClient

\* A settlement gives its quest a new status, and nothing else.
LEMMA StatusSet ==
  ASSUME TypeOK, NEW q \in QuestIds, IsQuest(q), NEW status \in QuestStatus,
         quests' = [quests EXCEPT ![q].status = status]
  PROVE  /\ quests' \in [QuestIds -> Quest \cup {None}] /\ QuestsStay
         /\ quests'[q].status = status
         /\ \A r \in QuestIds : r # q => quests'[r] = quests[r]
<1> DEFINE new == [quests[q] EXCEPT !.status = status]
<1>1. quests[q] \in Quest
  BY RowsAreNotNone
<1>2. new \in Quest /\ new.status = status
  BY <1>1, StatusWritten
<1>3. quests' = [quests EXCEPT ![q] = new]
  BY DEF TypeOK
<1> HIDE DEF new
<1> QED
  BY <1>2, <1>3, ConstantsAssumption DEF TypeOK, QuestsStay, IsQuest

\* A payment brings in cash, and the quest is paid, or in part.
LEMMA CommitCollectKeepsIInv ==
  ASSUME IInv, NEW s \in online, CommitCollect(s)
  PROVE  IInv'
<1> DEFINE row == call[s].row
           status == StatusAfter(row, call[s].paid)
<1>0. TypeOK /\ s \in Clients /\ call[s] \in Call /\ Begun(call[s])
  BY DEF IInv, TypeOK
<1>1. call[s].op = "totalled"
  BY DEF CommitCollect
<1>2. row \in Settling /\ IsQuest(row.quest) /\ row.amount > 0
  BY <1>0, <1>1, CallShapes DEF Begun
<1>3. status \in {"paid", "partially_paid"}
  BY DEF StatusAfter
<1>4. PICK e \in EntryIds : InsertEntry(e, row.quest, row.title, row.amount, 0, None, entries)
  BY DEF CommitCollect
<1> HIDE DEF status
<1>5. /\ quests' = [quests EXCEPT ![row.quest].status = status]
      /\ call' = [call EXCEPT ![s] = Idle] /\ UNCHANGED online
  BY DEF CommitCollect, Reply, status
<1> HIDE DEF row
<1>6. row.quest \in QuestIds /\ row.title \in Titles /\ row.amount \in Nat
  BY <1>2 DEF Settling
<1>7. status \in QuestStatus
  BY <1>3 DEF QuestStatus
<1>8. /\ quests' \in [QuestIds -> Quest \cup {None}] /\ QuestsStay
      /\ quests'[row.quest].status = status
      /\ \A r \in QuestIds : r # row.quest => quests'[r] = quests[r]
  BY <1>0, <1>2, <1>5, <1>6, <1>7, StatusSet
<1>9. PICK new \in Entry :
        new = [quest |-> row.quest, memo |-> row.title, cash |-> row.amount, loss |-> 0,
               status |-> "posted", reverses |-> None]
  <2>1. /\ row.quest \in QuestIds \cup {None} /\ row.title \in Titles \cup {None}
        /\ row.amount \in Int /\ 0 \in Int /\ None \in EntryIds \cup {None}
    BY <1>6
  <2>2. [quest |-> row.quest, memo |-> row.title, cash |-> row.amount, loss |-> 0,
         status |-> "posted", reverses |-> None] \in Entry
    BY <2>1, EntryMade
  <2> QED
    BY <2>2
<1>10. entries[e] = None /\ entries' = [entries EXCEPT ![e] = new]
  BY <1>4, <1>9 DEF InsertEntry
<1>11. /\ new.quest = row.quest /\ new.cash = row.amount /\ new.status = "posted"
       /\ new.reverses = None
  BY <1>9
<1>12. /\ IsQuest(new.quest) /\ quests'[new.quest].status \in {"paid", "partially_paid"}
       /\ new.cash > 0 /\ new.cash >= 0
       /\ \A r \in QuestIds : r # new.quest => quests'[r] = quests[r]
  BY <1>2, <1>3, <1>6, <1>8, <1>11
<1> QED
  BY <1>5, <1>8, <1>10, <1>11, <1>12, PostingKeepsIInv

\* A write-off books a loss, and the quest is defaulted.
LEMMA CommitWriteOffKeepsIInv ==
  ASSUME IInv, NEW s \in online, CommitWriteOff(s)
  PROVE  IInv'
<1> DEFINE row == call[s].row
           loss == row.promised - call[s].paid
<1>0. TypeOK /\ s \in Clients /\ call[s] \in Call /\ Begun(call[s])
  BY DEF IInv, TypeOK
<1>1. call[s].op = "totalled" /\ call[s].kind = "write off"
  BY DEF CommitWriteOff
<1>2. row \in Settling /\ call[s].paid \in Nat /\ IsQuest(row.quest) /\ row.promised > call[s].paid
  BY <1>0, <1>1, CallShapes DEF Begun
<1>3. row.quest \in QuestIds /\ row.promised \in Nat
  BY <1>2 DEF Settling
<1>4. loss \in Int /\ loss > 0
  BY <1>2, <1>3
<1>5. PICK e \in EntryIds : InsertEntry(e, row.quest, None, 0, loss, None, entries)
  BY DEF CommitWriteOff
<1>6. /\ quests' = [quests EXCEPT ![row.quest].status = "defaulted"]
      /\ call' = [call EXCEPT ![s] = Idle] /\ UNCHANGED online
  BY DEF CommitWriteOff, Reply
<1> HIDE DEF row, loss
<1>7. "defaulted" \in QuestStatus
  BY DEF QuestStatus
<1>8. /\ quests' \in [QuestIds -> Quest \cup {None}] /\ QuestsStay
      /\ quests'[row.quest].status = "defaulted"
      /\ \A r \in QuestIds : r # row.quest => quests'[r] = quests[r]
  BY <1>0, <1>2, <1>3, <1>6, <1>7, StatusSet
<1>9. PICK new \in Entry :
        new = [quest |-> row.quest, memo |-> None, cash |-> 0, loss |-> loss,
               status |-> "posted", reverses |-> None]
  <2>1. /\ row.quest \in QuestIds \cup {None} /\ None \in Titles \cup {None}
        /\ 0 \in Int /\ loss \in Int /\ None \in EntryIds \cup {None}
    BY <1>3, <1>4
  <2>2. [quest |-> row.quest, memo |-> None, cash |-> 0, loss |-> loss,
         status |-> "posted", reverses |-> None] \in Entry
    BY <2>1, EntryMade
  <2> QED
    BY <2>2
<1>10. entries[e] = None /\ entries' = [entries EXCEPT ![e] = new]
  BY <1>5, <1>9 DEF InsertEntry
<1>11. /\ new.quest = row.quest /\ new.cash = 0 /\ new.loss = loss /\ new.status = "posted"
       /\ new.reverses = None
  BY <1>9
<1>12. /\ IsQuest(new.quest) /\ quests'[new.quest].status = "defaulted"
       /\ new.loss > 0 /\ new.cash >= 0
       /\ \A r \in QuestIds : r # new.quest => quests'[r] = quests[r]
  BY <1>2, <1>4, <1>8, <1>11
<1> QED
  BY <1>6, <1>8, <1>10, <1>11, <1>12, PostingKeepsIInv

\* What is posted by hand is linked to no quest.
LEMMA PostByHandKeepsIInv ==
  ASSUME IInv, NEW s \in online, NEW title \in Titles, NEW cash \in HandPosted,
         PostByHand(s, title, cash)
  PROVE  IInv'
<1>0. TypeOK /\ s \in Clients
  BY DEF IInv, TypeOK
<1>1. PICK e \in EntryIds : InsertEntry(e, None, title, cash, 0, None, entries)
  BY DEF PostByHand
<1>2. call[s] = Idle /\ UNCHANGED <<quests, online, call>>
  BY DEF PostByHand
<1>3. PICK new \in Entry :
        new = [quest |-> None, memo |-> title, cash |-> cash, loss |-> 0,
               status |-> "posted", reverses |-> None]
  <2>1. /\ None \in QuestIds \cup {None} /\ title \in Titles \cup {None}
        /\ cash \in Int /\ 0 \in Int /\ None \in EntryIds \cup {None}
    BY ConstantsAssumption
  <2>2. [quest |-> None, memo |-> title, cash |-> cash, loss |-> 0,
         status |-> "posted", reverses |-> None] \in Entry
    BY <2>1, EntryMade
  <2> QED
    BY <2>2
<1>4. entries[e] = None /\ entries' = [entries EXCEPT ![e] = new]
  BY <1>1, <1>3 DEF InsertEntry
<1>5. new.quest = None /\ new.status = "posted" /\ new.reverses = None
  BY <1>3
<1>6. call' = [call EXCEPT ![s] = Idle]
  BY <1>0, <1>2 DEF TypeOK
<1>7. quests' \in [QuestIds -> Quest \cup {None}] /\ QuestsStay
  BY <1>0, <1>2 DEF TypeOK, QuestsStay, IsQuest
<1> QED
  BY <1>2, <1>4, <1>5, <1>6, <1>7, PostingKeepsIInv

\* A reversal is linked to no quest and takes out what its original brought in.
LEMMA CommitReversalKeepsIInv ==
  ASSUME IInv, NEW s \in online, CommitReversal(s)
  PROVE  IInv'
<1> DEFINE lines == call[s].lines
<1>0. TypeOK /\ s \in Clients /\ call[s] \in Call /\ Begun(call[s])
  BY DEF IInv, TypeOK
<1>1. call[s].op = "reversing"
  BY DEF CommitReversal
<1>2. call[s].entry \in EntryIds /\ lines \in Lines
  BY <1>0, <1>1, CallShapes
<1>3. PICK original \in EntryIds : original = call[s].entry
  BY <1>2
<1>4. IsEntry(original) /\ lines.cash = entries[original].cash
  BY <1>0, <1>1, <1>3 DEF Begun
<1>5. PICK e \in EntryIds :
        InsertEntry(e, None, lines.memo, -lines.cash, -lines.loss, original,
                    [entries EXCEPT ![original].status = "reversed"])
  BY <1>3 DEF CommitReversal
<1>6. call' = [call EXCEPT ![s] = Idle] /\ UNCHANGED <<quests, online>>
  BY DEF CommitReversal, Reply
<1> HIDE DEF lines
<1>7. lines.memo \in Titles \cup {None} /\ -lines.cash \in Int /\ -lines.loss \in Int
  BY <1>2 DEF Lines
<1>8. PICK new \in Entry :
        new = [quest |-> None, memo |-> lines.memo, cash |-> -lines.cash, loss |-> -lines.loss,
               status |-> "posted", reverses |-> original]
  BY <1>7, EntryMade
<1>9. /\ entries[e] = None
      /\ entries' = [[entries EXCEPT ![original].status = "reversed"] EXCEPT ![e] = new]
  BY <1>5, <1>8 DEF InsertEntry
<1>10. /\ new.quest = None /\ new.cash = - entries[original].cash /\ new.status = "posted"
       /\ new.reverses = original
  BY <1>4, <1>8
<1>11. original # None
  BY ConstantsAssumption
<1>12. quests' \in [QuestIds -> Quest \cup {None}] /\ QuestsStay
  BY <1>0, <1>6 DEF TypeOK, QuestsStay, IsQuest
<1> QED
  BY <1>4, <1>6, <1>9, <1>10, <1>11, <1>12, PostingKeepsIInv

-------------------------------------------------------------------------------
(* The theorems.                                                           *)

\* The register starts empty, and so does the journal.
LEMMA InitIInv == Init => IInv
<1> SUFFICES ASSUME Init PROVE IInv
  OBVIOUS
<1>1. /\ \A s \in Clients : call[s] = Idle
      /\ \A e \in EntryIds : ~IsEntry(e)
      /\ online \subseteq Clients
  BY DEF Init, IsEntry
<1>2. TypeOK
  BY CallsMade, ConstantsAssumption DEF Init, TypeOK
<1>3. StatusFollowsJournal
  <2>1. ASSUME NEW q \in QuestIds, IsQuest(q), Seed[q] = None \/ Seed[q].status = "accepted"
        PROVE  quests[q].status = "accepted" /\ Settlements(q) = {}
    BY <1>1, <2>1 DEF Init, IsQuest, Settlements
  <2> QED
    BY <2>1 DEF StatusFollowsJournal
<1>4. EntriesSound
  BY <1>1 DEF EntriesSound
<1>5. OriginsDefined
  <2> DEFINE origin == [f \in EntryIds |-> f]
  <2>1. origin = [f \in EntryIds |->
            IF IsEntry(f) /\ entries[f].reverses # None THEN origin[entries[f].reverses] ELSE f]
    BY <1>1
  <2> QED
    BY <2>1 DEF OriginsDefined, Leads
<1>6. \A s \in Clients : Begun(call[s]) /\ Steady(call[s])
  BY <1>1, CallsMade DEF Begun, Steady
<1> QED
  BY <1>1, <1>2, <1>3, <1>4, <1>5, <1>6 DEF IInv

\* No step breaks the invariant.
LEMMA NextKeepsIInv == IInv /\ [Next]_vars => IInv'
<1> SUFFICES ASSUME IInv, [Next]_vars PROVE IInv'
  OBVIOUS
<1>1. ASSUME NEW s \in online, EditStep(s) PROVE IInv'
  BY <1>1, CreateQuestKeepsIInv, ReadForUpdateKeepsIInv, CommitUpdateKeepsIInv DEF EditStep
<1>2. ASSUME NEW s \in online, SettlementStep(s) PROVE IInv'
  <2>1. CASE \E q \in QuestIds, kind \in {"collect", "write off"} : ListReceivable(s, q, kind)
    BY <2>1, ListReceivableKeepsIInv DEF Kinds
  <2>2. CASE \E q \in QuestIds, amount \in Payments : CollectAmount(s, q, amount)
    BY <2>2, ReadQuestKeepsIInv, ConstantsAssumption DEF CollectAmount, Kinds
  <2>3. CASE SettleListed(s)
    <3>1. call[s].op = "listed" /\ call[s] \in Call /\ Begun(call[s])
      BY <2>3 DEF SettleListed, IInv, TypeOK
    <3>2. call[s].quest \in QuestIds /\ call[s].kind \in Kinds /\ call[s].amount \in Nat \ {0}
      BY <3>1, CallShapes DEF Begun
    <3> QED
      BY <2>3, <3>2, ReadQuestKeepsIInv DEF SettleListed
  <2> QED
    BY <1>2, <2>1, <2>2, <2>3, ReadTotalPaidKeepsIInv, CommitCollectKeepsIInv,
       CommitWriteOffKeepsIInv DEF SettlementStep
<1>3. ASSUME NEW s \in online, JournalStep(s) PROVE IInv'
  BY <1>3, PostByHandKeepsIInv, ReadForReversalKeepsIInv, CommitReversalKeepsIInv DEF JournalStep
<1>4. ASSUME UNCHANGED vars PROVE IInv'
  <2>1. UNCHANGED <<quests, entries, online, call>>
    BY <1>4 DEF vars
  <2>2. TypeOK' /\ StatusFollowsJournal'
    BY <2>1 DEF IInv, TypeOK, StatusFollowsJournal, IsQuest, Settlements, IsEntry
  <2>3. EntriesSound' /\ OriginsDefined'
    <3>1. QuestsStay
      BY <2>1 DEF QuestsStay, IsQuest
    <3> QED
      BY <2>1, <3>1, JournalStays
  <2>4. \A s \in Clients : Begun(call[s])'
    BY <2>1 DEF IInv, Begun, IsQuest, IsEntry
  <2>5. SoleClient' => \A s \in online' : Steady(call[s])'
    BY <2>1 DEF IInv, SoleClient, Steady
  <2> QED
    BY <2>2, <2>3, <2>4, <2>5 DEF IInv
<1> QED
  BY <1>1, <1>2, <1>3, <1>4, FailKeepsIInv, CompleteQuestKeepsIInv DEF Next

\* The invariant holds in every behaviour.
THEOREM Invariance == Spec => []IInv
BY InitIInv, NextKeepsIInv, PTL DEF Spec

\* Every variable keeps its type, for any number of clients, quests and entries.
THEOREM TypeCorrect == Spec => []TypeOK
<1>1. IInv => TypeOK
  BY DEF IInv
<1> QED
  BY <1>1, Invariance, PTL

\* The register and the journal agree on what has been settled, however calls overlap.
THEOREM RegisterInStep == Spec => []StatusFollowsJournal
<1>1. IInv => StatusFollowsJournal
  BY DEF IInv
<1> QED
  BY <1>1, Invariance, PTL

-------------------------------------------------------------------------------
(* Closed quests rest.                                                     *)

\* A quest that is closed stays closed and keeps its reward and its settlements.
Rests(q) ==
    /\ quests'[q].status = quests[q].status
    /\ quests'[q].promised = quests[q].promised
    /\ Settlements(q)' = Settlements(q)

\* An entry for another quest, or for none, is no settlement of this one.
LEMMA SettlementsStay ==
  ASSUME TypeOK, NEW q \in QuestIds, NEW e \in EntryIds,
         NEW quest, NEW memo, NEW cash, NEW loss, NEW reverses, quest # q,
         NEW amended,
         \/ amended = entries
         \/ \E o \in EntryIds : IsEntry(o) /\ amended = [entries EXCEPT ![o].status = "reversed"],
         InsertEntry(e, quest, memo, cash, loss, reverses, amended)
  PROVE  Settlements(q)' = Settlements(q)
<1> DEFINE new == [quest |-> quest, memo |-> memo, cash |-> cash, loss |-> loss,
                   status |-> "posted", reverses |-> reverses]
<1>1. entries[e] = None /\ entries' = [amended EXCEPT ![e] = new]
  BY DEF InsertEntry
<1>2. new.quest = quest /\ ~IsEntry(e)
  BY <1>1 DEF IsEntry
<1> HIDE DEF new
<1>3. /\ DOMAIN amended = EntryIds
      /\ \A f \in EntryIds : IsEntry(f) => amended[f] # None /\ amended[f].quest = entries[f].quest
      /\ \A f \in EntryIds : ~IsEntry(f) => amended[f] = None
  <2>1. CASE amended = entries
    BY <2>1 DEF TypeOK, IsEntry
  <2>2. CASE \E o \in EntryIds :
               IsEntry(o) /\ amended = [entries EXCEPT ![o].status = "reversed"]
    <3>1. PICK o \in EntryIds :
             IsEntry(o) /\ amended = [entries EXCEPT ![o].status = "reversed"]
      BY <2>2
    <3>2. entries[o] \in Entry
      BY <3>1, RowsAreNotNone
    <3> DEFINE marked == [entries[o] EXCEPT !.status = "reversed"]
    <3>3. marked \in Entry /\ marked.quest = entries[o].quest
      BY <3>2, EntryMarked
    <3>4. amended = [entries EXCEPT ![o] = marked]
      BY <3>1 DEF TypeOK
    <3> HIDE DEF marked
    <3> QED
      BY <3>1, <3>3, <3>4, ConstantsAssumption DEF TypeOK, IsEntry
  <2> QED
    BY <2>1, <2>2
<1>4. entries'[e] = new /\ \A f \in EntryIds \ {e} : entries'[f] = amended[f]
  BY <1>1, <1>3
<1>5. ASSUME NEW f \in EntryIds
      PROVE  (IsEntry(f)' /\ entries'[f].quest = q) <=> (IsEntry(f) /\ entries[f].quest = q)
  BY <1>2, <1>3, <1>4 DEF IsEntry
<1> QED
  BY <1>5 DEF Settlements

\* Settlements stay while the journal does.
LEMMA SettlementsOfJournal ==
  ASSUME NEW q \in QuestIds, UNCHANGED entries
  PROVE  Settlements(q)' = Settlements(q)
BY DEF Settlements, IsEntry

\* No step of a client that has the database to itself disturbs a quest that is closed.
LEMMA NextRests ==
  ASSUME IInv, [Next]_vars, SoleClient, NEW q \in QuestIds, IsQuest(q), quests[q].status \in Closed
  PROVE  Rests(q)
<1>0. TypeOK /\ \A s \in online : call[s] \in Call /\ Begun(call[s]) /\ Steady(call[s])
  BY DEF IInv, TypeOK
<1>1. ASSUME UNCHANGED <<quests, entries>> PROVE Rests(q)
  BY <1>1, SettlementsOfJournal DEF Rests
<1>2. ASSUME NEW s \in online, EditStep(s) PROVE Rests(q)
  <2>1. ASSUME NEW r \in QuestIds, NEW title \in Titles, NEW promised \in Rewards,
               NEW status \in QuestStatus, CreateQuest(s, r, title, promised, status)
        PROVE  Rests(q)
    <3>1. ~IsQuest(r) /\ UNCHANGED entries /\ \A x \in QuestIds \ {r} : quests'[x] = quests[x]
      BY <1>0, <2>1 DEF CreateQuest, TypeOK
    <3> QED
      BY <3>1, SettlementsOfJournal DEF Rests
  <2>2. CASE CommitUpdate(s)
    <3> DEFINE r == call[s].quest
               title == call[s].title
               promised == call[s].promised
    <3>1. /\ call[s].op = "editing" /\ UNCHANGED entries
          /\ quests' = [quests EXCEPT ![r].title = title, ![r].promised = promised]
      BY <2>2 DEF CommitUpdate
    <3>2. r \in QuestIds /\ IsQuest(r)
      BY <1>0, <3>1, CallShapes DEF Begun
    <3>3. quests[r].status \in Closed => promised = quests[r].promised
      BY <1>0, <3>1 DEF Steady
    <3> HIDE DEF r, title, promised
    <3>4. quests[r] \in Quest
      BY <1>0, <3>2, RowsAreNotNone
    <3> DEFINE new == [quests[r] EXCEPT !.title = title, !.promised = promised]
    <3>5. new.status = quests[r].status /\ new.promised = promised
      BY <3>4 DEF Quest
    <3>6. quests' = [quests EXCEPT ![r] = new]
      BY <1>0, <3>1, <3>2 DEF TypeOK
    <3> HIDE DEF new
    <3>7. /\ quests'[q].status = quests[q].status
          /\ quests'[q].promised = quests[q].promised
      BY <1>0, <3>2, <3>3, <3>5, <3>6 DEF TypeOK
    <3> QED
      BY <3>1, <3>7, SettlementsOfJournal DEF Rests
  <2>3. CASE \E r \in QuestIds, title \in Titles, promised \in Rewards :
               ReadForUpdate(s, r, title, promised)
    BY <1>1, <2>3 DEF ReadForUpdate
  <2> QED
    BY <1>2, <2>1, <2>2, <2>3 DEF EditStep
<1>3. ASSUME NEW s \in online, CommitCollect(s) \/ CommitWriteOff(s) PROVE Rests(q)
  <2>1. call[s].op = "totalled"
    BY <1>3 DEF CommitCollect, CommitWriteOff
  <2>2. PICK r \in QuestIds : r = call[s].row.quest
    BY <1>0, <2>1, CallShapes DEF Settling
  <2>3. r # q
    BY <1>0, <2>1, <2>2 DEF Steady
  <2>4. \A x \in QuestIds \ {r} : quests'[x] = quests[x]
    BY <1>0, <1>3, <2>2 DEF CommitCollect, CommitWriteOff, TypeOK
  <2>5. \E e \in EntryIds : \E memo, cash, loss :
           InsertEntry(e, r, memo, cash, loss, None, entries)
    BY <1>3, <2>2 DEF CommitCollect, CommitWriteOff
  <2>6. Settlements(q)' = Settlements(q)
    BY <1>0, <2>3, <2>5, SettlementsStay
  <2> QED
    BY <2>3, <2>4, <2>6 DEF Rests
<1>4. ASSUME NEW s \in online, SettlementStep(s) PROVE Rests(q)
  BY <1>1, <1>3, <1>4 DEF SettlementStep, ListReceivable, CollectAmount, SettleListed, ReadQuest,
                          ReadTotalPaid
<1>5. ASSUME NEW s \in online, JournalStep(s) PROVE Rests(q)
  <2>1. None # q
    BY ConstantsAssumption
  <2>2. ASSUME NEW title \in Titles, NEW cash \in HandPosted, PostByHand(s, title, cash)
        PROVE  Rests(q)
    <3>1. UNCHANGED quests /\ \E e \in EntryIds : InsertEntry(e, None, title, cash, 0, None, entries)
      BY <2>2 DEF PostByHand
    <3>2. Settlements(q)' = Settlements(q)
      BY <1>0, <2>1, <3>1, SettlementsStay
    <3> QED
      BY <3>1, <3>2 DEF Rests
  <2>3. CASE CommitReversal(s)
    <3>1. UNCHANGED quests /\ call[s].op = "reversing"
      BY <2>3 DEF CommitReversal
    <3>2. PICK o \in EntryIds : o = call[s].entry /\ IsEntry(o)
      BY <1>0, <3>1, CallShapes DEF Begun
    <3>3. \E e \in EntryIds : \E memo, cash, loss :
             InsertEntry(e, None, memo, cash, loss, o, [entries EXCEPT ![o].status = "reversed"])
      BY <2>3, <3>2 DEF CommitReversal
    <3>4. Settlements(q)' = Settlements(q)
      BY <1>0, <2>1, <3>2, <3>3, SettlementsStay
    <3> QED
      BY <3>1, <3>4 DEF Rests
  <2> QED
    BY <1>1, <1>5, <2>2, <2>3 DEF JournalStep, ReadForReversal
<1>6. ASSUME NEW r \in QuestIds, CompleteQuest(r) PROVE Rests(q)
  <2>1. r # q /\ UNCHANGED entries /\ quests'[q] = quests[q]
    BY <1>0, <1>6 DEF CompleteQuest, TypeOK, Closed
  <2> QED
    BY <2>1, SettlementsOfJournal DEF Rests
<1> QED
  BY <1>1, <1>2, <1>4, <1>5, <1>6 DEF Next, vars, Fail

\* What a client that has the database to itself has settled, or a quest that is voided, stays
\* settled at its reward, and nothing more is posted for it.
THEOREM ClosedQuestsRest == Spec => SoleClosedQuestsRest
<1>1. ASSUME IInv, [Next]_vars
      PROVE  [SoleClient =>
                \A q \in QuestIds :
                    IsQuest(q) /\ quests[q].status \in {"paid", "defaulted", "voided"} =>
                        /\ quests'[q].status = quests[q].status
                        /\ quests'[q].promised = quests[q].promised
                        /\ Settlements(q)' = Settlements(q)]_vars
  BY <1>1, NextRests DEF Rests, Closed
<1> QED
  BY <1>1, Invariance, PTL DEF Spec, SoleClosedQuestsRest

-------------------------------------------------------------------------------
(* What has been paid is the net cash.                                     *)

\* An entry leads to the origin of the one it reverses, and to itself if it reverses none.
LEMMA OriginFollows ==
  ASSUME IInv, NEW e \in EntryIds
  PROVE  OriginOf(e) = IF IsEntry(e) /\ entries[e].reverses # None
                       THEN OriginOf(entries[e].reverses) ELSE e
<1> DEFINE o == CHOOSE origin : origin = [f \in EntryIds |->
                    IF IsEntry(f) /\ entries[f].reverses # None
                    THEN origin[entries[f].reverses] ELSE f]
<1>1. \A x : OriginOf(x) = o[x]
  BY DEF OriginOf
<1>2. Leads(o)
  BY DEF IInv, OriginsDefined, Leads
<1> HIDE DEF o
<1>3. o[e] = IF IsEntry(e) /\ entries[e].reverses # None THEN o[entries[e].reverses] ELSE e
  BY <1>2 DEF Leads
<1> QED
  BY <1>1, <1>3

\* Two elements of a set that has at most one are the same.
LEMMA AtMostOne ==
  ASSUME NEW S, IsFiniteSet(S), Cardinality(S) <= 1, NEW a \in S, NEW b \in S
  PROVE  a = b
<1> SUFFICES ASSUME a # b PROVE FALSE
  OBVIOUS
<1>1. IsFiniteSet({a}) /\ Cardinality({a}) = 1
  BY FS_Singleton
<1>2. IsFiniteSet({a} \cup {b}) /\ Cardinality({a} \cup {b}) = 2
  <2>1. b \notin {a}
    OBVIOUS
  <2>2. Cardinality({a} \cup {b}) = Cardinality({a}) + 1
    BY <1>1, <2>1, FS_AddElement
  <2> QED
    BY <1>1, <2>2, FS_AddElement
<1>3. {a} \cup {b} \subseteq S
  OBVIOUS
<1>4. Cardinality({a} \cup {b}) <= Cardinality(S) /\ Cardinality(S) \in Nat
  BY <1>3, FS_Subset, FS_CardinalityType
<1> QED
  BY <1>2, <1>4

\* The hypothesis of TotalPaidIsNetCash for a quest: no entry is reversed twice, and the memo
\* that is the quest's title tells its entries from others.
Told(q) ==
    \A e \in EntryIds : IsEntry(e) =>
        /\ Cardinality(Reversals(e)) <= 1
        /\ entries[e].cash # 0 => (entries[e].memo = quests[q].title <=> e \in EntriesOf(q))

\* What the entries of a quest are to each other.
LEMMA EntriesOfQuest ==
  ASSUME IInv, NEW q \in QuestIds, IsQuest(q), Told(q)
  PROVE  /\ \A e \in EntriesOf(q) : entries[e] \in Entry /\ entries[e].cash \in Int
                                    /\ (entries[e].status = "posted" \/ entries[e].status = "reversed")
         /\ \A e \in EntryIds : IsEntry(e) /\ entries[e].reverses = None =>
               (e \in EntriesOf(q) <=> entries[e].quest = q)
         /\ \A e \in EntryIds : IsEntry(e) /\ entries[e].reverses # None =>
               /\ entries[e].reverses \in EntryIds
               /\ entries[e].quest = None
               /\ e \in EntriesOf(q) <=> entries[e].reverses \in EntriesOf(q)
<1>0. TypeOK /\ EntriesSound
  BY DEF IInv
<1>1. ASSUME NEW e \in EntryIds, IsEntry(e)
      PROVE  /\ entries[e] \in Entry /\ entries[e].cash \in Int
             /\ (entries[e].status = "posted" \/ entries[e].status = "reversed")
  <2>1. entries[e] \in Entry
    BY <1>0, <1>1, RowsAreNotNone
  <2> QED
    BY <2>1 DEF Entry
<1>2. ASSUME NEW e \in EntryIds, IsEntry(e), entries[e].reverses = None
      PROVE  e \in EntriesOf(q) <=> entries[e].quest = q
  BY <1>2, OriginFollows DEF EntriesOf
<1>3. ASSUME NEW e \in EntryIds, IsEntry(e), entries[e].reverses # None
      PROVE  /\ entries[e].reverses \in EntryIds
             /\ entries[e].quest = None
             /\ e \in EntriesOf(q) <=> entries[e].reverses \in EntriesOf(q)
  <2>1. /\ entries[e].quest = None
        /\ IsEntry(entries[e].reverses)
    BY <1>0, <1>3 DEF EntriesSound, EntrySound
  <2>2. entries[e].reverses \in EntryIds
    BY <1>1, <1>3 DEF Entry
  <2>3. OriginOf(e) = OriginOf(entries[e].reverses)
    BY <1>3, OriginFollows
  <2> QED
    BY <1>3, <2>1, <2>2, <2>3 DEF EntriesOf
<1> QED
  BY <1>1, <1>2, <1>3 DEF EntriesOf

\* The entries that are counted are the posted ones of the quest that brought cash in.
LEMMA CountedEntries ==
  ASSUME IInv, NEW q \in QuestIds, IsQuest(q), Told(q), NEW e \in EntryIds, IsEntry(e),
         entries[e].cash > 0
  PROVE  PaysFor(e, q, quests[q].title) <=> e \in EntriesOf(q)
<1>0. entries[e].cash # 0
  <2>1. entries[e].cash \in Int
    BY RowsAreNotNone DEF IInv, Entry
  <2> QED
    BY <2>1
<1>1. entries[e].memo = quests[q].title <=> e \in EntriesOf(q)
  BY <1>0 DEF Told
<1>2. entries[e].quest = q => e \in EntriesOf(q)
  BY EntriesOfQuest, ConstantsAssumption
<1>3. e \in EntriesOf(q) => entries[e].quest \in {q, None}
  BY EntriesOfQuest
<1> QED
  BY <1>1, <1>2, <1>3 DEF PaysFor

\* An entry of the quest that took cash out reverses one that had brought it in; and the
\* other way round, one that brought cash in and was reversed has a reversal that took it out.
LEMMA OppositeEntries ==
  ASSUME IInv, NEW q \in QuestIds, IsQuest(q), Told(q), NEW e \in EntriesOf(q)
  PROVE  /\ entries[e].cash < 0 =>
              /\ e \in Reversals(entries[e].reverses)
              /\ entries[e].reverses \in EntriesOf(q)
              /\ entries[entries[e].reverses].status = "reversed"
              /\ entries[entries[e].reverses].cash = - entries[e].cash
         /\ entries[e].status = "reversed" =>
              /\ Reversals(e) # {}
              /\ \A r \in Reversals(e) :
                    r \in EntriesOf(q) /\ entries[r].cash = - entries[e].cash
                    /\ entries[r].reverses = e
<1>0. TypeOK /\ EntriesSound /\ e \in EntryIds /\ IsEntry(e)
  BY DEF IInv, EntriesOf
<1>1. ASSUME entries[e].cash < 0
      PROVE  /\ e \in Reversals(entries[e].reverses)
             /\ entries[e].reverses \in EntriesOf(q)
             /\ entries[entries[e].reverses].status = "reversed"
             /\ entries[entries[e].reverses].cash = - entries[e].cash
  <2>1. entries[e].reverses # None
    <3>1. SUFFICES ASSUME entries[e].reverses = None PROVE FALSE
      OBVIOUS
    <3>2. entries[e].quest = q
      BY <1>0, <3>1, EntriesOfQuest
    <3>3. entries[e].cash >= 0 /\ entries[e].cash \in Int
      BY <1>0, <3>2, EntriesOfQuest, ConstantsAssumption DEF EntriesSound, EntrySound
    <3> QED
      BY <1>1, <3>3
  <2>2. entries[e].reverses \in EntriesOf(q)
    BY <1>0, <2>1, EntriesOfQuest
  <2> QED
    BY <1>0, <2>1, <2>2 DEF EntriesSound, EntrySound, Reversals
<1>2. ASSUME entries[e].status = "reversed", NEW r \in Reversals(e)
      PROVE  r \in EntriesOf(q) /\ entries[r].cash = - entries[e].cash /\ entries[r].reverses = e
  <2>1. r \in EntryIds /\ IsEntry(r) /\ entries[r].reverses = e /\ e # None
    BY <1>0, ConstantsAssumption DEF Reversals
  <2>2. entries[e].cash = - entries[r].cash
    BY <1>0, <2>1 DEF EntriesSound, EntrySound
  <2>3. r \in EntriesOf(q)
    BY <2>1, EntriesOfQuest
  <2>4. entries[r].cash \in Int /\ entries[e].cash \in Int
    BY <2>3, EntriesOfQuest
  <2> QED
    BY <2>1, <2>2, <2>3, <2>4
<1>3. entries[e].status = "reversed" => Reversals(e) # {}
  BY <1>0 DEF EntriesSound, EntrySound
<1> QED
  BY <1>1, <1>2, <1>3

\* In the sum over the quest's entries what was reversed and its reversals cancel out.
LEMMA PaidIsNetCash ==
  ASSUME IInv, NEW q \in QuestIds, IsQuest(q), Told(q)
  PROVE  QueryQuestTotalPaid(q, quests[q].title) = TotalCash(EntriesOf(q))
<1> DEFINE E == EntriesOf(q)
           cash == [e \in E |-> entries[e].cash]
           Paying == {e \in E : entries[e].cash > 0 /\ entries[e].status = "posted"}
           Undone == {e \in E : entries[e].cash > 0 /\ entries[e].status = "reversed"}
           Undoing == {e \in E : entries[e].cash < 0}
           Rest == {e \in E : entries[e].cash = 0}
           reversal == [e \in Undone |-> CHOOSE r \in Reversals(e) : TRUE]
<1>1. /\ E \subseteq EntryIds
      /\ \A e \in E : IsEntry(e) /\ entries[e].cash \in Int
                      /\ (entries[e].status = "posted" \/ entries[e].status = "reversed")
  BY EntriesOfQuest DEF EntriesOf
<1>2. \A e \in E : cash[e] = entries[e].cash /\ cash[e] \in Int
  BY <1>1
<1>3. TotalCash(E) = SumFunctionOnSet(cash, E)
  BY DEF TotalCash, SumFunction
<1>4. IsFiniteSet(E)
  BY <1>1, FS_Subset, ConstantsAssumption
<1>5. QueryQuestTotalPaid(q, quests[q].title) = SumFunctionOnSet(cash, Paying)
  <2> DEFINE paid == [e \in Paying |-> entries[e].cash]
  <2>1. {e \in EntryIds : /\ IsEntry(e)
                          /\ entries[e].status = "posted"
                          /\ entries[e].cash > 0
                          /\ PaysFor(e, q, quests[q].title)} = Paying
    BY <1>1, CountedEntries
  <2>2. QueryQuestTotalPaid(q, quests[q].title) = TotalCash(Paying)
    <3> HIDE DEF Paying
    <3> QED
      BY <2>1 DEF QueryQuestTotalPaid
  <2>3. TotalCash(Paying) = SumFunctionOnSet(paid, Paying)
    <3> HIDE DEF Paying
    <3> QED
      BY DEF TotalCash, SumFunction
  <2>4. \A e \in Paying : paid[e] = cash[e]
    BY <1>2
  <2>5. IsFiniteSet(Paying)
    <3>1. Paying \subseteq E
      OBVIOUS
    <3> HIDE DEF Paying, E
    <3> QED
      BY <1>4, <3>1, FS_Subset
  <2> HIDE DEF paid, cash, Paying
  <2>6. SumFunctionOnSet(paid, Paying) = SumFunctionOnSet(cash, Paying)
    BY <2>4, <2>5, SumOfSame
  <2> QED
    BY <2>2, <2>3, <2>6
<1>6. /\ Paying \subseteq E /\ Undone \subseteq E /\ Undoing \subseteq E /\ Rest \subseteq E
      /\ Paying \cap Undone = {} /\ (Paying \cup Undone) \cap Undoing = {}
      /\ ((Paying \cup Undone) \cup Undoing) \cap Rest = {}
      /\ E = ((Paying \cup Undone) \cup Undoing) \cup Rest
  BY <1>1
<1>7. \A e \in Rest : cash[e] = 0
  BY <1>2
<1>8. ASSUME NEW e \in Undone
      PROVE  /\ reversal[e] \in Reversals(e) /\ reversal[e] \in Undoing
             /\ entries[reversal[e]].reverses = e
             /\ cash[reversal[e]] = - cash[e]
  <2>1. PICK r \in Reversals(e) : r = reversal[e]
    BY OppositeEntries
  <2>2. r \in E /\ entries[r].cash = - entries[e].cash /\ entries[r].reverses = e
    BY OppositeEntries
  <2>3. entries[r].cash < 0
    BY <1>1, <2>2
  <2> QED
    BY <1>2, <2>1, <2>2, <2>3
<1>9. ASSUME NEW r \in Undoing
      PROVE  \E e \in Undone : r = reversal[e]
  <2>1. PICK e : e = entries[r].reverses
    OBVIOUS
  <2>2. r \in Reversals(e) /\ e \in E /\ entries[e].status = "reversed"
        /\ entries[e].cash = - entries[r].cash
    BY <2>1, OppositeEntries
  <2>3. e \in Undone
    BY <1>1, <2>2
  <2>4. reversal[e] \in Reversals(e)
    BY <1>8, <2>3
  <2>5. IsFiniteSet(Reversals(e)) /\ Cardinality(Reversals(e)) <= 1
    <3>1. Reversals(e) \subseteq EntryIds
      BY DEF Reversals
    <3> QED
      BY <1>1, <2>2, <3>1, FS_Subset, ConstantsAssumption DEF Told
  <2>6. r = reversal[e]
    <3> HIDE DEF reversal
    <3> QED
      BY <2>2, <2>4, <2>5, AtMostOne
  <2> QED
    BY <2>3, <2>6
<1>10. Undoing = {reversal[e] : e \in Undone}
  <2> HIDE DEF Undoing, Undone, reversal
  <2> QED
    BY <1>8, <1>9
<1>11. \A e, f \in Undone : reversal[e] = reversal[f] => e = f
  <2> HIDE DEF Undone, reversal
  <2> QED
    BY <1>8
<1>12. \A e \in Undone : cash[reversal[e]] = - cash[e]
  BY <1>8
<1> HIDE DEF E, cash, Paying, Undone, Undoing, Rest, reversal
<1>13. /\ IsFiniteSet(Paying) /\ IsFiniteSet(Undone) /\ IsFiniteSet(Undoing) /\ IsFiniteSet(Rest)
       /\ IsFiniteSet(Paying \cup Undone) /\ IsFiniteSet((Paying \cup Undone) \cup Undoing)
  BY <1>4, <1>6, FS_Subset, FS_Union
<1>14. /\ \A e \in Paying \cup Undone : cash[e] \in Int
       /\ \A e \in (Paying \cup Undone) \cup Undoing : cash[e] \in Int
       /\ \A e \in ((Paying \cup Undone) \cup Undoing) \cup Rest : cash[e] \in Int
  BY <1>2, <1>6
<1>15. SumFunctionOnSet(cash, Rest) = 0
  BY <1>7, <1>13, SumOfZeros
<1>16. SumFunctionOnSet(cash, Undoing) = - SumFunctionOnSet(cash, Undone)
  BY <1>10, <1>11, <1>12, <1>13, <1>14, SumOfOpposites
<1>17. SumFunctionOnSet(cash, Paying \cup Undone) =
         SumFunctionOnSet(cash, Paying) + SumFunctionOnSet(cash, Undone)
  BY <1>6, <1>13, <1>14, SumOfUnion
<1>18. SumFunctionOnSet(cash, (Paying \cup Undone) \cup Undoing) =
         SumFunctionOnSet(cash, Paying \cup Undone) + SumFunctionOnSet(cash, Undoing)
  BY <1>6, <1>13, <1>14, SumOfUnion
<1>19. SumFunctionOnSet(cash, E) =
         SumFunctionOnSet(cash, (Paying \cup Undone) \cup Undoing) + SumFunctionOnSet(cash, Rest)
  BY <1>6, <1>13, <1>14, SumOfUnion
<1>20. SumFunctionOnSet(cash, Paying) \in Int /\ SumFunctionOnSet(cash, Undone) \in Int
  BY <1>13, <1>14, SumIsInt
<1>21. SumFunctionOnSet(cash, E) = SumFunctionOnSet(cash, Paying)
  BY <1>15, <1>16, <1>17, <1>18, <1>19, <1>20
<1> QED
  BY <1>3, <1>5, <1>21 DEF E

\* What the query adds up is the net cash of the quest's payments, for any number of entries
\* and any order of reversals.
THEOREM PaidIsNet == Spec => []TotalPaidIsNetCash
<1>1. IInv => TotalPaidIsNetCash
  BY PaidIsNetCash DEF TotalPaidIsNetCash, Told
<1> QED
  BY <1>1, Invariance, PTL

===============================================================================
