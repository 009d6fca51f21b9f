----------------------------- MODULE LedgerProofs -----------------------------
(***************************************************************************)
(* Proofs about the journal and the chart of accounts, for any number of   *)
(* clients, campaigns, accounts and entries.                               *)
(***************************************************************************)
EXTENDS Ledger, FiniteSetTheorems, TLAPS

\* A function on 1..n with values in S is a sequence over S.
LEMMA FunctionIsSeq ==
  ASSUME NEW S, NEW n \in Nat, NEW f \in [1..n -> S]
  PROVE  f \in Seq(S) /\ Len(f) = n
OBVIOUS

\* The mirror image of stored lines is a list of lines: a reversal is stored
\* in the same shape as the entry it takes back.
LEMMA MirrorType ==
  ASSUME NEW lines \in Seq(Line)
  PROVE  /\ Mirror(lines) \in Seq(Line)
         /\ DOMAIN Mirror(lines) = DOMAIN lines
         /\ \A i \in DOMAIN lines : Mirror(lines)[i].account = lines[i].account
<1>1. DOMAIN lines = 1..Len(lines) /\ Len(lines) \in Nat /\ lines \in [1..Len(lines) -> Line]
  OBVIOUS
<1>2. \A i \in DOMAIN lines :
        /\ [lines[i] EXCEPT !.debit = lines[i].credit, !.credit = lines[i].debit] \in Line
        /\ [lines[i] EXCEPT !.debit = lines[i].credit, !.credit = lines[i].debit].account
              = lines[i].account
  BY <1>1 DEF Line
<1>3. Mirror(lines) \in [1..Len(lines) -> Line]
  BY <1>1, <1>2 DEF Mirror
<1> QED
  BY <1>1, <1>2, <1>3, FunctionIsSeq DEF Mirror

\* Resolving a draft gives lines that name active accounts of the campaign,
\* provided each code of the draft has one.
LEMMA ResolvedLinesType ==
  ASSUME NEW c \in Campaigns, NEW lines \in Seq(DraftLine),
         \A i \in DOMAIN lines : ActiveWithCode(c, lines[i].code) # {}
  PROVE  /\ ResolvedLines(c, lines) \in Seq(Line)
         /\ DOMAIN ResolvedLines(c, lines) = DOMAIN lines
         /\ \A i \in DOMAIN lines :
               ResolvedLines(c, lines)[i].account \in ActiveWithCode(c, lines[i].code)
<1>1. \A i \in DOMAIN lines :
        /\ lines[i] \in DraftLine
        /\ (CHOOSE a \in ActiveWithCode(c, lines[i].code) : TRUE) \in ActiveWithCode(c, lines[i].code)
  OBVIOUS
<1>2. \A code : ActiveWithCode(c, code) \subseteq AccountIds
  BY DEF ActiveWithCode, WithCode
<1>3. DOMAIN lines = 1..Len(lines) /\ Len(lines) \in Nat
  OBVIOUS
<1>4. \A i \in DOMAIN lines : ResolvedLines(c, lines)[i] \in Line
  BY <1>1, <1>2 DEF ResolvedLines, DraftLine, Line
<1>5. \A i \in DOMAIN lines :
        ResolvedLines(c, lines)[i].account \in ActiveWithCode(c, lines[i].code)
  BY <1>1 DEF ResolvedLines
<1>6. ResolvedLines(c, lines) \in [1..Len(lines) -> Line]
  BY <1>3, <1>4 DEF ResolvedLines
<1> QED
  BY <1>3, <1>5, <1>6, FunctionIsSeq DEF ResolvedLines

\* amended differs from the stored entries in statuses at most.
SameButStatus(amended) ==
    /\ amended \in [EntryIds -> Entry \cup {None}]
    /\ \A e \in EntryIds :
          /\ amended[e] = None <=> entries[e] = None
          /\ IsEntry(e) =>
                /\ amended[e].campaign = entries[e].campaign
                /\ amended[e].number = entries[e].number
                /\ amended[e].lines = entries[e].lines
                /\ amended[e].reverses = entries[e].reverses

\* The number a new entry gets is one more than the count of the campaign's
\* entries, when these are numbered without a gap.
LEMMA NextNumber ==
  ASSUME TypeOK, NumbersGapless, NEW c \in Campaigns
  PROVE  \E n \in Nat : Numbers(c) = 1..n /\ NextJournalEntryNumber(c) = n + 1
<1>1. Numbers(c) \subseteq Nat \ {0}
  BY DEF Numbers, IsEntry, TypeOK, Entry
<1>2. PICK n \in Nat : Numbers(c) = 1..n
  <2>1. CASE Numbers(c) = {}
    BY <2>1
  <2>2. CASE \E n \in Numbers(c) : Numbers(c) = 1..n
    BY <1>1, <2>2
  <2> QED
    BY <2>1, <2>2 DEF NumbersGapless
<1>3. n \in Numbers(c) \cup {0} /\ \A m \in Numbers(c) \cup {0} : m <= n /\ m \in Nat
  BY <1>2
<1>4. (CHOOSE k \in Numbers(c) \cup {0} : \A m \in Numbers(c) \cup {0} : m <= k) = n
  <2> DEFINE P(k) == k \in Numbers(c) \cup {0} /\ \A m \in Numbers(c) \cup {0} : m <= k
  <2>1. P(n)
    BY <1>3
  <2>2. \A k : P(k) => k = n
    BY <1>3
  <2>3. P(CHOOSE k : P(k))
    BY <2>1
  <2>4. (CHOOSE k : P(k)) = n
    BY <2>2, <2>3
  <2> QED
    BY <2>4
<1> QED
  BY <1>2, <1>4 DEF NextJournalEntryNumber

\* What InsertEntry leaves behind: the amended entries and a new one, still
\* well-typed and numbered without a gap in every campaign.
LEMMA InsertEffect ==
  ASSUME TypeOK, NumbersGapless, ConstantsAssumption,
         NEW c \in Campaigns, NEW lines \in Seq(Line), NEW reverses \in EntryIds \cup {None},
         NEW amended, SameButStatus(amended),
         InsertEntry(c, lines, reverses, amended)
  PROVE  \E e \in EntryIds :
            /\ entries[e] = None
            /\ entries' = [amended EXCEPT ![e] =
                  [campaign |-> c, number |-> NextJournalEntryNumber(c), status |-> "posted",
                   lines |-> lines, reverses |-> reverses]]
            /\ entries'[e] \in Entry
            /\ entries' \in [EntryIds -> Entry \cup {None}]
            /\ NumbersGapless'
<1> DEFINE new == [campaign |-> c, number |-> NextJournalEntryNumber(c), status |-> "posted",
                   lines |-> lines, reverses |-> reverses]
<1>1. PICK e \in EntryIds : entries[e] = None /\ entries' = [amended EXCEPT ![e] = new]
  BY DEF InsertEntry
<1>2. PICK n \in Nat : Numbers(c) = 1..n /\ NextJournalEntryNumber(c) = n + 1
  BY NextNumber
<1>3. new \in Entry /\ new # None
  BY <1>2 DEF Entry, ConstantsAssumption
<1>4. entries' \in [EntryIds -> Entry \cup {None}] /\ entries'[e] = new
  BY <1>1, <1>3 DEF SameButStatus
<1>5. \A f \in EntryIds \ {e} :
        /\ IsEntry(f)' <=> IsEntry(f)
        /\ IsEntry(f) => /\ entries'[f].campaign = entries[f].campaign
                         /\ entries'[f].number = entries[f].number
  BY <1>1 DEF SameButStatus, IsEntry
<1>6. IsEntry(e)' /\ ~IsEntry(e)
  BY <1>1, <1>3, <1>4 DEF IsEntry
<1>7. Numbers(c)' = Numbers(c) \cup {n + 1}
  BY <1>2, <1>4, <1>5, <1>6 DEF Numbers
<1>8. \A d \in Campaigns \ {c} : Numbers(d)' = Numbers(d)
  BY <1>4, <1>5, <1>6 DEF Numbers
<1>9. NumbersGapless'
  <2> SUFFICES ASSUME NEW d \in Campaigns
               PROVE  /\ Numbers(d)' = {} \/ \E m \in Numbers(d)' : Numbers(d)' = 1..m
                      /\ \A f, g \in EntryIds :
                            /\ IsEntry(f)' /\ IsEntry(g)'
                            /\ entries'[f].campaign = d /\ entries'[g].campaign = d
                            /\ entries'[f].number = entries'[g].number
                            => f = g
    BY DEF NumbersGapless
  <2>1. Numbers(d)' = {} \/ \E m \in Numbers(d)' : Numbers(d)' = 1..m
    <3>1. CASE d = c
      <4>1. Numbers(c)' = 1..(n + 1)
        BY <1>2, <1>7
      <4> QED
        BY <3>1, <4>1
    <3>2. CASE d # c
      BY <1>8, <3>2 DEF NumbersGapless
    <3> QED
      BY <3>1, <3>2
  <2>2. \A f \in EntryIds \ {e} : IsEntry(f) /\ entries[f].campaign = c => entries[f].number # n + 1
    <3>1. \A f \in EntryIds : IsEntry(f) /\ entries[f].campaign = c => entries[f].number \in Numbers(c)
      BY DEF Numbers
    <3> QED
      BY <1>2, <3>1
  <2>3. \A f, g \in EntryIds :
           /\ IsEntry(f)' /\ IsEntry(g)'
           /\ entries'[f].campaign = d /\ entries'[g].campaign = d
           /\ entries'[f].number = entries'[g].number
           => f = g
    <3> SUFFICES ASSUME NEW f \in EntryIds, NEW g \in EntryIds, IsEntry(f)', IsEntry(g)',
                        entries'[f].campaign = d, entries'[g].campaign = d,
                        entries'[f].number = entries'[g].number, f # g
                 PROVE  FALSE
      OBVIOUS
    <3>1. CASE f # e /\ g # e
      BY <1>5, <3>1 DEF NumbersGapless
    <3>2. CASE f = e
      BY <1>2, <1>4, <1>5, <2>2, <3>2
    <3>3. CASE g = e
      BY <1>2, <1>4, <1>5, <2>2, <3>3
    <3> QED
      BY <3>1, <3>2, <3>3
  <2> QED
    BY <2>1, <2>3
<1> QED
  BY <1>1, <1>3, <1>4, <1>9

-------------------------------------------------------------------------------
(* The inductive invariant and its preservation, one lemma per group of    *)
(* actions.                                                                *)

\* What a running call has read is still true enough to write from: the lines
\* of an entry to reverse have not changed, and a resolved account is of the
\* campaign unless it was deleted.  This links the calls to the tables; with it the
\* invariants of Ledger follow from each other.
CallsConsistent ==
    \A s \in Clients :
        /\ s \notin online => call[s] = Idle
        /\ call[s].op = "reversing" =>
              /\ IsEntry(call[s].entry)
              /\ call[s].lines = entries[call[s].entry].lines
        /\ call[s].op = "resolved" =>
              \A i \in DOMAIN call[s].lines :
                  LET a == call[s].lines[i].account
                  IN  /\ accounts[a] # None
                      /\ IsAccount(a) => accounts[a].campaign = call[s].campaign

IInv ==
    /\ TypeOK
    /\ NumbersGapless
    /\ LinesKeepTheirAccounts
    /\ ReversalsMirror
    /\ CallsConsistent

\* The seed is a chart of accounts without entries.
LEMMA InitIInv ==
  ASSUME ConstantsAssumption, Init
  PROVE  IInv
<1>1. TypeOK
  BY DEF Init, TypeOK, Call, ConstantsAssumption
<1>2. \A e \in EntryIds : ~IsEntry(e)
  BY DEF Init, IsEntry
<1>3. NumbersGapless
  BY <1>2 DEF NumbersGapless, Numbers
<1>4. LinesKeepTheirAccounts /\ ReversalsMirror
  BY <1>2 DEF LinesKeepTheirAccounts, ReversalsMirror, Reversals
<1>5. CallsConsistent
  BY DEF CallsConsistent, Init, Idle
<1> QED
  BY <1>1, <1>3, <1>4, <1>5 DEF IInv

\* The shape of what TypeOK says of stored lines and of resolved ones.
LEMMA SeqOfLines ==
  ASSUME NEW lines \in Seq(Line), NEW i \in DOMAIN lines
  PROVE  lines[i] \in Line /\ lines[i].account \in AccountIds
<1>1. lines[i] \in Line
  OBVIOUS
<1> QED
  BY <1>1 DEF Line

\* The lines of an entry name accounts.
LEMMA StoredLines ==
  ASSUME TypeOK, NEW e \in EntryIds, IsEntry(e)
  PROVE  /\ entries[e] \in Entry
         /\ entries[e].lines \in Seq(Line)
         /\ \A i \in DOMAIN entries[e].lines : entries[e].lines[i].account \in AccountIds
<1>1. entries[e] \in Entry
  BY DEF TypeOK, IsEntry
<1>2. entries[e].lines \in Seq(Line)
  BY <1>1 DEF Entry
<1> QED
  BY <1>1, <1>2, SeqOfLines

\* The lines a call carries name accounts.
LEMMA CallLines ==
  ASSUME TypeOK, NEW t \in Clients
  PROVE  /\ call[t] \in Call
         /\ call[t].op = "resolved" =>
               /\ call[t].campaign \in Campaigns
               /\ call[t].lines \in Seq(Line)
               /\ \A i \in DOMAIN call[t].lines : call[t].lines[i].account \in AccountIds
         /\ call[t].op = "reversing" => call[t].entry \in EntryIds /\ call[t].lines \in Seq(Line)
<1>1. call[t] \in Call
  BY DEF TypeOK
<1>2. call[t].op = "resolved" => call[t].campaign \in Campaigns /\ call[t].lines \in Seq(Line)
  BY <1>1 DEF Call, Idle
<1>3. call[t].op = "reversing" => call[t].entry \in EntryIds /\ call[t].lines \in Seq(Line)
  BY <1>1 DEF Call, Idle
<1> QED
  BY <1>1, <1>2, <1>3, SeqOfLines

\* What is said of the journal alone stays true while the journal is unchanged.
LEMMA JournalUnchanged ==
  ASSUME IInv, UNCHANGED entries
  PROVE  NumbersGapless' /\ ReversalsMirror'
<1>1. \A e \in EntryIds : IsEntry(e)' <=> IsEntry(e)
  BY DEF IsEntry
<1>2. \A c : Numbers(c)' = Numbers(c)
  BY DEF IsEntry, Numbers
<1>3. \A e : Reversals(e)' = Reversals(e)
  BY DEF IsEntry, Reversals
<1>4. NumbersGapless'
  BY <1>1, <1>2 DEF IInv, NumbersGapless
<1>5. ReversalsMirror'
  BY <1>1, <1>3 DEF IInv, ReversalsMirror
<1> QED
  BY <1>4, <1>5

\* Steps that write nothing but the caller's own record.
LEMMA CallOnly ==
  ASSUME IInv, NEW s \in Clients, NEW new \in Call, s \in online,
         call' = [call EXCEPT ![s] = new],
         UNCHANGED <<accounts, entries, online>>,
         new.op = "reversing" => IsEntry(new.entry) /\ new.lines = entries[new.entry].lines,
         new.op = "resolved" =>
            \A i \in DOMAIN new.lines :
                /\ accounts[new.lines[i].account] # None
                /\ IsAccount(new.lines[i].account) =>
                      accounts[new.lines[i].account].campaign = new.campaign
  PROVE  IInv'
<1>1. TypeOK'
  BY DEF IInv, TypeOK
<1>2. LinesKeepTheirAccounts'
  BY DEF IInv, LinesKeepTheirAccounts, IsEntry, IsAccount
<1>3. CallsConsistent'
  <2> SUFFICES ASSUME NEW t \in Clients
               PROVE  /\ t \notin online => call'[t] = Idle
                      /\ call'[t].op = "reversing" =>
                            /\ IsEntry(call'[t].entry)
                            /\ call'[t].lines = entries[call'[t].entry].lines
                      /\ call'[t].op = "resolved" =>
                            \A i \in DOMAIN call'[t].lines :
                                /\ accounts[call'[t].lines[i].account] # None
                                /\ IsAccount(call'[t].lines[i].account) =>
                                      accounts[call'[t].lines[i].account].campaign = call'[t].campaign
    BY DEF CallsConsistent, IsEntry, IsAccount
  <2>1. CASE t = s
    BY <2>1 DEF IInv, TypeOK
  <2>2. CASE t # s
    BY <2>2 DEF IInv, TypeOK, CallsConsistent
  <2> QED
    BY <2>1, <2>2
<1> QED
  BY <1>1, <1>2, <1>3, JournalUnchanged DEF IInv

\* Stored lines keep their accounts when the accounts they name stay in place.
LEMMA PostedAccountsStay ==
  ASSUME TypeOK, LinesKeepTheirAccounts, UNCHANGED entries,
         \A b \in AccountIds : IsPostedTo(b) /\ IsAccount(b) =>
             /\ accounts'[b] \notin {None, Deleted}
             /\ accounts'[b].campaign = accounts[b].campaign
  PROVE  LinesKeepTheirAccounts'
<1> SUFFICES ASSUME NEW e \in EntryIds, IsEntry(e), NEW i \in DOMAIN entries[e].lines,
                    NEW b, b = entries[e].lines[i].account
             PROVE  accounts'[b] \notin {None, Deleted} /\ accounts'[b].campaign = entries[e].campaign
  BY DEF LinesKeepTheirAccounts, IsEntry, IsAccount
<1>1. b \in AccountIds
  BY StoredLines
<1>2. IsPostedTo(b)
  BY DEF IsPostedTo
<1>3. IsAccount(b) /\ accounts[b].campaign = entries[e].campaign
  BY DEF LinesKeepTheirAccounts
<1> QED
  BY <1>1, <1>2, <1>3

\* Steps that work on accounts.
LEMMA AccountStepsKeepIInv ==
  ASSUME IInv, ConstantsAssumption, NEW s \in online, AccountStep(s)
  PROVE  IInv'
<1> USE DEF IInv
<1>0. s \in Clients /\ call[s] \in Call
  BY DEF TypeOK
<1>1. ASSUME NEW c \in Campaigns, NEW code \in Codes, NEW type \in NewTypes,
             CreateAccount(s, c, code, type)
      PROVE  IInv'
  <2> DEFINE row == [campaign |-> c, code |-> code, type |-> type, active |-> TRUE]
  <2>1. PICK a \in AccountIds : accounts[a] = None /\ accounts' = [accounts EXCEPT ![a] = row]
    BY <1>1 DEF CreateAccount
  <2>2. row \in AccountRow
    BY DEF AccountRow, ConstantsAssumption
  <2>3. \A b \in AccountIds \ {a} : accounts'[b] = accounts[b]
    BY <2>1 DEF TypeOK
  <2>4. TypeOK'
    BY <1>1, <2>1, <2>2 DEF CreateAccount, TypeOK
  <2>5. ~IsAccount(a)
    BY <2>1 DEF IsAccount
  <2>6. LinesKeepTheirAccounts'
    BY <1>1, <2>3, <2>5, PostedAccountsStay DEF CreateAccount, IsAccount
  <2>7. CallsConsistent'
    <3>1. \A t \in Clients : call[t].op = "resolved" =>
             \A i \in DOMAIN call[t].lines : call[t].lines[i].account \in AccountIds \ {a}
      BY <2>1, CallLines DEF CallsConsistent
    <3> QED
      BY <1>1, <2>3, <3>1 DEF CreateAccount, CallsConsistent, IsEntry, IsAccount
  <2> QED
    BY <1>1, <2>4, <2>6, <2>7, JournalUnchanged DEF CreateAccount
<1>2. ASSUME NEW c \in Campaigns, NEW code \in Codes, NEW active \in BOOLEAN,
             SetAccountActive(s, c, code, active)
      PROVE  IInv'
  <2>1. PICK a \in WithCode(c, code) : accounts' = [accounts EXCEPT ![a].active = active]
    BY <1>2 DEF SetAccountActive
  <2>2. a \in AccountIds /\ accounts[a] \in AccountRow
    BY DEF WithCode, IsAccount, TypeOK
  <2>3. /\ accounts' \in [AccountIds -> AccountRow \cup {None, Deleted}]
        /\ accounts'[a] \in AccountRow /\ accounts'[a].campaign = accounts[a].campaign
    BY <2>1, <2>2 DEF TypeOK, AccountRow
  <2>4. \A b \in AccountIds : /\ IsAccount(b) <=> IsAccount(b)'
                              /\ accounts[b] = None <=> accounts'[b] = None
                              /\ IsAccount(b) => accounts'[b].campaign = accounts[b].campaign
    BY <2>1, <2>2, <2>3 DEF IsAccount, TypeOK, ConstantsAssumption
  <2>5. TypeOK'
    BY <1>2, <2>3 DEF SetAccountActive, TypeOK
  <2>6. LinesKeepTheirAccounts'
    BY <1>2, <2>4, PostedAccountsStay DEF SetAccountActive, IsAccount
  <2>7. CallsConsistent'
    <3>1. \A t \in Clients : call[t].op = "resolved" =>
             \A i \in DOMAIN call[t].lines : call[t].lines[i].account \in AccountIds
      BY CallLines
    <3> QED
      BY <1>2, <2>4, <3>1 DEF SetAccountActive, CallsConsistent, IsEntry
  <2> QED
    BY <1>2, <2>5, <2>6, <2>7, JournalUnchanged DEF SetAccountActive
<1>3. ASSUME NEW c \in Campaigns, NEW code \in Codes, DeleteLookup(s, c, code)
      PROVE  IInv'
  <2>1. PICK a \in WithCode(c, code) : call' = [call EXCEPT ![s] = [op |-> "deleting", account |-> a]]
    BY <1>3 DEF DeleteLookup
  <2>2. [op |-> "deleting", account |-> a] \in Call
    BY DEF Call, WithCode
  <2> QED
    BY <1>0, <1>3, <2>1, <2>2, CallOnly DEF DeleteLookup
<1>4. ASSUME DeleteCount(s)
      PROVE  IInv'
  <2>1. call' = [call EXCEPT ![s] = [call[s] EXCEPT !.op = "counted"]]
    BY <1>0, <1>4 DEF DeleteCount
  <2>2. /\ [call[s] EXCEPT !.op = "counted"] \in Call
        /\ [call[s] EXCEPT !.op = "counted"].op = "counted"
    BY <1>0, <1>4 DEF DeleteCount, Call, Idle
  <2> QED
    BY <1>0, <1>4, <2>1, <2>2, CallOnly DEF DeleteCount
<1>5. ASSUME DeleteRow(s)
      PROVE  IInv'
  <2> DEFINE a == call[s].account
  <2>1. a \in AccountIds /\ IsAccount(a) /\ ~IsPostedTo(a)
    BY <1>0, <1>5 DEF DeleteRow, Call, Idle
  <2>2. \A b \in AccountIds : accounts'[b] = IF b = a THEN Deleted ELSE accounts[b]
    BY <1>5, <2>1 DEF DeleteRow, TypeOK
  <2>3. TypeOK'
    BY <1>0, <1>5, <2>1 DEF DeleteRow, Reply, TypeOK, Call
  <2>4. LinesKeepTheirAccounts'
    BY <1>5, <2>1, <2>2, PostedAccountsStay DEF DeleteRow, IsAccount
  <2>5. CallsConsistent'
    <3>1. \A t \in Clients : call'[t] = IF t = s THEN Idle ELSE call[t]
      BY <1>0, <1>5 DEF DeleteRow, Reply, TypeOK
    <3>2. \A t \in Clients : call[t].op = "resolved" =>
             \A i \in DOMAIN call[t].lines : call[t].lines[i].account \in AccountIds
      BY CallLines
    <3>3. \A b \in AccountIds : /\ accounts[b] # None => accounts'[b] # None
                                /\ IsAccount(b)' => IsAccount(b) /\ accounts'[b] = accounts[b]
      BY <2>2 DEF IsAccount, ConstantsAssumption
    <3> QED
      BY <1>5, <3>1, <3>2, <3>3 DEF DeleteRow, CallsConsistent, IsEntry, Idle
  <2> QED
    BY <1>5, <2>3, <2>4, <2>5, JournalUnchanged DEF DeleteRow
<1> QED
  BY <1>1, <1>2, <1>3, <1>4, <1>5 DEF AccountStep

\* A new entry whose lines name accounts of its campaign disturbs no other.
LEMMA NewLinesKeepTheirAccounts ==
  ASSUME TypeOK, LinesKeepTheirAccounts, UNCHANGED accounts,
         NEW amended, SameButStatus(amended),
         NEW e \in EntryIds, NEW new, new.lines \in Seq(Line), new.campaign \in Campaigns,
         entries' = [amended EXCEPT ![e] = new],
         \A i \in DOMAIN new.lines :
            /\ IsAccount(new.lines[i].account)
            /\ accounts[new.lines[i].account].campaign = new.campaign
  PROVE  LinesKeepTheirAccounts'
<1> SUFFICES ASSUME NEW f \in EntryIds, IsEntry(f)', NEW i \in DOMAIN entries'[f].lines
             PROVE  /\ IsAccount(entries'[f].lines[i].account)
                    /\ accounts[entries'[f].lines[i].account].campaign = entries'[f].campaign
  BY DEF LinesKeepTheirAccounts, IsAccount
<1>1. CASE f = e
  BY <1>1 DEF SameButStatus
<1>2. CASE f # e
  BY <1>2 DEF SameButStatus, LinesKeepTheirAccounts, IsEntry
<1> QED
  BY <1>1, <1>2

\* Steps of a posting, up to the transaction that numbers and inserts it.
LEMMA PostingStepsKeepIInv ==
  ASSUME IInv, ConstantsAssumption, NEW s \in online, PostingStep(s)
  PROVE  IInv'
<1> USE DEF IInv
<1>0. s \in Clients /\ call[s] \in Call
  BY DEF TypeOK
<1>1. ASSUME NEW c \in Campaigns, NEW kind \in {"expense", "income"}, NEW d \in Codes, NEW k \in Codes,
             NEW amount \in Amounts, CheckGuided(s, c, kind, d, k, amount)
      PROVE  IInv'
  <2> DEFINE dr == [code |-> d, debit |-> amount, credit |-> 0]
             cr == [code |-> k, debit |-> 0, credit |-> amount]
             new == [op |-> "checked", campaign |-> c, kind |-> kind, lines |-> <<dr, cr>>]
  <2>1. dr \in DraftLine /\ cr \in DraftLine
    BY DEF DraftLine, ConstantsAssumption
  <2>2. <<dr, cr>> \in Seq(DraftLine)
    BY <2>1
  <2>3. new \in Call
    BY <2>2 DEF Call, Kinds
  <2> QED
    BY <1>0, <1>1, <2>3, CallOnly DEF CheckGuided
<1>2. ASSUME NEW c \in Campaigns, NEW kind \in Kinds, NEW lines \in Seq(DraftLine),
             ResolveAccounts(s, c, kind, lines)
      PROVE  IInv'
  <2> DEFINE new == [op |-> "resolved", campaign |-> c, kind |-> kind, lines |-> ResolvedLines(c, lines)]
  <2>1. /\ ResolvedLines(c, lines) \in Seq(Line)
        /\ \A i \in DOMAIN ResolvedLines(c, lines) : \E code :
              ResolvedLines(c, lines)[i].account \in ActiveWithCode(c, code)
    BY <1>2, ResolvedLinesType DEF ResolveAccounts
  <2>2. new \in Call
    BY <2>1 DEF Call
  <2>3. \A a, code : a \in ActiveWithCode(c, code) =>
           accounts[a] # None /\ accounts[a].campaign = c
    BY DEF ActiveWithCode, WithCode, IsAccount
  <2>4. \A i \in DOMAIN new.lines :
           /\ accounts[new.lines[i].account] # None
           /\ IsAccount(new.lines[i].account) =>
                 accounts[new.lines[i].account].campaign = new.campaign
    BY <2>1, <2>3
  <2> QED
    BY <1>0, <1>2, <2>2, <2>4, CallOnly DEF ResolveAccounts
<1>3. ASSUME NEW c \in Campaigns, NEW lines \in Drafts, PostCustom(s, c, lines)
      PROVE  IInv'
  BY <1>2, <1>3 DEF PostCustom, Kinds, ConstantsAssumption
<1>4. ASSUME PostGuided(s)
      PROVE  IInv'
  <2>1. /\ call[s].campaign \in Campaigns
        /\ call[s].kind \in Kinds
        /\ call[s].lines \in Seq(DraftLine)
    BY <1>0, <1>4 DEF PostGuided, Call, Idle
  <2> QED
    BY <1>2, <1>4, <2>1 DEF PostGuided
<1>5. ASSUME CommitPosting(s)
      PROVE  IInv'
  <2> DEFINE c == call[s].campaign
             lines == call[s].lines
             new == [campaign |-> c, number |-> NextJournalEntryNumber(c), status |-> "posted",
                     lines |-> lines, reverses |-> None]
  <2>1. c \in Campaigns /\ lines \in Seq(Line)
    BY <1>0, <1>5, CallLines DEF CommitPosting
  <2>2. SameButStatus(entries)
    BY DEF SameButStatus, TypeOK
  <2>3. InsertEntry(c, lines, None, entries)
    BY <1>5 DEF CommitPosting
  <2>4. PICK e \in EntryIds :
            /\ entries[e] = None
            /\ entries' = [entries EXCEPT ![e] = new]
            /\ entries'[e] \in Entry
            /\ entries' \in [EntryIds -> Entry \cup {None}]
            /\ NumbersGapless'
    BY <2>1, <2>2, <2>3, InsertEffect
  <2>5. \A i \in DOMAIN lines :
           /\ IsAccount(lines[i].account)
           /\ accounts[lines[i].account].campaign = c
    BY <1>0, <1>5, <2>3 DEF InsertEntry, CommitPosting, CallsConsistent
  <2>6. TypeOK'
    BY <1>5, <2>4 DEF CommitPosting, Reply, TypeOK, Call
  <2>7. LinesKeepTheirAccounts'
    BY <1>5, <2>1, <2>2, <2>4, <2>5, NewLinesKeepTheirAccounts DEF CommitPosting
  <2>8. /\ entries'[e] = new /\ e \notin {f \in EntryIds : IsEntry(f)}
        /\ \A f \in EntryIds \ {e} : entries'[f] = entries[f]
    BY <2>4 DEF TypeOK, IsEntry
  <2>9. ReversalsMirror'
    <3>1. \A f \in EntryIds : Reversals(f)' = Reversals(f)
      BY <2>8, <2>4 DEF Reversals, IsEntry, ConstantsAssumption
    <3>2. Reversals(e) = {}
      BY <2>8 DEF ReversalsMirror
    <3>3. \A f \in EntryIds \ {e} : \A r \in Reversals(f) : r # e
      BY <2>8 DEF Reversals
    <3>4. \A f \in EntryIds \ {e} : IsEntry(f)' <=> IsEntry(f)
      BY <2>8 DEF IsEntry
    <3>5. ASSUME NEW f \in EntryIds \ {e}
          PROVE  /\ \A r \in Reversals(f)' :
                       /\ IsEntry(f)'
                       /\ entries'[r].campaign = entries'[f].campaign
                       /\ entries'[r].number > entries'[f].number
                       /\ entries'[r].lines = Mirror(entries'[f].lines)
                 /\ IsEntry(f)' => (entries'[f].status = "reversed" <=> Reversals(f)' # {})
      <4>1. Reversals(f) \subseteq EntryIds \ {e}
        BY <3>3 DEF Reversals
      <4> QED
        BY <2>8, <3>1, <3>4, <4>1 DEF ReversalsMirror
    <3>6. \A f \in EntryIds :
            /\ \A r \in Reversals(f)' :
                  /\ IsEntry(f)'
                  /\ entries'[r].campaign = entries'[f].campaign
                  /\ entries'[r].number > entries'[f].number
                  /\ entries'[r].lines = Mirror(entries'[f].lines)
            /\ IsEntry(f)' => (entries'[f].status = "reversed" <=> Reversals(f)' # {})
      BY <2>8, <3>1, <3>2, <3>5
    <3> QED
      BY <3>6 DEF ReversalsMirror
  <2>10. CallsConsistent'
    <3>1. \A t \in Clients : call'[t] = IF t = s THEN Idle ELSE call[t]
      BY <1>0, <1>5 DEF CommitPosting, Reply, TypeOK
    <3>2. \A f \in EntryIds : IsEntry(f) => IsEntry(f)' /\ entries'[f].lines = entries[f].lines
      BY <2>8 DEF IsEntry
    <3>3. \A t \in Clients : call[t].op = "reversing" => call[t].entry \in EntryIds
      BY CallLines
    <3> QED
      BY <1>5, <3>1, <3>2, <3>3 DEF CommitPosting, CallsConsistent, IsAccount, Idle
  <2> QED
    BY <2>4, <2>6, <2>7, <2>9, <2>10
<1> QED
  BY <1>1, <1>3, <1>4, <1>5 DEF PostingStep

\* Steps of a reversal: the read, and the transaction that may come late.
LEMMA ReversalStepsKeepIInv ==
  ASSUME IInv, ConstantsAssumption, NEW s \in online, ReversalStep(s)
  PROVE  IInv'
<1> USE DEF IInv
<1>0. s \in Clients /\ call[s] \in Call
  BY DEF TypeOK
<1>1. ASSUME NEW c \in Campaigns, NEW e \in EntryIds, ReadForReversal(s, c, e)
      PROVE  IInv'
  <2> DEFINE new == [op |-> "reversing", entry |-> e, lines |-> entries[e].lines]
  <2>1. new \in Call
    BY <1>1, StoredLines DEF ReadForReversal, Call
  <2> QED
    BY <1>0, <1>1, <2>1, CallOnly DEF ReadForReversal
<1>2. ASSUME CommitReversal(s)
      PROVE  IInv'
  <2>0. SUFFICES ASSUME NEW o, o = call[s].entry,
                      NEW c, c = entries[o].campaign,
                      NEW lines, lines = Mirror(call[s].lines),
                      NEW amended, amended = [entries EXCEPT ![o].status = "reversed"]
               PROVE  IInv'
    OBVIOUS
  <2> DEFINE new == [campaign |-> c, number |-> NextJournalEntryNumber(c), status |-> "posted",
                     lines |-> lines, reverses |-> o]
  <2>1. o \in EntryIds /\ IsEntry(o) /\ entries[o] \in Entry /\ call[s].lines = entries[o].lines
    <3>1. o \in EntryIds /\ IsEntry(o) /\ call[s].lines = entries[o].lines
      BY <1>0, <1>2, <2>0, CallLines DEF CommitReversal, CallsConsistent
    <3> QED
      BY <3>1, StoredLines
  <2>2. c \in Campaigns /\ entries[o].lines \in Seq(Line) /\ lines \in Seq(Line)
    BY <2>0, <2>1, MirrorType DEF Entry
  <2>3. /\ amended \in [EntryIds -> Entry \cup {None}]
        /\ amended[o] \in Entry /\ amended[o].status = "reversed"
        /\ amended[o].campaign = c /\ amended[o].number = entries[o].number
        /\ amended[o].lines = entries[o].lines /\ amended[o].reverses = entries[o].reverses
        /\ \A f \in EntryIds \ {o} : amended[f] = entries[f]
    BY <2>0, <2>1 DEF TypeOK, Entry
  <2>4. SameButStatus(amended)
    BY <2>0, <2>1, <2>3 DEF SameButStatus, IsEntry, ConstantsAssumption
  <2>5. InsertEntry(c, lines, o, amended)
    BY <1>2, <2>0 DEF CommitReversal
  <2>6. PICK e \in EntryIds :
            /\ entries[e] = None
            /\ entries' = [amended EXCEPT ![e] = new]
            /\ entries'[e] \in Entry
            /\ entries' \in [EntryIds -> Entry \cup {None}]
            /\ NumbersGapless'
    BY <2>1, <2>2, <2>4, <2>5, InsertEffect
  <2>7. \A i \in DOMAIN lines :
           /\ IsAccount(lines[i].account)
           /\ accounts[lines[i].account].campaign = c
    <3>1. \A i \in DOMAIN lines : i \in DOMAIN entries[o].lines
                                 /\ lines[i].account = entries[o].lines[i].account
      BY <2>0, <2>1, <2>2, MirrorType
    <3>2. \A i \in DOMAIN entries[o].lines :
             /\ IsAccount(entries[o].lines[i].account)
             /\ accounts[entries[o].lines[i].account].campaign = c
      BY <2>0, <2>1 DEF LinesKeepTheirAccounts
    <3> QED
      BY <3>1, <3>2
  <2>8. TypeOK'
    BY <1>2, <2>6 DEF CommitReversal, Reply, TypeOK, Call
  <2>9. LinesKeepTheirAccounts'
    BY <1>2, <2>2, <2>4, <2>6, <2>7, NewLinesKeepTheirAccounts DEF CommitReversal
  <2>10. /\ entries'[e] = new /\ ~IsEntry(e) /\ e # o
         /\ IsEntry(e)'
         /\ \A f \in EntryIds \ {e} : entries'[f] = amended[f]
    BY <2>1, <2>3, <2>6 DEF TypeOK, IsEntry, ConstantsAssumption
  <2>11. \A f \in EntryIds \ {e} :
            /\ IsEntry(f)' <=> IsEntry(f)
            /\ IsEntry(f) => /\ entries'[f].campaign = entries[f].campaign
                             /\ entries'[f].number = entries[f].number
                             /\ entries'[f].lines = entries[f].lines
                             /\ entries'[f].reverses = entries[f].reverses
    BY <2>4, <2>10 DEF SameButStatus, IsEntry
  <2>12. ReversalsMirror'
    <3>1. Reversals(o)' = Reversals(o) \cup {e}
      BY <2>10, <2>11 DEF Reversals
    <3>2. \A f \in EntryIds \ {o} : Reversals(f)' = Reversals(f)
      BY <2>10, <2>11 DEF Reversals
    <3>3. \A f : Reversals(f) \subseteq EntryIds \ {e}
      BY <2>10 DEF Reversals
    <3>4. Reversals(e) = {}
      BY <2>10 DEF ReversalsMirror
    <3>5. entries[o].number \in Numbers(c) /\ new.number > entries[o].number
      <4>1. entries[o].number \in Numbers(c)
        BY <2>0, <2>1 DEF Numbers
      <4>2. PICK n \in Nat : Numbers(c) = 1..n /\ NextJournalEntryNumber(c) = n + 1
        BY <2>2, NextNumber
      <4> QED
        BY <4>1, <4>2
    <3> DEFINE Sound(f, rs) ==
          /\ \A r \in rs :
                /\ IsEntry(f)'
                /\ entries'[r].campaign = entries'[f].campaign
                /\ entries'[r].number > entries'[f].number
                /\ entries'[r].lines = Mirror(entries'[f].lines)
          /\ IsEntry(f)' => (entries'[f].status = "reversed" <=> rs # {})
    <3>6. Sound(o, Reversals(o)')
      <4>1. IsEntry(o)' /\ entries'[o].status = "reversed"
        BY <2>1, <2>3, <2>10, <2>11
      <4>2. \A r \in Reversals(o) :
               /\ entries'[r].campaign = entries'[o].campaign
               /\ entries'[r].number > entries'[o].number
               /\ entries'[r].lines = Mirror(entries'[o].lines)
        <5>1. \A r \in Reversals(o) : r \in EntryIds \ {e} /\ IsEntry(r)
          BY <3>3 DEF Reversals
        <5> QED
          BY <2>0, <2>1, <2>10, <2>11, <5>1 DEF ReversalsMirror
      <4>3. /\ entries'[e].campaign = entries'[o].campaign
            /\ entries'[e].number > entries'[o].number
            /\ entries'[e].lines = Mirror(entries'[o].lines)
        BY <2>0, <2>1, <2>10, <2>11, <3>5
      <4> QED
        BY <3>1, <4>1, <4>2, <4>3
    <3>7. ASSUME NEW f \in EntryIds \ {o, e}
          PROVE  Sound(f, Reversals(f)')
      <4>1. \A r \in Reversals(f) : r \in EntryIds \ {e} /\ IsEntry(r)
        BY <3>3 DEF Reversals
      <4>2. entries'[f] = entries[f]
        BY <2>3, <2>10
      <4> QED
        BY <2>11, <3>2, <4>1, <4>2 DEF ReversalsMirror
    <3>8. Sound(e, Reversals(e)')
      BY <2>10, <3>2, <3>4
    <3>9. \A f \in EntryIds : Sound(f, Reversals(f)')
      BY <3>6, <3>7, <3>8
    <3> QED
      BY <3>9 DEF ReversalsMirror
  <2>13. CallsConsistent'
    <3>1. \A t \in Clients : call'[t] = IF t = s THEN Idle ELSE call[t]
      BY <1>0, <1>2 DEF CommitReversal, Reply, TypeOK
    <3>2. \A f \in EntryIds : IsEntry(f) => IsEntry(f)' /\ entries'[f].lines = entries[f].lines
      BY <2>10, <2>11
    <3>3. \A t \in Clients : call[t].op = "reversing" => call[t].entry \in EntryIds
      BY CallLines
    <3>4. Idle.op = "idle" /\ UNCHANGED <<accounts, online>>
      BY <1>2 DEF CommitReversal, Idle
    <3>5. CallsConsistent
      OBVIOUS
    <3> HIDE DEF IInv
    <3> QED
      BY <3>1, <3>2, <3>3, <3>4, <3>5 DEF CallsConsistent, IsAccount
  <2> QED
    BY <2>6, <2>8, <2>9, <2>12, <2>13
<1> QED
  BY <1>1, <1>2 DEF ReversalStep

\* A call that ends early changes no table.
LEMMA FailKeepsIInv ==
  ASSUME IInv, NEW s \in online, Fail(s)
  PROVE  IInv'
<1>1. s \in Clients
  BY DEF IInv, TypeOK
<1>2. Idle \in Call
  BY DEF Call
<1> QED
  BY <1>1, <1>2, CallOnly DEF Fail, Reply, Idle

\* No step breaks the invariant.
LEMMA NextKeepsIInv ==
  ASSUME IInv, ConstantsAssumption, [Next]_vars
  PROVE  IInv'
<1>1. CASE Next
  BY <1>1, AccountStepsKeepIInv, PostingStepsKeepIInv, ReversalStepsKeepIInv, FailKeepsIInv DEF Next
<1>2. CASE UNCHANGED vars
  <2>1. UNCHANGED entries /\ UNCHANGED accounts /\ UNCHANGED online /\ UNCHANGED call
    BY <1>2 DEF vars
  <2>2. TypeOK'
    BY <2>1 DEF IInv, TypeOK
  <2>3. LinesKeepTheirAccounts' /\ CallsConsistent'
    BY <2>1 DEF IInv, LinesKeepTheirAccounts, CallsConsistent, IsEntry, IsAccount
  <2> QED
    BY <2>1, <2>2, <2>3, JournalUnchanged DEF IInv
<1> QED
  BY <1>1, <1>2

\* The inductive invariant holds of every reachable state.
THEOREM Invariance == Spec => []IInv
<1>1. Init => IInv
  BY InitIInv, ConstantsAssumption
<1>2. IInv /\ [Next]_vars => IInv'
  BY NextKeepsIInv, ConstantsAssumption
<1> QED
  BY <1>1, <1>2, PTL DEF Spec

\* The tables and the running calls keep their declared shape.
THEOREM TypeCorrect == Spec => []TypeOK
<1>1. IInv => TypeOK
  BY DEF IInv
<1> QED
  BY <1>1, Invariance, PTL

\* Entry numbers have no gap and no repetition, however calls overlap.
THEOREM Numbering == Spec => []NumbersGapless
<1>1. IInv => NumbersGapless
  BY DEF IInv
<1> QED
  BY <1>1, Invariance, PTL

\* No stored line loses its account, and none names one of another campaign.
THEOREM LinesKeepAccounts == Spec => []LinesKeepTheirAccounts
<1>1. IInv => LinesKeepTheirAccounts
  BY DEF IInv
<1> QED
  BY <1>1, Invariance, PTL

\* Every reversal mirrors a later-marked original of its campaign.
THEOREM ReversalsAreMirrors == Spec => []ReversalsMirror
<1>1. IInv => ReversalsMirror
  BY DEF IInv
<1> QED
  BY <1>1, Invariance, PTL

-------------------------------------------------------------------------------
(* What a client that has the database to itself can rely on.              *)

\* UNIQUE (campaign_id, code) of table accounts.
CodesUnique ==
    \A a, b \in AccountIds :
        /\ IsAccount(a) /\ IsAccount(b)
        /\ accounts[a].campaign = accounts[b].campaign /\ accounts[a].code = accounts[b].code
        => a = b

\* Lines that a guided form may post: the first debits, the second credits an account
\* of the types the form demands.
GuidedAccounts(kind, debit, credit) ==
    /\ accounts[debit].type \in GuidedTypes(kind).debit
    /\ accounts[credit].type \in GuidedTypes(kind).credit

\* What a sole client's running call found in the chart of accounts is still there: the
\* accounts its guided form checked, or the active accounts its codes were resolved to.
SoleCallsSound ==
    SoleClient => \A s \in online :
        /\ call[s].op = "checked" =>
            /\ Len(call[s].lines) = 2
            /\ \E a \in ActiveWithCode(call[s].campaign, call[s].lines[1].code),
                  b \in ActiveWithCode(call[s].campaign, call[s].lines[2].code) :
                  GuidedAccounts(call[s].kind, a, b)
        /\ call[s].op = "resolved" =>
            /\ \A i \in DOMAIN call[s].lines : accounts[call[s].lines[i].account].active
            /\ call[s].kind # "custom" =>
                GuidedAccounts(call[s].kind, call[s].lines[1].account, call[s].lines[2].account)

SoleIInv == IInv /\ CodesUnique /\ SoleCallsSound

\* A step of a client that changes no account keeps the codes unique.
LEMMA CodesStay ==
  ASSUME CodesUnique, UNCHANGED accounts
  PROVE  CodesUnique'
BY DEF CodesUnique, IsAccount

\* A code that is looked up twice, with nobody else at work, gives the same account.
LEMMA OneAccountPerCode ==
  ASSUME CodesUnique, NEW c, NEW code, NEW a \in ActiveWithCode(c, code)
  PROVE  (CHOOSE b \in ActiveWithCode(c, code) : TRUE) = a
<1>1. (CHOOSE b \in ActiveWithCode(c, code) : TRUE) \in ActiveWithCode(c, code)
  OBVIOUS
<1>2. \A b \in ActiveWithCode(c, code) : b = a
  BY DEF CodesUnique, ActiveWithCode, WithCode
<1> QED
  BY <1>1, <1>2

\* Creating, deactivating and deleting accounts leaves no two of a campaign with one code.
LEMMA AccountStepsKeepCodes ==
  ASSUME IInv, CodesUnique, ConstantsAssumption, NEW s \in online, AccountStep(s)
  PROVE  CodesUnique'
<1>1. accounts \in [AccountIds -> AccountRow \cup {None, Deleted}]
  BY DEF IInv, TypeOK
<1>2. ASSUME NEW c \in Campaigns, NEW code \in Codes, NEW type \in NewTypes,
             CreateAccount(s, c, code, type)
      PROVE  CodesUnique'
  <2>1. PICK a \in AccountIds :
          accounts' = [accounts EXCEPT ![a] =
              [campaign |-> c, code |-> code, type |-> type, active |-> TRUE]]
    BY <1>2 DEF CreateAccount
  <2>2. \A b \in AccountIds : IsAccount(b) =>
          ~(accounts[b].campaign = c /\ accounts[b].code = code)
    BY <1>2 DEF CreateAccount, WithCode
  <2>3. accounts'[a].campaign = c /\ accounts'[a].code = code
    BY <1>1, <2>1
  <2>4. \A b \in AccountIds \ {a} : accounts'[b] = accounts[b]
    BY <1>1, <2>1
  <2> QED
    BY <2>2, <2>3, <2>4 DEF CodesUnique, IsAccount
<1>3. ASSUME NEW c \in Campaigns, NEW code \in Codes, NEW active \in BOOLEAN,
             SetAccountActive(s, c, code, active)
      PROVE  CodesUnique'
  <2>1. PICK a \in WithCode(c, code) : accounts' = [accounts EXCEPT ![a].active = active]
    BY <1>3 DEF SetAccountActive
  <2>2. a \in AccountIds /\ IsAccount(a) /\ accounts[a] \in AccountRow
    BY <1>1, <2>1 DEF WithCode, IsAccount
  <2>3. accounts'[a].campaign = accounts[a].campaign /\ accounts'[a].code = accounts[a].code
    BY <1>1, <2>1, <2>2 DEF AccountRow
  <2>4. \A b \in AccountIds \ {a} : accounts'[b] = accounts[b]
    BY <1>1, <2>1
  <2> QED
    BY <2>2, <2>3, <2>4 DEF CodesUnique, IsAccount
<1>4. ASSUME DeleteRow(s)
      PROVE  CodesUnique'
  <2>1. \A b \in AccountIds : IsAccount(b)' => IsAccount(b) /\ accounts'[b] = accounts[b]
    BY <1>1, <1>4 DEF DeleteRow, IsAccount
  <2> QED
    BY <2>1 DEF CodesUnique
<1>5. ASSUME UNCHANGED accounts
      PROVE  CodesUnique'
  BY <1>5, CodesStay
<1> QED
  BY <1>2, <1>3, <1>4, <1>5 DEF AccountStep, DeleteLookup, DeleteCount

\* No step but those on accounts changes an account.
LEMMA AccountsStay ==
  ASSUME NEW s, PostingStep(s) \/ ReversalStep(s) \/ Fail(s)
  PROVE  UNCHANGED accounts
BY DEF PostingStep, CheckGuided, PostCustom, PostGuided, ResolveAccounts, CommitPosting,
       ReversalStep, ReadForReversal, CommitReversal, Fail

\* Resolving codes, with nobody else at work, finds active accounts, and for a guided
\* draft the ones that were checked.
LEMMA ResolvedSound ==
  ASSUME CodesUnique, NEW c \in Campaigns, NEW kind, NEW lines \in Seq(DraftLine),
         \A i \in DOMAIN lines : ActiveWithCode(c, lines[i].code) # {},
         kind # "custom" =>
            /\ Len(lines) = 2
            /\ \E a \in ActiveWithCode(c, lines[1].code), b \in ActiveWithCode(c, lines[2].code) :
                  GuidedAccounts(kind, a, b)
  PROVE  LET resolved == ResolvedLines(c, lines)
         IN  /\ \A i \in DOMAIN resolved : accounts[resolved[i].account].active
             /\ kind # "custom" =>
                  GuidedAccounts(kind, resolved[1].account, resolved[2].account)
<1> DEFINE resolved == ResolvedLines(c, lines)
<1>1. /\ DOMAIN resolved = DOMAIN lines
      /\ \A i \in DOMAIN lines : resolved[i].account \in ActiveWithCode(c, lines[i].code)
  BY ResolvedLinesType
<1>2. \A i \in DOMAIN resolved : accounts[resolved[i].account].active
  BY <1>1 DEF ActiveWithCode
<1>3. ASSUME kind # "custom"
      PROVE  GuidedAccounts(kind, resolved[1].account, resolved[2].account)
  <2>1. PICK a \in ActiveWithCode(c, lines[1].code), b \in ActiveWithCode(c, lines[2].code) :
          GuidedAccounts(kind, a, b)
    BY <1>3
  <2>2. 1 \in DOMAIN lines /\ 2 \in DOMAIN lines
    BY <1>3
  <2>3. resolved[1].account = a
    BY <2>1, <2>2, OneAccountPerCode DEF ResolvedLines
  <2>4. resolved[2].account = b
    BY <2>1, <2>2, OneAccountPerCode DEF ResolvedLines
  <2> QED
    BY <2>1, <2>3, <2>4
<1> QED
  BY <1>2, <1>3

\* A sole client's calls stay sound.
LEMMA NextKeepsSoleCalls ==
  ASSUME SoleIInv, ConstantsAssumption, NEW s \in online,
         AccountStep(s) \/ PostingStep(s) \/ ReversalStep(s) \/ Fail(s)
  PROVE  SoleCallsSound'
<1> DEFINE Good(new) ==
      /\ new.op = "checked" =>
          /\ Len(new.lines) = 2
          /\ \E a \in ActiveWithCode(new.campaign, new.lines[1].code),
                b \in ActiveWithCode(new.campaign, new.lines[2].code) :
                GuidedAccounts(new.kind, a, b)
      /\ new.op = "resolved" =>
          /\ \A i \in DOMAIN new.lines : accounts[new.lines[i].account].active
          /\ new.kind # "custom" =>
              GuidedAccounts(new.kind, new.lines[1].account, new.lines[2].account)
<1>1. /\ s \in Clients /\ call \in [Clients -> Call] /\ call[s] \in Call
      /\ online' = online
  BY DEF SoleIInv, IInv, TypeOK, AccountStep, CreateAccount, SetAccountActive, DeleteLookup,
         DeleteCount, DeleteRow, PostingStep, CheckGuided, PostCustom, PostGuided,
         ResolveAccounts, CommitPosting, ReversalStep, ReadForReversal, CommitReversal, Fail
<1> SUFFICES ASSUME SoleClient PROVE SoleCallsSound'
  BY <1>1 DEF SoleCallsSound, SoleClient
<1>2. \A t \in online : t = s
  BY DEF SoleClient
<1>3. ASSUME call'[s].op \notin {"checked", "resolved"}
      PROVE  SoleCallsSound'
  BY <1>1, <1>2, <1>3 DEF SoleCallsSound
<1>4. ASSUME NEW new, call' = [call EXCEPT ![s] = new], UNCHANGED accounts, Good(new)
      PROVE  SoleCallsSound'
  <2>1. call'[s] = new
    BY <1>1, <1>4
  <2> QED
    BY <1>1, <1>2, <1>4, <2>1
       DEF SoleCallsSound, GuidedAccounts, ActiveWithCode, WithCode, IsAccount
<1>5. ASSUME AccountStep(s)
      PROVE  SoleCallsSound'
  <2>1. call'[s].op \notin {"checked", "resolved"}
    BY <1>1, <1>5 DEF AccountStep, CreateAccount, SetAccountActive, DeleteLookup, DeleteCount,
                      DeleteRow, Reply, Idle, Call
  <2> QED
    BY <1>3, <2>1
<1>6. ASSUME NEW c \in Campaigns, NEW kind \in {"expense", "income"}, NEW d \in Codes,
             NEW k \in Codes, NEW amount \in Amounts, CheckGuided(s, c, kind, d, k, amount)
      PROVE  SoleCallsSound'
  <2> DEFINE dr == [code |-> d, debit |-> amount, credit |-> 0]
             cr == [code |-> k, debit |-> 0, credit |-> amount]
             new == [op |-> "checked", campaign |-> c, kind |-> kind, lines |-> <<dr, cr>>]
  <2>1. PICK a \in ActiveWithCode(c, d) : accounts[a].type \in GuidedTypes(kind).debit
    BY <1>6 DEF CheckGuided
  <2>2. PICK b \in ActiveWithCode(c, k) : accounts[b].type \in GuidedTypes(kind).credit
    BY <1>6 DEF CheckGuided
  <2>3. GuidedAccounts(kind, a, b)
    BY <2>1, <2>2 DEF GuidedAccounts
  <2>4. Good(new)
    BY <2>1, <2>2, <2>3
  <2> QED
    BY <1>4, <1>6, <2>4 DEF CheckGuided
<1>7. ASSUME NEW c \in Campaigns, NEW kind, NEW lines \in Seq(DraftLine),
             ResolveAccounts(s, c, kind, lines),
             kind # "custom" =>
                /\ Len(lines) = 2
                /\ \E a \in ActiveWithCode(c, lines[1].code),
                      b \in ActiveWithCode(c, lines[2].code) : GuidedAccounts(kind, a, b)
      PROVE  SoleCallsSound'
  <2> DEFINE new == [op |-> "resolved", campaign |-> c, kind |-> kind,
                     lines |-> ResolvedLines(c, lines)]
  <2>1. Good(new)
    BY <1>7, ResolvedSound DEF ResolveAccounts, SoleIInv
  <2> QED
    BY <1>4, <1>7, <2>1 DEF ResolveAccounts
<1>8. ASSUME NEW c \in Campaigns, NEW lines \in Drafts, PostCustom(s, c, lines)
      PROVE  SoleCallsSound'
  <2>1. lines \in Seq(DraftLine)
    BY DEF ConstantsAssumption
  <2> QED
    BY <1>7, <1>8, <2>1 DEF PostCustom
<1>9. ASSUME PostGuided(s)
      PROVE  SoleCallsSound'
  <2>1. call[s].campaign \in Campaigns /\ call[s].lines \in Seq(DraftLine)
    BY <1>1, <1>9 DEF PostGuided, Call, Idle
  <2>2. /\ Len(call[s].lines) = 2
        /\ \E a \in ActiveWithCode(call[s].campaign, call[s].lines[1].code),
              b \in ActiveWithCode(call[s].campaign, call[s].lines[2].code) :
              GuidedAccounts(call[s].kind, a, b)
    BY <1>9 DEF SoleIInv, SoleCallsSound, PostGuided
  <2>3. ResolveAccounts(s, call[s].campaign, call[s].kind, call[s].lines)
    BY <1>9 DEF PostGuided
  <2> QED
    BY <1>7, <2>1, <2>2, <2>3
<1>10. ASSUME CommitPosting(s) \/ ReversalStep(s) \/ Fail(s)
       PROVE  SoleCallsSound'
  <2>1. call'[s].op \notin {"checked", "resolved"}
    BY <1>1, <1>10 DEF CommitPosting, ReversalStep, ReadForReversal, CommitReversal, Fail,
                       Reply, Idle
  <2> QED
    BY <1>3, <2>1
<1> QED
  BY <1>5, <1>6, <1>8, <1>9, <1>10 DEF PostingStep

\* What a sole client relies on holds throughout.
LEMMA SoleInvariance == Spec => []SoleIInv
<1>1. Init => SoleIInv
  <2> SUFFICES ASSUME Init PROVE CodesUnique /\ SoleCallsSound
    BY InitIInv, ConstantsAssumption DEF SoleIInv
  <2>1. CodesUnique
    BY ConstantsAssumption DEF Init, CodesUnique, IsAccount
  <2>2. SoleCallsSound
    BY DEF Init, SoleCallsSound, Idle
  <2> QED
    BY <2>1, <2>2
<1>2. SoleIInv /\ [Next]_vars => SoleIInv'
  <2> SUFFICES ASSUME SoleIInv, [Next]_vars PROVE SoleIInv'
    OBVIOUS
  <2>1. IInv'
    BY NextKeepsIInv, ConstantsAssumption DEF SoleIInv
  <2>2. CASE UNCHANGED vars
    <3>1. CodesUnique'
      BY <2>2, CodesStay DEF vars, SoleIInv
    <3>2. SoleCallsSound'
      BY <2>2 DEF vars, SoleIInv, SoleCallsSound, SoleClient, GuidedAccounts,
                  ActiveWithCode, WithCode, IsAccount
    <3> QED
      BY <2>1, <3>1, <3>2 DEF SoleIInv
  <2>3. CASE Next
    <3>1. PICK s \in online : AccountStep(s) \/ PostingStep(s) \/ ReversalStep(s) \/ Fail(s)
      BY <2>3 DEF Next
    <3>2. CodesUnique'
      BY <3>1, AccountStepsKeepCodes, AccountsStay, CodesStay, ConstantsAssumption
         DEF SoleIInv
    <3>3. SoleCallsSound'
      BY <3>1, NextKeepsSoleCalls, ConstantsAssumption
    <3> QED
      BY <2>1, <3>2, <3>3 DEF SoleIInv
  <2> QED
    BY <2>2, <2>3
<1> QED
  BY <1>1, <1>2, PTL DEF Spec

\* Only the transaction of a posting stores an entry for a call whose lines are resolved.
LEMMA StoredByPosting ==
  ASSUME IInv, NEW s \in online, call[s].op = "resolved",
         AccountStep(s) \/ PostingStep(s) \/ ReversalStep(s) \/ Fail(s),
         NEW e \in EntryIds, entries[e] = None, entries'[e] # None
  PROVE  entries'[e].lines = call[s].lines
<1>1. call[s] # Idle
  BY DEF Idle
<1>2. entries' # entries
  OBVIOUS
<1>3. CommitPosting(s)
  BY <1>1, <1>2 DEF AccountStep, CreateAccount, SetAccountActive, DeleteLookup, DeleteCount,
         DeleteRow, PostingStep, CheckGuided, PostCustom, PostGuided, ResolveAccounts,
         ReversalStep, ReadForReversal, CommitReversal, Fail
<1>4. PICK f \in EntryIds :
        entries' = [entries EXCEPT ![f] =
            [campaign |-> call[s].campaign,
             number |-> NextJournalEntryNumber(call[s].campaign), status |-> "posted",
             lines |-> call[s].lines, reverses |-> None]]
  BY <1>3 DEF CommitPosting, InsertEntry
<1>5. e = f
  BY <1>4 DEF IInv, TypeOK
<1> QED
  BY <1>4, <1>5 DEF IInv, TypeOK

\* A client that has the database to itself posts to active accounts only, and its
\* guided entries to accounts of the types the form demands, although both were looked
\* up before the transaction.
THEOREM SolePostings == Spec => SolePostingsSound
<1>1. SoleIInv /\ [Next]_vars =>
        [SoleClient =>
            \A s \in online, e \in EntryIds :
                /\ entries[e] = None /\ entries'[e] # None
                /\ call[s].op = "resolved"
                => LET lines == entries'[e].lines
                   IN  /\ \A i \in DOMAIN lines : accounts[lines[i].account].active
                       /\ call[s].kind # "custom" =>
                            /\ accounts[lines[1].account].type
                                  \in GuidedTypes(call[s].kind).debit
                            /\ accounts[lines[2].account].type
                                  \in GuidedTypes(call[s].kind).credit]_vars
  <2> SUFFICES ASSUME SoleIInv, Next, SoleClient, NEW s \in online, NEW e \in EntryIds,
                      entries[e] = None, entries'[e] # None, call[s].op = "resolved"
               PROVE  LET lines == entries'[e].lines
                      IN  /\ \A i \in DOMAIN lines : accounts[lines[i].account].active
                          /\ call[s].kind # "custom" =>
                               /\ accounts[lines[1].account].type
                                     \in GuidedTypes(call[s].kind).debit
                               /\ accounts[lines[2].account].type
                                     \in GuidedTypes(call[s].kind).credit
    OBVIOUS
  <2>1. AccountStep(s) \/ PostingStep(s) \/ ReversalStep(s) \/ Fail(s)
    BY DEF Next, SoleClient
  <2>2. entries'[e].lines = call[s].lines
    BY <2>1, StoredByPosting DEF SoleIInv
  <2> QED
    BY <2>2 DEF SoleIInv, SoleCallsSound, GuidedAccounts
<1> QED
  BY <1>1, SoleInvariance, PTL DEF Spec, SolePostingsSound

-------------------------------------------------------------------------------
(* The journal is the append-only book of Books.                           *)

\* An entry as the book records it.
InBook(e) ==
    [campaign |-> entries[e].campaign, number |-> entries[e].number,
     lines |-> entries[e].lines,
     reverses |-> IF entries[e].reverses = None THEN 0
                  ELSE entries[entries[e].reverses].number]

\* A new entry goes to the end of its campaign's book and changes no other line of it;
\* of the entries, those marked reversed in amended are struck afterwards.
LEMMA InsertAppends ==
  ASSUME IInv, ConstantsAssumption,
         NEW c \in Campaigns, NEW lines \in Seq(Line), NEW reverses \in EntryIds \cup {None},
         reverses # None => IsEntry(reverses),
         NEW amended, SameButStatus(amended),
         InsertEntry(c, lines, reverses, amended)
  PROVE  LET r == [campaign |-> c, number |-> NextJournalEntryNumber(c), lines |-> lines,
                   reverses |-> IF reverses = None THEN 0 ELSE entries[reverses].number]
         IN  /\ r \in Recorded' \ Recorded
             /\ Recorded' = Recorded \cup {r}
             /\ B!FollowsIn(r, Recorded)
             /\ Struck' = {<<entries[f].campaign, entries[f].number>> :
                             f \in {g \in EntryIds : IsEntry(g) /\ amended[g].status = "reversed"}}
<1> DEFINE new == [campaign |-> c, number |-> NextJournalEntryNumber(c), status |-> "posted",
                   lines |-> lines, reverses |-> reverses]
           r == [campaign |-> c, number |-> NextJournalEntryNumber(c), lines |-> lines,
                 reverses |-> IF reverses = None THEN 0 ELSE entries[reverses].number]
<1> USE DEF IInv
<1>1. PICK e \in EntryIds :
        /\ entries[e] = None
        /\ entries' = [amended EXCEPT ![e] = new]
        /\ entries'[e] \in Entry
        /\ entries' \in [EntryIds -> Entry \cup {None}]
  BY InsertEffect
<1>2. /\ entries'[e] = new /\ IsEntry(e)' /\ ~IsEntry(e)
      /\ \A f \in EntryIds \ {e} : entries'[f] = amended[f]
  BY <1>1 DEF SameButStatus, IsEntry, ConstantsAssumption
<1>3. \A f \in EntryIds \ {e} :
        /\ IsEntry(f)' <=> IsEntry(f)
        /\ IsEntry(f) => /\ entries'[f].campaign = entries[f].campaign
                         /\ entries'[f].number = entries[f].number
                         /\ entries'[f].lines = entries[f].lines
                         /\ entries'[f].reverses = entries[f].reverses
  BY <1>2 DEF SameButStatus, IsEntry
<1>4. \A f \in EntryIds : IsEntry(f) /\ entries[f].reverses # None =>
        entries[f].reverses \in EntryIds \ {e} /\ IsEntry(entries[f].reverses)
  <2> SUFFICES ASSUME NEW f \in EntryIds, IsEntry(f), entries[f].reverses # None
               PROVE  entries[f].reverses \in EntryIds \ {e} /\ IsEntry(entries[f].reverses)
    OBVIOUS
  <2>1. entries[f].reverses \in EntryIds
    BY StoredLines DEF Entry
  <2>2. f \in Reversals(entries[f].reverses)
    BY DEF Reversals
  <2>3. IsEntry(entries[f].reverses)
    BY <2>1, <2>2 DEF ReversalsMirror
  <2> QED
    BY <1>2, <2>1, <2>3
<1>5. \A f \in EntryIds : IsEntry(f) => InBook(f)' = InBook(f)
  <2> SUFFICES ASSUME NEW f \in EntryIds, IsEntry(f) PROVE InBook(f)' = InBook(f)
    OBVIOUS
  <2>1. f # e
    BY <1>2
  <2>2. entries[f].reverses # None =>
          entries'[entries[f].reverses].number = entries[entries[f].reverses].number
    BY <1>3, <1>4
  <2> QED
    BY <1>3, <2>1, <2>2 DEF InBook
<1>6. InBook(e)' = r
  <2>1. reverses # None => reverses \in EntryIds \ {e}
    BY <1>2
  <2>2. reverses # None => entries'[reverses].number = entries[reverses].number
    BY <1>3, <2>1
  <2> QED
    BY <1>2, <2>2 DEF InBook
<1>7. Recorded = {InBook(f) : f \in {g \in EntryIds : IsEntry(g)}}
      /\ Recorded' = {InBook(f)' : f \in {g \in EntryIds : IsEntry(g)'}}
  BY DEF Recorded, InBook
<1>8. Recorded' = Recorded \cup {r}
  <2>1. {g \in EntryIds : IsEntry(g)'} = {g \in EntryIds : IsEntry(g)} \cup {e}
    BY <1>2, <1>3
  <2> QED
    BY <1>5, <1>6, <1>7, <2>1
<1>9. PICK n \in Nat : Numbers(c) = 1..n /\ NextJournalEntryNumber(c) = n + 1
  BY NextNumber
<1>10. \A b \in Recorded : b.campaign = c => b.number \in Numbers(c)
  BY <1>7 DEF Numbers, InBook
<1>11. \A m \in Numbers(c) : \E b \in Recorded : b.campaign = c /\ b.number = m
  <2> SUFFICES ASSUME NEW m \in Numbers(c)
               PROVE  \E b \in Recorded : b.campaign = c /\ b.number = m
    OBVIOUS
  <2>1. PICK f \in EntryIds : IsEntry(f) /\ entries[f].campaign = c /\ entries[f].number = m
    BY DEF Numbers
  <2>2. InBook(f) \in Recorded /\ InBook(f).campaign = c /\ InBook(f).number = m
    BY <1>7, <2>1 DEF InBook
  <2> QED
    BY <2>2
<1>12. B!FollowsIn(r, Recorded)
  <2>1. r.campaign = c /\ r.number = n + 1
    BY <1>9
  <2>2. \A b \in Recorded : b.campaign = c => b.number < n + 1
    BY <1>9, <1>10
  <2>3. n + 1 = 1 \/ \E b \in Recorded : b.campaign = c /\ b.number = n
    <3>1. n = 0 \/ n \in Numbers(c)
      BY <1>9
    <3> QED
      BY <1>11, <3>1
  <2>4. (n + 1) - 1 = n
    OBVIOUS
  <2> HIDE DEF r
  <2> QED
    BY <2>1, <2>2, <2>3, <2>4 DEF B!FollowsIn
<1>13. r \notin Recorded
  BY <1>9, <1>10
<1>14. Struck' = {<<entries[f].campaign, entries[f].number>> :
                    f \in {g \in EntryIds : IsEntry(g) /\ amended[g].status = "reversed"}}
  <2>1. {g \in EntryIds : IsEntry(g)' /\ entries'[g].status = "reversed"}
          = {g \in EntryIds : IsEntry(g) /\ amended[g].status = "reversed"}
    <3>1. entries'[e].status = "posted"
      BY <1>2
    <3> QED
      BY <1>2, <1>3, <3>1
  <2>2. \A f \in EntryIds : IsEntry(f) =>
          entries'[f].campaign = entries[f].campaign /\ entries'[f].number = entries[f].number
    BY <1>2, <1>3
  <2> QED
    BY <2>1, <2>2 DEF Struck
<1> QED
  BY <1>8, <1>12, <1>13, <1>14

\* A posting is a Record of the book.
LEMMA PostingRecords ==
  ASSUME IInv, ConstantsAssumption, NEW s \in Clients, CommitPosting(s)
  PROVE  B!Record
<1> DEFINE c == call[s].campaign
           lines == call[s].lines
           r == [campaign |-> c, number |-> NextJournalEntryNumber(c), lines |-> lines,
                 reverses |-> 0]
<1>1. c \in Campaigns /\ lines \in Seq(Line)
  BY CallLines DEF CommitPosting, IInv
<1>2. SameButStatus(entries)
  BY DEF SameButStatus, IInv, TypeOK
<1>3. InsertEntry(c, lines, None, entries)
  BY DEF CommitPosting
<1>4. /\ r \in Recorded' \ Recorded
      /\ Recorded' = Recorded \cup {r}
      /\ B!FollowsIn(r, Recorded)
      /\ Struck' = {<<entries[f].campaign, entries[f].number>> :
                      f \in {g \in EntryIds : IsEntry(g) /\ entries[g].status = "reversed"}}
  BY <1>1, <1>2, <1>3, InsertAppends
<1>5. Struck' = Struck
  BY <1>4 DEF Struck
<1>6. r.campaign \in Campaigns /\ r.reverses = 0
  BY <1>1
<1> HIDE DEF r
<1> QED
  BY <1>4, <1>5, <1>6 DEF B!Record

\* A reversal is a Strike of the book: the lines it read are still those of the original.
LEMMA ReversalStrikes ==
  ASSUME IInv, ConstantsAssumption, NEW s \in Clients, CommitReversal(s)
  PROVE  B!Strike
<1> DEFINE o == call[s].entry
           c == entries[o].campaign
           lines == Mirror(call[s].lines)
           amended == [entries EXCEPT ![o].status = "reversed"]
           r == [campaign |-> c, number |-> NextJournalEntryNumber(c), lines |-> lines,
                 reverses |-> entries[o].number]
<1>1. o \in EntryIds /\ IsEntry(o) /\ call[s].lines = entries[o].lines /\ entries[o] \in Entry
  <2>1. o \in EntryIds /\ IsEntry(o) /\ call[s].lines = entries[o].lines
    BY CallLines DEF CommitReversal, IInv, CallsConsistent
  <2> QED
    BY <2>1, StoredLines DEF IInv
<1>2. c \in Campaigns /\ lines \in Seq(Line)
  <2>1. entries[o].lines \in Seq(Line)
    BY <1>1 DEF Entry
  <2> QED
    BY <1>1, <2>1, MirrorType DEF Entry
<1>3. /\ amended \in [EntryIds -> Entry \cup {None}]
      /\ amended[o] \in Entry /\ amended[o].status = "reversed"
      /\ amended[o].campaign = c /\ amended[o].number = entries[o].number
      /\ amended[o].lines = entries[o].lines /\ amended[o].reverses = entries[o].reverses
      /\ \A f \in EntryIds \ {o} : amended[f] = entries[f]
  BY <1>1 DEF IInv, TypeOK, Entry
<1>4. SameButStatus(amended)
  BY <1>1, <1>3 DEF SameButStatus, IsEntry, ConstantsAssumption
<1>5. InsertEntry(c, lines, o, amended)
  BY DEF CommitReversal
<1>6. o # None
  BY <1>1 DEF ConstantsAssumption
<1>7. /\ r \in Recorded' \ Recorded
      /\ Recorded' = Recorded \cup {r}
      /\ B!FollowsIn(r, Recorded)
      /\ Struck' = {<<entries[f].campaign, entries[f].number>> :
                      f \in {g \in EntryIds : IsEntry(g) /\ amended[g].status = "reversed"}}
  <2> HIDE DEF amended, lines
  <2> QED
    BY <1>1, <1>2, <1>4, <1>5, <1>6, InsertAppends
<1>8. Struck' = Struck \cup {<<c, entries[o].number>>}
  <2>1. {g \in EntryIds : IsEntry(g) /\ amended[g].status = "reversed"}
          = {g \in EntryIds : IsEntry(g) /\ entries[g].status = "reversed"} \cup {o}
    BY <1>1, <1>3
  <2> QED
    BY <1>7, <2>1 DEF Struck
<1>9. /\ InBook(o) \in Recorded
      /\ InBook(o).campaign = c /\ InBook(o).number = entries[o].number
      /\ InBook(o).lines = entries[o].lines
  BY <1>1 DEF Recorded, InBook
<1>10. /\ r.campaign = c /\ r.reverses = entries[o].number
       /\ r.lines = Mirror(entries[o].lines)
  BY <1>1
<1>11. \A l : B!Mirror(l) = Mirror(l)
  BY DEF B!Mirror, Mirror
<1> HIDE DEF r
<1>12. r.campaign = InBook(o).campaign /\ r.reverses = InBook(o).number
       /\ r.lines = B!Mirror(InBook(o).lines)
       /\ Struck' = Struck \cup {<<InBook(o).campaign, InBook(o).number>>}
  BY <1>8, <1>9, <1>10, <1>11
<1> QED
  BY <1>7, <1>9, <1>12 DEF B!Strike

\* Every step is a step of the book or none.
LEMMA NextRefines == IInv /\ [Next]_vars => [B!Next]_B!vars
<1> SUFFICES ASSUME IInv, [Next]_vars PROVE [B!Next]_B!vars
  OBVIOUS
<1>1. CASE UNCHANGED entries
  BY <1>1 DEF B!vars, Recorded, Struck, IsEntry
<1>2. CASE \E s \in online : CommitPosting(s)
  <2>1. online \subseteq Clients
    BY DEF IInv, TypeOK
  <2> QED
    BY <1>2, <2>1, PostingRecords, ConstantsAssumption DEF B!Next
<1>3. CASE \E s \in online : CommitReversal(s)
  <2>1. online \subseteq Clients
    BY DEF IInv, TypeOK
  <2> QED
    BY <1>3, <2>1, ReversalStrikes, ConstantsAssumption DEF B!Next
<1>4. UNCHANGED vars => UNCHANGED entries
  BY DEF vars
<1>5. ASSUME NEW s \in online, AccountStep(s) \/ PostingStep(s) \/ ReversalStep(s) \/ Fail(s)
      PROVE  UNCHANGED entries \/ CommitPosting(s) \/ CommitReversal(s)
  BY <1>5 DEF AccountStep, CreateAccount, SetAccountActive, DeleteLookup, DeleteCount,
         DeleteRow, PostingStep, CheckGuided, PostCustom, PostGuided, ResolveAccounts,
         ReversalStep, ReadForReversal, Fail
<1> QED
  BY <1>1, <1>2, <1>3, <1>4, <1>5 DEF Next

\* The journal is append-only, however calls overlap: every step adds at most one entry
\* to the end of one campaign's book, plainly or as the mirror image of one it strikes.
THEOREM BooksRefinement == Spec => ImplementsBooks
<1>1. Init => B!Init
  BY DEF Init, B!Init, Recorded, Struck, IsEntry
<1>2. IInv /\ [Next]_vars => [B!Next]_B!vars
  BY NextRefines
<1> QED
  BY <1>1, <1>2, Invariance, PTL DEF Spec, ImplementsBooks, B!Spec

===============================================================================
