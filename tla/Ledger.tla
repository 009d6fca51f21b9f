-------------------------------- MODULE Ledger --------------------------------
(***************************************************************************)
(* The chart of accounts and the journal of a LootSheet database, worked   *)
(* on by several clients at once: the sessions of a server, or programs    *)
(* that opened the same file.                                              *)
(*                                                                         *)
(* A call opens the database, reads, decides, and writes in one SQLite     *)
(* transaction or statement.  Reads made through the pool are steps of     *)
(* their own and what they return is kept in `call`, so it can be stale    *)
(* when the call writes.  Statements of one transaction form one step:     *)
(* SQLite admits a single writer, and a transaction that cannot get the    *)
(* write lock is rolled back, which is the step Fail.                      *)
(***************************************************************************)
EXTENDS JournalLines, FiniteSets, FiniteSetsExt

CONSTANTS
    Clients,     \* the most clients there can be
    Campaigns,   \* the campaigns of the database
    Codes,       \* account codes a user may type
    AccountIds,  \* identifiers for account rows; a bound on their number
    EntryIds,    \* identifiers for journal entries; a bound on their number
    NewTypes,    \* the types users give to the accounts they create
    Drafts,      \* the lines users may submit
    Amounts,     \* the amounts users may give to the guided forms
    Seed,        \* the accounts a new database holds
    None,        \* no row with this identifier yet; no entry reversed
    Deleted      \* the row with this identifier was deleted

VARIABLES
    accounts,  \* table accounts
    entries,   \* tables journal_entries and journal_lines
    online,    \* the clients that work on the database
    call       \* what each client's running call has read

vars == <<accounts, entries, online, call>>

AccountTypes == {"asset", "liability", "equity", "income", "expense"}

AccountRow ==
    [campaign : Campaigns, code : Codes, type : AccountTypes, active : BOOLEAN]

DraftLine == [code : Codes, debit : Nat, credit : Nat]

Line == [account : AccountIds, debit : Nat, credit : Nat]

Entry ==
    [campaign : Campaigns, number : Nat \ {0}, status : {"posted", "reversed"},
     lines : Seq(Line), reverses : EntryIds \cup {None}]

\* Which form an entry was made with: only the guided ones look at account types.
Kinds == {"custom", "expense", "income"}

Idle == [op |-> "idle"]

Call ==
    {Idle}
    \cup [op : {"checked"}, campaign : Campaigns, kind : Kinds, lines : Seq(DraftLine)]
    \cup [op : {"resolved"}, campaign : Campaigns, kind : Kinds, lines : Seq(Line)]
    \cup [op : {"reversing"}, entry : EntryIds, lines : Seq(Line)]
    \cup [op : {"deleting", "counted"}, account : AccountIds]

ASSUME ConstantsAssumption ==
    /\ IsFiniteSet(Clients)
    /\ NewTypes \subseteq AccountTypes
    /\ Amounts \subseteq Nat \ {0}
    /\ Drafts \subseteq Seq(DraftLine)
    /\ Seed \in [AccountIds -> AccountRow \cup {None}]
    /\ \A a, b \in AccountIds :
          /\ Seed[a] # None /\ Seed[b] # None
          /\ Seed[a].campaign = Seed[b].campaign /\ Seed[a].code = Seed[b].code
          => a = b
    /\ None \notin AccountRow /\ None \notin EntryIds /\ None \notin Entry
    /\ Deleted \notin AccountRow /\ Deleted # None

-------------------------------------------------------------------------------

IsAccount(a) == accounts[a] \notin {None, Deleted}
IsEntry(e) == entries[e] # None

\* Variants, each named for a bug, stand before the definitions they vary and
\* are used nowhere: they are the mistakes that the properties must notice.

\* The account of campaign c with this code: at most one, by a UNIQUE constraint.
WithCode(c, code) ==
    {a \in AccountIds :
        IsAccount(a) /\ accounts[a].campaign = c /\ accounts[a].code = code}

ActiveWithCodeIgnoringActive(c, code) == WithCode(c, code)
ActiveWithCode(c, code) == {a \in WithCode(c, code) : accounts[a].active}

\* An account that a stored line names; SQLite refuses to delete its row.
IsPostedTo(a) ==
    \E e \in EntryIds : IsEntry(e) /\ \E i \in DOMAIN entries[e].lines :
        entries[e].lines[i].account = a

Numbers(c) == {entries[e].number : e \in {f \in EntryIds : IsEntry(f) /\ entries[f].campaign = c}}

\* The number of the last entry, without the increment.
NextJournalEntryNumberOffByOne(c) ==
    CHOOSE n \in Numbers(c) \cup {0} : \A m \in Numbers(c) \cup {0} : m <= n

\* One count for all campaigns, as before they were introduced.
NextJournalEntryNumberAcrossCampaigns(c) ==
    Cardinality({e \in EntryIds : IsEntry(e)}) + 1

NextJournalEntryNumber(c) ==
    (CHOOSE n \in Numbers(c) \cup {0} : \A m \in Numbers(c) \cup {0} : m <= n) + 1

\* The draft with each code replaced by the account it names now.
ResolvedLines(c, lines) ==
    [i \in DOMAIN lines |->
        [account |-> CHOOSE a \in ActiveWithCode(c, lines[i].code) : TRUE,
         debit |-> lines[i].debit, credit |-> lines[i].credit]]

-------------------------------------------------------------------------------
(* One step of a client.                                                   *)

Reply(s) == call' = [call EXCEPT ![s] = Idle]

CreateAccount(s, c, code, type) ==
    /\ call[s] = Idle
    /\ WithCode(c, code) = {}
    /\ \E a \in AccountIds :
          /\ accounts[a] = None
          /\ accounts' = [accounts EXCEPT ![a] =
                [campaign |-> c, code |-> code, type |-> type, active |-> TRUE]]
    /\ UNCHANGED <<entries, online, call>>

SetAccountActive(s, c, code, active) ==
    /\ call[s] = Idle
    /\ \E a \in WithCode(c, code) :
          accounts' = [accounts EXCEPT ![a].active = active]
    /\ UNCHANGED <<entries, online, call>>

\* DeleteAccount looks the code up, counts postings and deletes the row in
\* three statements, with no transaction around them.
DeleteLookup(s, c, code) ==
    /\ call[s] = Idle
    /\ \E a \in WithCode(c, code) :
          call' = [call EXCEPT ![s] = [op |-> "deleting", account |-> a]]
    /\ UNCHANGED <<accounts, entries, online>>

DeleteCount(s) ==
    /\ call[s].op = "deleting"
    /\ ~IsPostedTo(call[s].account)
    /\ call' = [call EXCEPT ![s].op = "counted"]
    /\ UNCHANGED <<accounts, entries, online>>

DeleteRowWithoutRestrict(s) ==
    /\ call[s].op = "counted"
    /\ IsAccount(call[s].account)
    /\ accounts' = [accounts EXCEPT ![call[s].account] = Deleted]
    /\ Reply(s)
    /\ UNCHANGED <<entries, online>>

DeleteRow(s) ==
    /\ call[s].op = "counted"
    /\ IsAccount(call[s].account)
    /\ ~IsPostedTo(call[s].account)
    /\ accounts' = [accounts EXCEPT ![call[s].account] = Deleted]
    /\ Reply(s)
    /\ UNCHANGED <<entries, online>>

\* The accounts the guided forms accept on the debit and on the credit side.
GuidedTypes(kind) ==
    IF kind = "expense"
    THEN [debit |-> {"expense"}, credit |-> {"asset", "liability"}]
    ELSE [debit |-> {"asset"}, credit |-> {"income"}]

\* PostExpenseEntry and PostIncomeEntry check both accounts, then build a
\* two-line draft that names them by code.
CheckGuided(s, c, kind, debitCode, creditCode, amount) ==
    /\ call[s] = Idle
    /\ \E a \in ActiveWithCode(c, debitCode) :
          accounts[a].type \in GuidedTypes(kind).debit
    /\ \E a \in ActiveWithCode(c, creditCode) :
          accounts[a].type \in GuidedTypes(kind).credit
    /\ call' = [call EXCEPT ![s] =
          [op |-> "checked", campaign |-> c, kind |-> kind,
           lines |-> <<[code |-> debitCode, debit |-> amount, credit |-> 0],
                       [code |-> creditCode, debit |-> 0, credit |-> amount]>>]]
    /\ UNCHANGED <<accounts, entries, online>>

\* PostJournalWithinTx up to the account lookup, which runs outside the
\* transaction: the draft is valid and each code names an active account.
ResolveAccounts(s, c, kind, lines) ==
    /\ Validated(lines)
    /\ \A i \in DOMAIN lines : ActiveWithCode(c, lines[i].code) # {}
    /\ call' = [call EXCEPT ![s] =
          [op |-> "resolved", campaign |-> c, kind |-> kind, lines |-> ResolvedLines(c, lines)]]
    /\ UNCHANGED <<accounts, entries, online>>

PostCustom(s, c, lines) ==
    /\ call[s] = Idle
    /\ ResolveAccounts(s, c, "custom", lines)

PostGuided(s) ==
    /\ call[s].op = "checked"
    /\ ResolveAccounts(s, call[s].campaign, call[s].kind, call[s].lines)

\* The rows of one new entry; the foreign key of its lines must hold.
InsertEntry(c, lines, reverses, amended) ==
    /\ \A i \in DOMAIN lines : IsAccount(lines[i].account)
    /\ \E e \in EntryIds :
          /\ entries[e] = None
          /\ entries' = [amended EXCEPT ![e] =
                [campaign |-> c, number |-> NextJournalEntryNumber(c), status |-> "posted",
                 lines |-> lines, reverses |-> reverses]]

\* The transaction of PostJournalEntry.
CommitPosting(s) ==
    /\ call[s].op = "resolved"
    /\ InsertEntry(call[s].campaign, call[s].lines, None, entries)
    /\ Reply(s)
    /\ UNCHANGED <<accounts, online>>

\* ReverseJournalEntry reads the status and the lines of the original first.
ReadForReversal(s, c, e) ==
    /\ call[s] = Idle
    /\ IsEntry(e)
    /\ entries[e].campaign = c
    /\ entries[e].status = "posted"
    /\ entries[e].lines # <<>>
    /\ call' = [call EXCEPT ![s] =
          [op |-> "reversing", entry |-> e, lines |-> entries[e].lines]]
    /\ UNCHANGED <<accounts, entries, online>>

CommitReversalInPlace(s) ==
    /\ call[s].op = "reversing"
    /\ entries' = [entries EXCEPT ![call[s].entry].status = "reversed",
                                  ![call[s].entry].lines = Mirror(call[s].lines)]
    /\ Reply(s)
    /\ UNCHANGED <<accounts, online>>

CommitReversalWithoutMark(s) ==
    /\ call[s].op = "reversing"
    /\ LET original == call[s].entry
       IN  InsertEntry(entries[original].campaign, Mirror(call[s].lines), original, entries)
    /\ Reply(s)
    /\ UNCHANGED <<accounts, online>>

\* Its transaction inserts the mirror image and marks the original, whose
\* status it does not look at again.
CommitReversal(s) ==
    /\ call[s].op = "reversing"
    /\ LET original == call[s].entry
       IN  InsertEntry(entries[original].campaign, Mirror(call[s].lines), original,
                       [entries EXCEPT ![original].status = "reversed"])
    /\ Reply(s)
    /\ UNCHANGED <<accounts, online>>

\* Any call may return an error after its first read: a later check failed, a
\* foreign key was violated, or the database was busy.  Nothing is written.
Fail(s) ==
    /\ call[s] # Idle
    /\ Reply(s)
    /\ UNCHANGED <<accounts, entries, online>>

-------------------------------------------------------------------------------

Init ==
    /\ accounts = Seed
    /\ entries = [e \in EntryIds |-> None]
    /\ online \in (SUBSET Clients) \ {{}}
    /\ call = [s \in Clients |-> Idle]

AccountStep(s) ==
    \/ \E c \in Campaigns, code \in Codes :
          \/ \E type \in NewTypes : CreateAccount(s, c, code, type)
          \/ \E active \in BOOLEAN : SetAccountActive(s, c, code, active)
          \/ DeleteLookup(s, c, code)
    \/ DeleteCount(s)
    \/ DeleteRow(s)

PostingStep(s) ==
    \/ \E c \in Campaigns :
          \/ \E kind \in {"expense", "income"}, d, k \in Codes, amount \in Amounts :
                CheckGuided(s, c, kind, d, k, amount)
          \/ \E lines \in Drafts : PostCustom(s, c, lines)
    \/ PostGuided(s)
    \/ CommitPosting(s)

ReversalStep(s) ==
    \/ \E c \in Campaigns, e \in EntryIds : ReadForReversal(s, c, e)
    \/ CommitReversal(s)

Next ==
    \E s \in online :
        AccountStep(s) \/ PostingStep(s) \/ ReversalStep(s) \/ Fail(s)

Spec == Init /\ [][Next]_vars

-------------------------------------------------------------------------------
(* The reports read from the journal.                                      *)

PostedEntries == {e \in EntryIds : IsEntry(e) /\ entries[e].status = "posted"}

LinesOn(e, a) == SelectSeq(entries[e].lines, LAMBDA line : line.account = a)

\* What a set of entries has debited to and credited to account a.
DebitsOn(a, from) == MapThenSumSet(LAMBDA e : DebitTotal(LinesOn(e, a)), from)
CreditsOn(a, from) == MapThenSumSet(LAMBDA e : CreditTotal(LinesOn(e, a)), from)

\* GetTrialBalance and GetAccountLedger take the posted entries only.
ReportedDebits(a) == DebitsOn(a, PostedEntries)
ReportedCredits(a) == CreditsOn(a, PostedEntries)

-------------------------------------------------------------------------------
(* What must hold.                                                         *)

\* The database and the calls in progress are of the declared shape; the
\* schema's column types and CHECKs say the same of the rows.
TypeOK ==
    /\ accounts \in [AccountIds -> AccountRow \cup {None, Deleted}]
    /\ entries \in [EntryIds -> Entry \cup {None}]
    /\ online \in SUBSET Clients
    /\ call \in [Clients -> Call]

\* The entry numbers of each campaign are 1, 2, ..., n with no gap and no
\* repetition, whatever posts and reversals overlap: NextJournalEntryNumber
\* reads the maximum in the transaction that inserts the entry.
NumbersGapless ==
    \A c \in Campaigns :
        /\ Numbers(c) = {} \/ \E n \in Numbers(c) : Numbers(c) = 1..n
        /\ \A e, f \in EntryIds :
              /\ IsEntry(e) /\ IsEntry(f)
              /\ entries[e].campaign = c /\ entries[f].campaign = c
              /\ entries[e].number = entries[f].number
              => e = f

\* Every stored line names an account row that exists and belongs to the
\* campaign of its entry, although posting resolves its accounts, and deleting
\* an account counts its postings, before the write.
LinesKeepTheirAccounts ==
    \A e \in EntryIds : IsEntry(e) =>
        \A i \in DOMAIN entries[e].lines :
            LET a == entries[e].lines[i].account
            IN  IsAccount(a) /\ accounts[a].campaign = entries[e].campaign

Reversals(e) == {r \in EntryIds : IsEntry(r) /\ entries[r].reverses = e}

\* A reversal is the mirror image of an earlier entry of its own campaign,
\* and the entries marked reversed are exactly those that have a reversal:
\* ReverseJournalEntry writes both in one transaction, from lines read before.
ReversalsMirror ==
    \A e \in EntryIds :
        /\ \A r \in Reversals(e) :
              /\ IsEntry(e)
              /\ entries[r].campaign = entries[e].campaign
              /\ entries[r].number > entries[e].number
              /\ entries[r].lines = Mirror(entries[e].lines)
        /\ IsEntry(e) => (entries[e].status = "reversed" <=> Reversals(e) # {})

SoleClient == \A s, t \in online : s = t

\* A client that has the database to itself posts to active accounts only, and
\* its guided entries debit and credit accounts of the types the form demands.
\* (Two clients can do otherwise: the accounts are looked up before the write.)
SolePostingsSound ==
    [][SoleClient =>
        \A s \in online, e \in EntryIds :
            /\ entries[e] = None /\ entries'[e] # None
            /\ call[s].op = "resolved"
            => LET lines == entries'[e].lines
               IN  /\ \A i \in DOMAIN lines : accounts[lines[i].account].active
                   /\ call[s].kind # "custom" =>
                        /\ accounts[lines[1].account].type \in GuidedTypes(call[s].kind).debit
                        /\ accounts[lines[2].account].type \in GuidedTypes(call[s].kind).credit
      ]_vars

\* The journal as a book: identifiers forgotten, reversals named by number.
Recorded ==
    {[campaign |-> entries[e].campaign, number |-> entries[e].number,
      lines |-> entries[e].lines,
      reverses |-> IF entries[e].reverses = None THEN 0
                   ELSE entries[entries[e].reverses].number] :
        e \in {f \in EntryIds : IsEntry(f)}}

Struck ==
    {<<entries[e].campaign, entries[e].number>> :
        e \in {f \in EntryIds : IsEntry(f) /\ entries[f].status = "reversed"}}

B == INSTANCE Books WITH book <- Recorded, struck <- Struck

\* The journal is append-only: every step appends at most one entry to one
\* campaign's book, plainly or as the mirror image of an entry it strikes, and
\* leaves the rest of the history as it was ("immutable" in the README).
ImplementsBooks == B!Spec

\* What report/trial_balance.go says of the posted-only sum: leaving reversed
\* entries out is harmless because their reversals cancel them.  Then it gives
\* every account the net amount of all its entries.
ReversedEntriesCancelOut ==
    \A a \in AccountIds :
        LET all == {e \in EntryIds : IsEntry(e)}
        IN  ReportedDebits(a) - ReportedCredits(a) = DebitsOn(a, all) - CreditsOn(a, all)

===============================================================================
