----------------------------- MODULE JournalLines -----------------------------
(***************************************************************************)
(* The lines of a journal entry and what the posting code computes from    *)
(* them.  A line carries a debit and a credit amount, in copper pieces;    *)
(* the field that names the account is a code while the entry is a draft   *)
(* and an account id once it is stored, and nothing here depends on it.    *)
(***************************************************************************)
EXTENDS Integers, Sequences, SequencesExt

\* What the amount columns add up to over the lines of one entry.
DebitTotal(lines) == FoldSeq(LAMBDA line, sum : sum + line.debit, 0, lines)
CreditTotal(lines) == FoldSeq(LAMBDA line, sum : sum + line.credit, 0, lines)

\* A line holds one positive amount: the same rule is checked on a draft and
\* by a CHECK of the journal_lines table.
OneSided(line) ==
    /\ line.debit >= 0
    /\ line.credit >= 0
    /\ (line.debit > 0) # (line.credit > 0)

\* The drafts ValidateJournalPostInput lets through.  Dates, descriptions and
\* blank codes are left out: they decide nothing but whether there is a draft.
Validated(lines) ==
    /\ Len(lines) >= 2
    /\ \A i \in DOMAIN lines : OneSided(lines[i])
    /\ \E i \in DOMAIN lines : lines[i].debit > 0
    /\ \E i \in DOMAIN lines : lines[i].credit > 0
    /\ DebitTotal(lines) = CreditTotal(lines)

\* The lines of a reversal: each line of the original with its sides swapped.
Mirror(lines) ==
    [i \in DOMAIN lines |->
        [lines[i] EXCEPT !.debit = lines[i].credit, !.credit = lines[i].debit]]

===============================================================================
