------------------------------- MODULE MCLedger -------------------------------
(***************************************************************************)
(* Two clients and two campaigns; the second campaign starts without         *)
(* accounts and gets its only one if a3 is created there.                  *)
(***************************************************************************)
EXTENDS Ledger, TLC

CONSTANTS c1, c2, cash, pay, a1, a2, a3

MCCampaigns == {c1, c2}
MCCodes == {cash, pay}
MCAccountIds == {a1, a2, a3}

Row(c, code, type) == [campaign |-> c, code |-> code, type |-> type, active |-> TRUE]

MCSeed ==
    [a \in MCAccountIds |->
        CASE a = a1 -> Row(c1, cash, "asset")
          [] a = a2 -> Row(c1, pay, "expense")
          [] OTHER -> None]

Dr(code, n) == [code |-> code, debit |-> n, credit |-> 0]
Cr(code, n) == [code |-> code, debit |-> 0, credit |-> n]

\* A split posting, one within a single account, and drafts that must be refused.
MCDrafts ==
    {<<Dr(cash, 2), Cr(pay, 1), Cr(pay, 1)>>,
     <<Dr(cash, 1), Cr(cash, 1)>>,
     <<Dr(pay, 2), Cr(cash, 1)>>,
     <<Dr(pay, 1), Dr(cash, 1)>>}

Symmetry == Permutations(Clients) \cup Permutations(EntryIds)

===============================================================================
