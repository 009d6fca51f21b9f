-------------------------------- MODULE MCLoot --------------------------------
(***************************************************************************)
(* Two clients and one item with up to two appraisals, so that an earlier, *)
(* a later or an equally dated appraisal may be the one on the books.      *)
(***************************************************************************)
EXTENDS Loot, TLC

Symmetry ==
    Permutations(Clients) \cup Permutations(EntryIds) \cup Permutations(AppraisalIds)

===============================================================================
