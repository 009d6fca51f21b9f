------------------------------- MODULE MCQuests -------------------------------
(***************************************************************************)
(* Two clients and one quest, not yet created; its title may be changed to *)
(* another, which hand-posted entries may bear as well.                    *)
(***************************************************************************)
EXTENDS Quests, TLC

CONSTANTS q1, t1, t2

MCQuestIds == {q1}
MCTitles == {t1, t2}
MCSeed == [q \in MCQuestIds |-> None]

Symmetry == Permutations(Clients) \cup Permutations(EntryIds) \cup Permutations(MCTitles)

===============================================================================
