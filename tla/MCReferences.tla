----------------------------- MODULE MCReferences -----------------------------
(***************************************************************************)
(* Two campaigns, two clients, and names of which one is a prefix of the   *)
(* words another contains: a search for "ryn" finds Rynne in the index,    *)
(* and Bryn only by substring.                                             *)
(***************************************************************************)
EXTENDS References, TLC

MCBuiltIn == [t \in {"npc"} |-> "NPC"]

MCTexts == {<<>>, <<"Bryn", "", "Bryn">>}

MCPrefixed == [q \in {"ryn"} |-> {"Rynne"}]
MCContaining == [q \in {"ryn"} |-> {"Rynne", "Bryn"}]

Symmetry == Permutations(Clients) \cup Permutations(CampaignIds)

===============================================================================
