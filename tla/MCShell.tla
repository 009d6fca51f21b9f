-------------------------------- MODULE MCShell --------------------------------
(***************************************************************************)
(* A shell with three sections, two tabs of the settings and a list of two *)
(* items, one of which other clients may delete, add or move.              *)
(***************************************************************************)
EXTENDS Shell

MCOrdered == <<"dashboard", "assets", "codex", "notes">>
MCTabs == <<"accounts", "campaigns">>
MCTypes == <<"npc", "player">>

MCItems ==
    [assets |-> {"a1", "a2"}, codex |-> {"x1"}, notes |-> {"n1"},
     accounts |-> {}, campaigns |-> {"c1"}]

================================================================================
