-------------------------------- MODULE MCStore --------------------------------
(***************************************************************************)
(* Two programs of two builds, three schema versions, and every kind of    *)
(* file to start from.                                                     *)
(***************************************************************************)
EXTENDS Store, TLC

MCFiles == {Absent, Empty, Foreign, MadeAt(1, FALSE), MadeAt(1, TRUE), MadeAt(2, FALSE)}

Symmetry == Permutations(Programs)

===============================================================================
