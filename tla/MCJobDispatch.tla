--------------------------- MODULE MCJobDispatch ---------------------------
(* Small instances of JobDispatch for TLC.                                   *)
EXTENDS JobDispatch, TLC

(* Enough names that a fresh candidate set always exists: the row holds two, *)
(* every task and every handler one each, and the new one.                   *)
MCGens == 1..(Cardinality(Slots) + Cardinality(Clients) + 3)

Symmetric ==
    Permutations(Jobs) \cup Permutations(Slots) \cup Permutations(Clients)
=============================================================================
