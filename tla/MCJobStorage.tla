---------------------------- MODULE MCJobStorage ----------------------------
(* Small instances of JobStorage for TLC.                                    *)
EXTENDS JobStorage, TLC

MCStorageGens == 1..(Cardinality(Slots) + Cardinality(Clients) + 3)

SymmetricStorage == Permutations(Jobs) \cup Permutations(Slots) \cup Permutations(Clients)
=============================================================================
