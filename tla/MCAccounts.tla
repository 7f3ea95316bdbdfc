----------------------------- MODULE MCAccounts -----------------------------
(* Instances of the keys and the history of the job list.                    *)
EXTENDS JobHistory, TLC

CONSTANTS k1, k2, k3, j1, c1, c2, s1, s2, s3

AccountSymmetry == Permutations({k1, k2, k3})
                   \cup Permutations({c1, c2}) \cup Permutations({s1, s2, s3})
=============================================================================
