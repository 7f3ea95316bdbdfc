---------------------------- MODULE JobLifecycle ----------------------------
(***************************************************************************)
(* What the dispatcher promises to the client of a job: the persistent     *)
(* task queue of README.md, and docs/ARCHITECTURE.md's recovery of         *)
(* unfinished jobs at startup.  JobDispatch implements it.                 *)
(***************************************************************************)
CONSTANT Jobs

VARIABLE phase

LifecycleInit == phase = [j \in Jobs |-> "none"]

Move(j, from, to) == phase[j] = from /\ phase' = [phase EXCEPT ![j] = to]

(* The submission, and a selection or a resume of a job that had ended.      *)
Submit(j) == Move(j, "none", "pending")
Reopen(j) == Move(j, "settled", "pending") \/ Move(j, "lost", "pending")

(* A settled job has a result, an error or candidates to choose from; a lost *)
(* one looks busy and is not.                                                *)
Settle(j) == Move(j, "pending", "settled")
Lose(j)   == Move(j, "pending", "lost")

(* A boot takes every lost job up again; a pending one goes on, or is left   *)
(* with its candidates announced for the user to choose from.                *)
Recover ==
    \E J \in SUBSET {j \in Jobs : phase[j] = "pending"} :
        phase' = [j \in Jobs |-> IF j \in J THEN "settled"
                                 ELSE IF phase[j] = "lost" THEN "pending"
                                 ELSE phase[j]]

LifecycleNext ==
    \/ \E j \in Jobs : Submit(j) \/ Reopen(j) \/ Settle(j) \/ Lose(j)
    \/ Recover

(* A pending job does not stay pending for ever.                             *)
Spec == /\ LifecycleInit
        /\ [][LifecycleNext]_phase
        /\ \A j \in Jobs : WF_phase(Settle(j) \/ Lose(j))
=============================================================================
