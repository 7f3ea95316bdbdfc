-------------------------- MODULE MCLoginSessions --------------------------
(* Instances of the login sessions and their browsers.                       *)
EXTENDS BrowserContexts, TLC

CONSTANTS l1, l2, r1, r2, admin, user, j1, b1, b2

Unraced == raced = {}

MCJobOwner == (j1 :> user)

SessionSymmetry == Permutations({l1, l2}) \cup Permutations({r1, r2})
                       \cup Permutations({b1, b2})
=============================================================================
