----------------------------- MODULE MCFailover -----------------------------
(***************************************************************************)
(* An instance of KeyFailover for TLC.                                     *)
(***************************************************************************)
EXTENDS KeyFailover

\* Three keys, of which the second serves no failover.
ThreeKeys == {"primary", "spare", "backup"}
InOrder == [k \in ThreeKeys |-> CASE k = "primary" -> 1 [] k = "spare" -> 2 [] k = "backup" -> 3]

OneGroup == [r \in Requests |-> 0]

\* A key matters when a flush selects its candidates, so it is revoked while
\* none runs and before anything is queued.
MCSpec ==
  Init /\ [][/\ Next
             /\ revoked' # revoked =>
                  revoked' = {"primary"} /\ \A r \in Requests : reqStatus[r] = "absent"]_vars
=============================================================================
