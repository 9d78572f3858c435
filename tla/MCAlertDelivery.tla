--------------------------- MODULE MCAlertDelivery ---------------------------
(***************************************************************************)
(* Instances of AlertDelivery.                                              *)
(***************************************************************************)
EXTENDS AlertDelivery, TLC

CONSTANTS r1, r2, r3, k1

ThreeRuns == {r1, r2, r3}
OneCandidate == {k1}

\* Runs are alike.
Alike == Permutations(ThreeRuns)
=============================================================================
