------------------------------- MODULE MCLease -------------------------------
(***************************************************************************)
(* Instances of Lease: three processes, two of which claim under the same   *)
(* owner_id as two Cloud Run jobs with the same pid do.                     *)
(***************************************************************************)
EXTENDS Lease, TLC

CONSTANTS p1, p2, p3

MCProc == {p1, p2, p3}
MCOwnerOf == (p1 :> "job:1") @@ (p2 :> "job:1") @@ (p3 :> "job:2")
=============================================================================
