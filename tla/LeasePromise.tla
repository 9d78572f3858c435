---------------------------- MODULE LeasePromise -----------------------------
(***************************************************************************)
(* What a lease on one resource promises: a lock whose grants are numbered  *)
(* in increasing order and of which at most one is active.                  *)
(***************************************************************************)
EXTENDS Integers

VARIABLES
  granted,  \* how many grants were made: the fencing token of the last one
  active    \* the fencing tokens on whose strength somebody may act

vars == <<granted, active>>

Init == granted = 0 /\ active = {}

\* A grant is made when no earlier one is active.  It may be over before its
\* owner learns of it.
Grant ==
  /\ active = {}
  /\ granted' = granted + 1
  /\ active' \in {{}, {granted'}}

\* The active grant is given up, runs out, or is lost with its owner.
End ==
  /\ active # {}
  /\ active' = {}
  /\ UNCHANGED granted

Next == Grant \/ End

Spec == Init /\ [][Next]_vars
=============================================================================
