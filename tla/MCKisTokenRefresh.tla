-------------------------- MODULE MCKisTokenRefresh --------------------------
(***************************************************************************)
(* Instances of KisTokenRefresh.                                            *)
(***************************************************************************)
EXTENDS KisTokenRefresh, TLC

CONSTANTS p1, p2, c1, c2, c3

MCProc == {p1, p2}
MCCall == {c1, c2, c3}

\* Two calls in one instance, one in another.
Spread == (c1 :> p1) @@ (c2 :> p1) @@ (c3 :> p2)
=============================================================================
