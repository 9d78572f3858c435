-------------------------- MODULE MCManagedPipeline --------------------------
(***************************************************************************)
(* Instances of ManagedPipeline.                                            *)
(***************************************************************************)
EXTENDS ManagedPipeline, TLC

CONSTANTS j1, j2, j3

TwoJobs == {j1, j2}
ThreeJobs == {j1, j2, j3}
Anywhere == Point
InNormalize == {Normalize}
=============================================================================
