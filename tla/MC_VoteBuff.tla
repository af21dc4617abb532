---------------------------- MODULE MC_VoteBuff ----------------------------
(***************************************************************************)
(* Three replicas, so that a restart can leave the new replica ahead of    *)
(* one that has not caught up.  They are interchangeable.                  *)
(***************************************************************************)
EXTENDS VoteBuff, TLC

CONSTANTS r1, r2, r3

ThreeReplicas == {r1, r2, r3}
Interchangeable == Permutations(ThreeReplicas)
=============================================================================
