---------------------------- MODULE MCPlayQueue ----------------------------
(* The constants of the runs of PlayQueueSpec. *)
EXTENDS PlayQueueSpec

ItemSymmetry == Permutations(Items)
=============================================================================
