------------------------- MODULE MC_JobStateStore -------------------------
(* JobStateStore on a few jobs; jobs are interchangeable. *)
EXTENDS JobStateStore, TLC

JobSymmetry == Permutations(Jobs)
=============================================================================
