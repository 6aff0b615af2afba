-------------------------- MODULE MC_JobDelivery --------------------------
(* JobDelivery on a few workers; workers are interchangeable. *)
EXTENDS JobDelivery, TLC

WorkerSymmetry == Permutations(Workers)
=============================================================================
