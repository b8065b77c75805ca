---------------------------- MODULE MCScheduler ----------------------------
(* Model-checking instance of Scheduler: two cores, the BSP c1, idle      *)
(* threads i1 and i2, and the worker threads given in the cfg.             *)
EXTENDS Scheduler, TLC

CONSTANTS c1, c2, i1, i2

MCIdleOf == (c1 :> i1) @@ (c2 :> i2)

(* The single-core instance used for the liveness run. *)
MCIdleOfOne == c1 :> i1

MCWorkerSymmetry == Permutations(Workers)
=============================================================================
