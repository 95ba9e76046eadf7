-------------------------- MODULE MCMessageRunner --------------------------
(* Model checking of MessageRunner: workers are interchangeable. *)
EXTENDS MessageRunner, TLC

WorkerSymmetry == Permutations(Workers)
=============================================================================
