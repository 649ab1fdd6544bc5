--------------------------- MODULE MCFallScheduler ---------------------------
(* Instances of FallScheduler for TLC.                                     *)
EXTENDS FallScheduler, TLC

WorkerSymmetry == Permutations(Workers)
=============================================================================
