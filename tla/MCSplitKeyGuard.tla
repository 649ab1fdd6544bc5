--------------------------- MODULE MCSplitKeyGuard ---------------------------
(* Instances of SplitKeyGuard for TLC.                                     *)
EXTENDS SplitKeyGuard, TLC

ThreadSymmetry == Permutations(Workers) \cup Permutations(Readers)
=============================================================================
