--------------------------- MODULE MCPackedStorage ---------------------------
(* Instances of PackedStorage for TLC.                                     *)
EXTENDS PackedStorage, TLC

CallSymmetry == Permutations(Calls)
=============================================================================
