----------------------------- MODULE MCKeyRelease -----------------------------
(* Instances of KeyRelease for TLC.                                        *)
EXTENDS KeyRelease, TLC

CallSymmetry == Permutations(Untrusted) \cup Permutations(Hostile)
=============================================================================
