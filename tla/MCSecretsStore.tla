---------------------------- MODULE MCSecretsStore ----------------------------
(* Instances of SecretsStore for TLC.                                      *)
EXTENDS SecretsStore, TLC

CallSymmetry == Permutations(Calls) \cup Permutations(Tokens)
=============================================================================
