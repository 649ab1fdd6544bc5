----------------------- MODULE MCSecureVirtualStorage -----------------------
(* Instances of SecureVirtualStorage for TLC.                              *)
EXTENDS SecureVirtualStorage, TLC

FileSymmetry == Permutations(Files)
=============================================================================
