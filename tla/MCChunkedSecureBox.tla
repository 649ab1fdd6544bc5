------------------------ MODULE MCChunkedSecureBox ------------------------
(* Instances of ChunkedSecureBox for TLC.                                  *)
EXTENDS ChunkedSecureBox, TLC

\* The threads that read are interchangeable.
ReaderSymmetry == Permutations(Readers)
=============================================================================
