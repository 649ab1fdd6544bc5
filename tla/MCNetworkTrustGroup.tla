------------------------- MODULE MCNetworkTrustGroup -------------------------
(* Instances of NetworkTrustGroup for TLC, with the sharing of shamir.py.  *)
EXTENDS NetworkTrustGroup, Shamir

OneCoefficient == <<202>>

ASSUME BytesAssumption ==
    Secret \in Byte /\ Random \in Seq(Byte) /\ Len(Random) = K - 1
=============================================================================
