------------------------------ MODULE MCSigning ------------------------------
(* Signing on small instances.                                              *)
EXTENDS Signing, TLC

CONSTANTS g1, g2, g3, s1, s2, s3

\* Two signers that share a storage, and one whose key the private server has
\* as a whole.
SharedStorage == g1 :> {s1, s2} @@ g2 :> {s2} @@ g3 :> {}

OneSigner == g1 :> {s1, s2, s3}

============================================================================
