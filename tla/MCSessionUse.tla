---------------------------- MODULE MCSessionUse ----------------------------
(* SessionUse on small instances.                                           *)
EXTENDS SessionUse, TLC

Symmetric == Permutations(Handshakes) \cup Permutations(Urls)

============================================================================
