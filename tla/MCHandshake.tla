---------------------------- MODULE MCHandshake ----------------------------
(* Handshake on small instances.                                            *)
EXTENDS Handshake, TLC

HandshakeSymmetry == Permutations(Handshakes)

============================================================================
