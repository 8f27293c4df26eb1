--------------------------- MODULE MCKeyLifecycle ---------------------------
(* KeyLifecycle on small instances.                                         *)
EXTENDS KeyLifecycle, TLC

CONSTANTS s1, s2, k1

OneVaultKey == [k \in {k1} |-> {s1, s2}]

============================================================================
