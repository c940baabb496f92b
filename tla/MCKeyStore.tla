----------------------------- MODULE MCKeyStore -----------------------------
(* An instance of KeyStore for TLC: two keys with the same id and one with  *)
(* an id of its own.                                                        *)
EXTENDS KeyStore, TLC

CONSTANTS a1, a2

AdminSymmetry == Permutations(Admins)

MCKeyId == [k \in Keys |-> IF k = "key3" THEN "id2" ELSE "id1"]

=============================================================================
