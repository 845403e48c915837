---------------------------- MODULE MCJWKSCache ----------------------------
(* A small instance of JWKSCache for TLC. *)
EXTENDS JWKSCache

CONSTANTS c1, c2, k1

TwoCallers == {c1, c2}
OneKid     == {k1}
=============================================================================
