----------------------------- MODULE MCAdapters -----------------------------
(* A small instance of HmacExchange and of ClaimMapping for TLC. *)
EXTENDS HmacExchange, ClaimMapping

CONSTANTS c1, old, new

OneCall    == {c1}
MCServices == {"batch", "billing"}
MCSecrets  == {old, new}
Symmetry   == Permutations(MCSecrets)

\* TLC evaluates it for these pieces and bounds.
ASSUME RolesAgreeHere == RolesAgree

MCPieces == {"", "read", "write"}
MCRoles  == {<<>>, <<"read">>}
=============================================================================
