------------------------------- MODULE KeySet -------------------------------
(***************************************************************************)
(* Key documents and the choice of a key.  A JWKS document is abstracted   *)
(* to the set of key ids in it: the key material plays no part in caching, *)
(* and an id always names the same key.                                    *)
(***************************************************************************)
EXTENDS Integers, Sequences

CONSTANTS
  Kids,      \* key ids
  NoKid      \* stands for the missing id of a key or of a token's header

ASSUME NoKidAssumption == NoKid \notin Kids

\* A document lists keys; those without an id are listed under NoKid.
Documents == SUBSET (Kids \union {NoKid})

\* The header of a token names a key or has no kid at all.
Headers == Kids \union {NoKid}

\* A reply is the key found, or the reason why there is none.
None       == [kind |-> "none",    kid |-> NoKid]
NoKeySet   == [kind |-> "nokeys",  kid |-> NoKid]
KeyOf(k)   == [kind |-> "key",     kid |-> k]
Missing    == [kind |-> "missing", kid |-> NoKid]
Unknown(k) == [kind |-> "unknown", kid |-> k]

Results == [kind : {"none", "nokeys", "key", "missing", "unknown"},
            kid  : Headers]

\* Variant of Usable with a fault: keys without an id stay, under the empty id.
UsableAndNameless(doc) == doc

\* The entries a reader keeps of a document: keys without an id are dropped.
Usable(doc) == doc \ {NoKid}

\* The key that verifies a token with this header.
KeyFor(kid, ks) ==
  IF kid # NoKid THEN IF kid \in ks THEN KeyOf(kid) ELSE Unknown(kid)
  ELSE IF \E k \in ks : ks = {k} THEN KeyOf(CHOOSE k \in ks : TRUE)
  ELSE Missing
=============================================================================
