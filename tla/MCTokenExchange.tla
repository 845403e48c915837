-------------------------- MODULE MCTokenExchange --------------------------
(* Small instances of TokenExchange for TLC.                               *)
EXTENDS TokenExchange, TLC

CONSTANTS r1, r2

TwoRequests == {r1, r2}
Symmetry == Permutations(Requests)

MCIssuers     == {"legacy-jwt-issuer", "legacy-idp", "stranger"}
MCKeys        == {"issuerKey", "otherKey"}
MCIssuerKeys  == [i \in {"legacy-jwt-issuer"} |-> "issuerKey"]
MCIssuerTrust == [i \in {"legacy-jwt-issuer"} |-> "high"]
MCIdPTrust    == [i \in {"legacy-idp"} |-> "medium"]

\* The subject tokens: a session id, a JWT with its issuer's signature and
\* one without, an assertion, and a short assertion whose base64 happens to
\* have none of the characters that a session id cannot have.
Session ==
  [size |-> 64, segments |-> 1, head |-> {}, word |-> TRUE, base64 |-> TRUE,
   marker |-> FALSE, assertion |-> FALSE, issuer |-> "stranger",
   signer |-> "otherKey", expiring |-> TRUE]
SignedJWT ==
  [size |-> 400, segments |-> 3, head |-> {"alg"}, word |-> FALSE,
   base64 |-> FALSE, marker |-> FALSE, assertion |-> FALSE,
   issuer |-> "legacy-jwt-issuer", signer |-> "issuerKey", expiring |-> TRUE]
ForeignJWT == [SignedJWT EXCEPT !.signer = "otherKey"]
Assertion ==
  [size |-> 900, segments |-> 1, head |-> {}, word |-> FALSE, base64 |-> TRUE,
   marker |-> TRUE, assertion |-> TRUE, issuer |-> "legacy-idp",
   signer |-> "otherKey", expiring |-> TRUE]
ShortAssertion == [Assertion EXCEPT !.size = 240, !.word = TRUE]

Ask(t, h) == [post |-> TRUE, json |-> TRUE, exchangeGrant |-> TRUE,
              token |-> t, hint |-> h]

SessionToken    == {Session}
SessionBodies   == {Ask(Session, "")}

LocalTokens   == {Session, SignedJWT, ForeignJWT, Assertion}
LocalBodies   ==
  { Ask(Session, ""), Ask(SignedJWT, ""), Ask(ForeignJWT, "jwt"),
    Ask(Assertion, "saml2"), Ask(SignedJWT, "access_token"),
    Ask(NoToken, ""), EmptyBody }

AmbiguousTokens == {ShortAssertion}
AmbiguousBodies == {Ask(ShortAssertion, "")}

ShortLife == {1}
=============================================================================
