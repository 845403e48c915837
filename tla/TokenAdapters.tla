--------------------------- MODULE TokenAdapters ---------------------------
(***************************************************************************)
(* The token exchange's adapters: which of them a subject token is handed  *)
(* to, and what the two that work locally make of it.  A token is          *)
(* abstracted to what the code tells apart about its text.                 *)
(***************************************************************************)
EXTENDS Integers

CONSTANTS
  Issuers,      \* names a token can give as its issuer
  Keys,         \* keys a token can be signed with
  IssuerKeys,   \* [issuer -> key]: what fetchAllJWKS loaded at startup
  IssuerTrust,  \* [issuer -> trust level]: TRUSTED_ISSUERS
  IdPTrust,     \* [issuer -> trust level]: the SAML adapter's TrustedIdPs
  DefaultTTL,   \* TokenConfig.DefaultTTL
  PCITTL        \* TokenConfig.PCITTL

ASSUME IssuersAssumption ==
  /\ DOMAIN IssuerKeys \subseteq Issuers
  /\ DOMAIN IssuerTrust \subseteq Issuers
  /\ DOMAIN IdPTrust \subseteq Issuers
ASSUME TTLsAssumption == DefaultTTL \in Nat \ {0} /\ PCITTL \in Nat \ {0}

\* The adapters' types, and the names of types nobody has an adapter for.
TokenTypes == {"jwt", "access_token", "saml2", "hmac", "opaque"}

\* What main registers.  There is an HMAC adapter, but it is not among them.
Registered == {"jwt", "opaque", "saml2"}

\* The text of a subject token:
\*   size       its length
\*   segments   the number of parts between dots
\*   head       the members looked for in the JSON object that its first part
\*              decodes to
\*   word       it has letters, digits, dashes and underscores only
\*   base64     it is standard base64
\*   marker     what it decodes to contains one of the three SAML markers
\*   assertion  what it decodes to parses as an assertion or a response
\*   issuer, signer   who it names as its issuer, and whose key signed it
\*   expiring   it has an expiry that can be read
TokenShape ==
  [size : Nat, segments : Nat \ {0}, head : SUBSET {"alg"},
   word : BOOLEAN, base64 : BOOLEAN, marker : BOOLEAN, assertion : BOOLEAN,
   issuer : Issuers, signer : Keys, expiring : BOOLEAN]

\* What any string satisfies: a dot is neither a word character nor base64,
\* and what does not decode contains nothing.
IsText(t) ==
  /\ t \in TokenShape
  /\ t.word \/ t.base64 => t.segments = 1
  /\ t.marker \/ t.assertion => t.base64

-----------------------------------------------------------------------------
(* Detection (adapter.go and the adapters' Detect).                        *)

\* Variant with a fault: the decoded text is not looked at.
SAMLDetectsBase64(t) == t.base64

JWTDetects(t)    == t.segments = 3 /\ "alg" \in t.head
SAMLDetects(t)   == t.base64 /\ t.marker
OpaqueDetects(t) == t.size \in 16..256 /\ t.word

\* The registered adapters' word on a token.
Detects(type, t) ==
  \/ type = "jwt"    /\ JWTDetects(t)
  \/ type = "saml2"  /\ SAMLDetects(t)
  \/ type = "opaque" /\ OpaqueDetects(t)

\* The adapters a request can be handed to.  With a type there is at most
\* one; without, it is the first that detects the token, in the order of an
\* iteration over a Go map, which is any order.
Candidates(hint, t) ==
  IF hint = "" THEN {a \in Registered : Detects(a, t)}
               ELSE {hint} \intersect Registered

-----------------------------------------------------------------------------
(* Exchange.  left is what is left of the token's life, negative once it   *)
(* has expired.                                                            *)

Identity(method, trust) ==
  [ok |-> TRUE, method |-> method, trust |-> trust, pci |-> FALSE]
Refused == [ok |-> FALSE, method |-> "", trust |-> "", pci |-> FALSE]

JWTAccepts(t, left) ==
  /\ t.segments = 3 /\ "alg" \in t.head
  /\ t.issuer \in DOMAIN IssuerKeys
  /\ t.signer = IssuerKeys[t.issuer]
  /\ t.expiring /\ left > 0
  /\ t.issuer \in DOMAIN IssuerTrust

SAMLAccepts(t, left) ==
  /\ t.base64 /\ t.assertion
  /\ t.issuer \in DOMAIN IdPTrust
  /\ t.expiring => left >= 0

\* What the adapters that ask nobody return.
LocalExchange(type, t, left) ==
  IF type = "jwt" /\ JWTAccepts(t, left)
    THEN Identity("legacy", IssuerTrust[t.issuer])
  ELSE IF type = "saml2" /\ SAMLAccepts(t, left)
    THEN Identity("saml", IdPTrust[t.issuer])
  ELSE Refused

\* What the opaque adapter makes of a session.
SessionIdentity == Identity("legacy", "medium")

-----------------------------------------------------------------------------
(* Minting (canonical/token.go).                                           *)

Lifetime(id) == IF id.pci THEN PCITTL ELSE DefaultTTL
=============================================================================
