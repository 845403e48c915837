---------------------------- MODULE MCSdkAccess ----------------------------
(* Small instances of SdkAccess for TLC.                                   *)
EXTENDS SdkAccess

CONSTANT r1

OneRequest == {r1}

MCRoles    == {<<"order", "read">>, <<"order", "write">>, <<"payment", "clerk">>,
               <<"support", "agent">>}
MCServices == {"orders", "payments"}
MCSubjects == {<<"user", "u1">>, <<"service", "orders">>}

Id(s, roles, m, t, p) ==
  [subject |-> s, roles |-> roles, auth_method |-> m, trust_level |-> t, pci |-> p]

Clerk   == Id(<<"user", "u1">>, {<<"payment", "clerk">>}, "oidc", "high", TRUE)
Reader  == Id(<<"user", "u1">>, {<<"order", "read">>}, "saml", "medium", FALSE)
Support == Id(<<"user", "u1">>, {<<"support", "agent">>, <<"order", "write">>},
              "legacy", "low", FALSE)
Itself  == Id(<<"service", "orders">>, {}, "mtls", "high", FALSE)
\* With a level that an operator has made up in TRUSTED_ISSUERS.
Partner == Id(<<"user", "u1">>, {<<"order", "write">>}, "legacy", "partner", FALSE)

Token(id, f) == [issuer |-> "identity-fabric.internal", signed |-> TRUE,
                 frac |-> f, id |-> id]
Foreign == [Token(Clerk, 0) EXCEPT !.issuer = "elsewhere"]
Forged  == [Token(Clerk, 0) EXCEPT !.signed = FALSE]

Ask(t, res, act) == [open |-> FALSE, token |-> t, age |-> 0,
                     resource |-> res, action |-> act]
Payment == <<"order", "payment">>

MCAsks ==
  {Ask(Token(id, f), Payment, act) :
     id \in {Clerk, Reader, Support, Itself}, f \in 0..1, act \in {"read", "write"}}
  \union {Ask(Foreign, Payment, "read"), Ask(Forged, Payment, "read"),
          Ask(NoToken, Payment, "read"), NoAsk}
  \union {Ask(Token(id, 0), <<"order", "o1">>, "write") : id \in {Reader, Support, Partner}}

Config(s, path, trust, pci) ==
  [service |-> s, path |-> path, policy |-> TRUE, requireTrust |-> trust,
   requirePCI |-> pci]
MCConfigs ==
  { Config("orders", "identity/authz", "", FALSE),
    Config("orders", "identity/authz/order_service", "medium", FALSE),
    Config("orders", "identity/authz", "medium", FALSE),
    Config("payments", "identity/authz/payment_service", "high", TRUE),
    Config("payments", "identity/pci", "", FALSE),
    Config("orders", "data", "", FALSE),
    [Config("orders", "data", "low", FALSE) EXCEPT !.policy = FALSE] }
AuthzConfigs == {Config("orders", "identity/authz", "", FALSE)}

SupportMay == [role \in {<<"support", "agent">>} |->
                 {[service |-> "orders", action |-> "*"]}]
NobodyMay  == [role \in {<<"support", "agent">>} |-> {}]
MCGrants   == {SupportMay, NobodyMay}

\* The library takes ECDSA keys only, so that the program gets no further than
\* the signature's check (NoneIsAccepted in SdkAccessProofs).  The instance
\* supposes that it takes both, for the sake of what comes after.
BothKeyTypes == {"ecdsa.PublicKey", "json.RawMessage"}
=============================================================================
