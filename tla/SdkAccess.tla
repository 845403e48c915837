----------------------------- MODULE SdkAccess -----------------------------
(***************************************************************************)
(* Access to a service that uses the SDK: the middleware, ValidateToken,   *)
(* and CheckPolicy with its query to OPA.  A request's handler asks for    *)
(* the policy's decision at once, if it asks at all, and refuses what is   *)
(* not allowed.  The service's clock and the one of the host that minted   *)
(* the token differ by up to MaxSkew either way.                           *)
(*                                                                         *)
(* age[r] is the time since the token of r was minted, left[r] what is     *)
(* left of the policy query's time.                                        *)
(***************************************************************************)
EXTENDS Policies

CONSTANTS
  Requests,       \* requests to the service
  Asks,           \* what they can ask for: a subset of AskType
  Configs,        \* how the service can be configured: a subset of ConfigType
  Grants,         \* the values that data.permissions takes
  Roles, Subjects, Services,
  NoToken,        \* no bearer token
  KeyTypesTaken,  \* the types the JWT library verifies a signature with
  DefaultTTL, PCITTL,  \* the minter's lifetimes
  Second,         \* the moments in a second, which NumericDate is cut to
  MaxSkew,        \* between the clocks of the minter and the service
  RequestTimeout  \* Config.RequestTimeout, on the query

TrustOrder == [low |-> 0, medium |-> 1, high |-> 2]

Identity ==
  [subject : Subjects, roles : SUBSET Roles, auth_method : STRING,
   trust_level : STRING, pci : BOOLEAN]

\* frac is how far into a second the token was minted; signed: with a key of
\* the service's key set.
TokenType == [issuer : STRING, signed : BOOLEAN, frac : 0..(Second - 1),
              id : Identity]
AskType == [open : BOOLEAN, token : TokenType \union {NoToken}, age : Nat,
            resource : STRING \X STRING, action : STRING]

\* requireTrust and requirePCI are the middleware's options; policy says
\* whether the service's handlers call CheckPolicy.
ConfigType == [service : Services, path : Paths, policy : BOOLEAN,
               requireTrust : DOMAIN TrustOrder \union {""},
               requirePCI : BOOLEAN]

ASSUME AsksAssumption == NoToken \notin TokenType /\ Asks \subseteq AskType
ASSUME ConfigsAssumption == Configs \subseteq ConfigType
ASSUME TimesAssumption ==
  /\ DefaultTTL \in Nat \ {0} /\ PCITTL \in Nat \ {0} /\ Second \in Nat \ {0}
  /\ MaxSkew \in Nat /\ RequestTimeout \in Nat \ {0}

VARIABLES
  config,   \* the service's configuration
  grants,   \* data.permissions, as OPA has it
  stage,    \* where each request is
  ask,      \* what it asks for
  age,      \* of its token
  left,     \* of the time for its query
  answer,   \* what OPA has answered it
  seen      \* history: grants in force while its query was undecided

vars == <<config, grants, stage, ask, age, left, answer, seen>>

\* unauthorized: 401 without a verdict on the token; invalid: 401 on the
\* token; forbidden: 403 by the middleware; denied: the policy does not allow;
\* failed: there is no answer to the query.
Refusals == {"unauthorized", "invalid", "forbidden", "denied", "failed"}
Pending  == {"keys", "query"}
Stages   == {"absent", "served"} \union Pending \union Refusals

TTL(id) == IF id.pci THEN PCITTL ELSE DefaultTTL
LongestTTL == IF PCITTL > DefaultTTL THEN PCITTL ELSE DefaultTTL
\* Older tokens are not told apart.
MaxAge == LongestTTL + MaxSkew + RequestTimeout + 1

NoAsk == [open |-> TRUE, token |-> NoToken, age |-> 0,
          resource |-> Nameless, action |-> ""]

TypeOK ==
  /\ config \in ConfigType
  /\ grants \in Grants
  /\ stage \in [Requests -> Stages]
  /\ ask \in [Requests -> Asks \union {NoAsk}]
  /\ age \in [Requests -> Nat]
  /\ left \in [Requests -> 0..RequestTimeout]
  /\ answer \in [Requests -> {"none", "allow", "deny", "error", "junk"}]
  /\ seen \in [Requests -> SUBSET Grants]
  /\ \A r \in Requests :
       stage[r] \notin {"absent", "served", "unauthorized"}
         => ask[r].token # NoToken

Init ==
  /\ config \in Configs
  /\ grants \in Grants
  /\ stage = [r \in Requests |-> "absent"]
  /\ ask = [r \in Requests |-> NoAsk]
  /\ age = [r \in Requests |-> 0]
  /\ left = [r \in Requests |-> 0]
  /\ answer = [r \in Requests |-> "none"]
  /\ seen = [r \in Requests |-> {}]

Goto(r, s) == stage' = [stage EXCEPT ![r] = s]

-----------------------------------------------------------------------------
(* Tokens and the clocks.                                                  *)

\* What the key cache holds for each key id, and whether it can be used.
CachedKeyType == "json.RawMessage"
Verifies(token) == token.signed /\ CachedKeyType \in KeyTypesTaken

\* iat and exp, counted from the minting, and cut to seconds.
IssuedAt(token)  == -token.frac
ExpiresAt(token) == TTL(token.id) - ((token.frac + TTL(token.id)) % Second)

\* The parser's checks, with reading the time elapsed by the service's clock.
ValidAt(token, reading) ==
  /\ Verifies(token)
  /\ token.issuer = "identity-fabric.internal"
  /\ reading < ExpiresAt(token)
  /\ reading >= IssuedAt(token)

Order(level) == IF level \in DOMAIN TrustOrder THEN TrustOrder[level] ELSE 0

\* Variant with a fault: the levels are compared the wrong way round.
MeetsMaxTrust(actual, required) == Order(required) >= Order(actual)

MeetsMinTrust(actual, required) == Order(actual) >= Order(required)

\* What the middleware's options ask of an identity.
Admitted(id) ==
  /\ config.requireTrust = "" \/ MeetsMinTrust(id.trust_level, config.requireTrust)
  /\ config.requirePCI => id.pci

\* CheckPolicy's input.  It leaves pci_scope out.
PolicyInput(a) ==
  LET id == a.token.id IN
    [subject |-> id.subject, roles |-> id.roles,
     auth_method |-> id.auth_method, trust_level |-> id.trust_level,
     resource |-> a.resource, action |-> a.action,
     service_name |-> config.service]

-----------------------------------------------------------------------------
(* The middleware.                                                         *)

\* Variant with a fault: the empty token is not looked for.
FirstStageUnchecked(a) == IF a.open THEN "served" ELSE "keys"

FirstStage(a) == IF a.open THEN "served"
                 ELSE IF a.token = NoToken THEN "unauthorized" ELSE "keys"

\* A path of SkipPaths goes to the handler as it is; without a bearer token
\* the request ends; else the keys are asked of the cache.
Arrive(r) ==
  /\ stage[r] = "absent"
  /\ \E a \in Asks :
       /\ ask' = [ask EXCEPT ![r] = a]
       /\ age' = [age EXCEPT ![r] = a.age]
       /\ Goto(r, FirstStage(a))
  /\ UNCHANGED <<config, grants, left, answer, seen>>

\* The cache has no fresh keys and cannot fetch them.
KeysFail(r) ==
  /\ stage[r] = "keys"
  /\ Goto(r, "unauthorized")
  /\ UNCHANGED <<config, grants, ask, age, left, answer, seen>>

\* The token is checked by the service's clock, then the middleware's
\* options; the handler asks for the policy's decision.
Validate(r) ==
  /\ stage[r] = "keys"
  /\ \E skew \in -MaxSkew..MaxSkew :
       IF ~ValidAt(ask[r].token, age[r] + skew)
         THEN Goto(r, "invalid") /\ UNCHANGED <<left, seen>>
       ELSE IF ~Admitted(ask[r].token.id)
         THEN Goto(r, "forbidden") /\ UNCHANGED <<left, seen>>
       ELSE IF ~config.policy
         THEN Goto(r, "served") /\ UNCHANGED <<left, seen>>
       ELSE /\ Goto(r, "query")
            /\ left' = [left EXCEPT ![r] = RequestTimeout]
            /\ seen' = [seen EXCEPT ![r] = {grants}]
  /\ UNCHANGED <<config, grants, ask, age, answer>>

-----------------------------------------------------------------------------
(* The policy query.                                                       *)

\* OPA decides; or it answers with an error, whose body has no result; or
\* something else answers.
Decide(r) ==
  /\ stage[r] = "query"
  /\ answer[r] = "none"
  /\ \E x \in {IF Allow(config.path, grants, PolicyInput(ask[r])) THEN "allow"
               ELSE "deny", "error", "junk"} :
       answer' = [answer EXCEPT ![r] = x]
  /\ UNCHANGED <<config, grants, stage, ask, age, left, seen>>

\* Variant with a fault: an answer that cannot be read is taken for a yes.
OutcomeFailOpen(x) == IF x \in {"allow", "junk"} THEN "served" ELSE "denied"

\* Variant with a fault: the request goes on when the policy engine fails.
OutcomeErrorOpen(x) == IF x \in {"allow", "error"} THEN "served" ELSE "denied"

\* What the handler does on each answer.
Outcome(x) == CASE x = "allow" -> "served"
                [] x \in {"deny", "error"} -> "denied"
                [] x = "junk" -> "failed"

ReadAnswer(r) ==
  /\ stage[r] = "query"
  /\ answer[r] # "none"
  /\ Goto(r, Outcome(answer[r]))
  /\ left' = [left EXCEPT ![r] = 0]
  /\ UNCHANGED <<config, grants, ask, age, answer, seen>>

\* Variant with a fault: the client has no timeout.
ExpiredNever(r) == FALSE

Expired(r) == left[r] = 0

\* The connection fails, the request is cancelled, or the client's timeout
\* fires.
QueryFails(r) ==
  /\ stage[r] = "query"
  /\ Goto(r, "failed")
  /\ left' = [left EXCEPT ![r] = 0]
  /\ UNCHANGED <<config, grants, ask, age, answer, seen>>

\* OPA gets new data.
ChangeGrants ==
  /\ \E g \in Grants \ {grants} :
       /\ grants' = g
       /\ seen' = [r \in Requests |->
            IF stage[r] = "query" /\ answer[r] = "none"
              THEN seen[r] \union {g} ELSE seen[r]]
  /\ UNCHANGED <<config, stage, ask, age, left, answer>>

\* A timeout that is due fires before time passes.
Tick ==
  /\ \A r \in Requests : stage[r] = "query" => ~Expired(r)
  /\ age' = [r \in Requests |->
       IF stage[r] \in Pending /\ age[r] < MaxAge THEN age[r] + 1 ELSE age[r]]
  /\ left' = [r \in Requests |->
       IF stage[r] = "query" /\ left[r] > 0 THEN left[r] - 1 ELSE left[r]]
  /\ UNCHANGED <<config, grants, stage, ask, answer, seen>>

Next ==
  \/ Tick \/ ChangeGrants
  \/ \E r \in Requests :
       \/ Arrive(r) \/ KeysFail(r) \/ Validate(r) \/ Decide(r)
       \/ ReadAnswer(r) \/ QueryFails(r)

Spec == Init /\ [][Next]_vars

\* Time passes and the client's timer fires; OPA need not answer.
Fairness ==
  /\ WF_vars(Tick)
  /\ \A r \in Requests : WF_vars(Expired(r) /\ QueryFails(r))

FairSpec == Spec /\ Fairness

-----------------------------------------------------------------------------
(* Properties.                                                             *)

\* What is served on a guarded path has grounds for it, whatever happened
\* between the steps: a token signed by the service, an identity of the trust
\* and the scope that the options ask for, a made-up level being none, and,
\* where the handlers ask, a policy that allowed the request under grants in
\* force while it was being decided (middleware.go:50-67, 107-115,
\* helpers.go:56-71).
ServedHasGrounds ==
  \A r \in Requests :
    stage[r] = "served" /\ ~ask[r].open =>
      /\ ask[r].token # NoToken
      /\ ask[r].token.signed
      /\ config.requireTrust \in {"medium", "high"} =>
           ask[r].token.id.trust_level \in {config.requireTrust, "high"}
      /\ config.requirePCI => ask[r].token.id.pci
      /\ config.policy =>
           \E g \in seen[r] : Allow(config.path, g, PolicyInput(ask[r]))

\* No request is served long after its token's promised end: the clocks'
\* difference and the query's time are all that can be added to the lifetime
\* (token.go:78, helpers.go:25-29, identity.go:66-68).
ServedIsTimely ==
  \A r \in Requests :
    stage[r] = "served" /\ ~ask[r].open =>
      age[r] < TTL(ask[r].token.id) + MaxSkew + RequestTimeout

\* Every policy query comes to an end, OPA answering or not.
QueriesEnd == \A r \in Requests : stage[r] = "query" ~> stage[r] # "query"

\* What a guarded ask needs at the moment to be served.
Entitled(a) ==
  /\ a.token # NoToken
  /\ a.token.signed
  /\ Admitted(a.token.id)
  /\ config.policy => Allow(config.path, grants, PolicyInput(a))

Verdict(r) ==
  CASE stage[r] = "absent" -> "idle"
    [] stage[r] = "served" -> "served"
    [] stage[r] = "keys" -> "asked"
    [] stage[r] = "query" /\ answer[r] = "none"  -> "asked"
    [] stage[r] = "query" /\ answer[r] = "allow" -> "approved"
    [] OTHER -> "refused"

Monitor == INSTANCE AccessMonitor WITH
  Open    <- {a \in Asks : a.open},
  rights  <- {a \in Asks : Entitled(a)},
  verdict <- [r \in Requests |-> Verdict(r)]

\* Middleware, validation and query together are one decision about each
\* request, made under the grants of one moment: nothing is served that was
\* not approved, and a no, an error or an answer that cannot be read is never
\* turned into a yes (middleware.go:38-70, helpers.go:56-71).
ImplementsAccessMonitor == Monitor!Spec

\* What the queried document or a baseline denies is not served.
DenyCounts ==
  \A r \in Requests :
    stage[r] = "served" /\ ~ask[r].open /\ config.policy =>
      LET in == PolicyInput(ask[r])
      IN ~OwnDeny(config.path, in) /\ ~BaselineDeny(in)
=============================================================================
