-------------------------- MODULE SdkAccessProofs --------------------------
(***************************************************************************)
(* The invariants of SdkAccess for every set of requests, configurations   *)
(* and grants, and all times.  The inductive invariant adds to them what a *)
(* request has on record at each of its stages.                            *)
(***************************************************************************)
EXTENDS SdkAccess, TLAPS

\* A request that waits for OPA has been admitted, can be undone by the grants
\* of the moment, and has its query's time added to what it may last.
QueryOnRecord(r) ==
  stage[r] = "query" =>
    /\ ~ask[r].open
    /\ ask[r].token.signed
    /\ Admitted(ask[r].token.id)
    /\ answer[r] = "none" => grants \in seen[r]
    /\ age[r] + left[r] < TTL(ask[r].token.id) + MaxSkew + RequestTimeout

\* OPA's yes is one that it could give.
YesOnRecord(r) ==
  answer[r] = "allow" =>
    \E g \in seen[r] : Allow(config.path, g, PolicyInput(ask[r]))

ServedOnRecord(r) ==
  stage[r] = "served" /\ ~ask[r].open =>
    /\ ask[r].token # NoToken
    /\ ask[r].token.signed
    /\ Admitted(ask[r].token.id)
    /\ config.policy => answer[r] = "allow"
    /\ age[r] < TTL(ask[r].token.id) + MaxSkew + RequestTimeout

OnRecord ==
  \A r \in Requests :
    /\ stage[r] = "keys" => ~ask[r].open
    /\ stage[r] \in {"absent", "keys"} => answer[r] = "none"
    /\ QueryOnRecord(r) /\ YesOnRecord(r) /\ ServedOnRecord(r)

IInv == TypeOK /\ OnRecord

-----------------------------------------------------------------------------

LEMMA TTLType == \A id \in Identity : TTL(id) \in Nat \ {0}
  BY TimesAssumption DEF TTL, Identity

LEMMA ModBounds ==
  ASSUME NEW a \in Nat, NEW b \in Nat \ {0}
  PROVE  a % b \in 0..(b - 1)
  OBVIOUS

\* NumericDate takes nothing from the start of a token's life and adds nothing
\* to its end.
LEMMA EndsBounds ==
  ASSUME NEW t \in TokenType
  PROVE  /\ IssuedAt(t) \in Int /\ IssuedAt(t) <= 0
         /\ ExpiresAt(t) \in Int /\ ExpiresAt(t) <= TTL(t.id)
<1> DEFINE d == t.frac + TTL(t.id)
<1>1. t.frac \in Nat /\ TTL(t.id) \in Nat \ {0}
  BY TTLType, TimesAssumption DEF TokenType
<1>2. d \in Nat
  BY <1>1
<1> HIDE DEF d
<1>3. d % Second \in 0..(Second - 1)
  BY <1>2, ModBounds, TimesAssumption
<1>4. ExpiresAt(t) = TTL(t.id) - (d % Second)
  BY DEF ExpiresAt, d
<1> QED
  BY <1>1, <1>3, <1>4, TimesAssumption DEF IssuedAt

\* A request that has a token has a well-formed one.
LEMMA TokenOfType ==
  ASSUME NEW a \in Asks \union {NoAsk}, a.token # NoToken
  PROVE  a.token \in TokenType /\ a.token.id \in Identity
         /\ TTL(a.token.id) \in Nat
<1>0. NoAsk.token = NoToken
  BY DEF NoAsk
<1>1. a # NoAsk
  BY <1>0
<1>2. a.token \in TokenType
  BY <1>1, AsksAssumption DEF AskType
<1> QED
  BY <1>2, TTLType DEF TokenType

\* What the clocks let through.
LEMMA Clocks ==
  ASSUME NEW t \in TokenType, NEW n \in Nat,
         NEW skew \in -MaxSkew..MaxSkew, ValidAt(t, n + skew)
  PROVE  t.signed /\ n < TTL(t.id) + MaxSkew
<1>1. t.id \in Identity
  BY DEF TokenType
<1>2. TTL(t.id) \in Nat /\ MaxSkew \in Nat /\ Second \in Nat
  BY <1>1, TTLType, TimesAssumption
<1> QED
  BY <1>2, EndsBounds DEF ValidAt, Verifies

-----------------------------------------------------------------------------
(* Type correctness.                                                       *)

LEMMA TypeInit == Init => TypeOK
  BY ConfigsAssumption, TimesAssumption
     DEF Init, TypeOK, Stages, Pending, Refusals

LEMMA TypeNext == TypeOK /\ [Next]_vars => TypeOK'
<1> SUFFICES ASSUME TypeOK, [Next]_vars PROVE TypeOK'
  OBVIOUS
<1> USE DEF TypeOK, Stages, Pending, Refusals, Goto
<1>1. CASE Tick
  BY <1>1, TimesAssumption DEF Tick, Expired
<1>2. CASE ChangeGrants
  BY <1>2 DEF ChangeGrants
<1>3. ASSUME NEW r \in Requests, Arrive(r) PROVE TypeOK'
  <2>1. PICK a \in Asks : /\ ask' = [ask EXCEPT ![r] = a]
                          /\ age' = [age EXCEPT ![r] = a.age]
                          /\ stage' = [stage EXCEPT ![r] = FirstStage(a)]
    BY <1>3 DEF Arrive
  <2>2. a \in AskType /\ a.age \in Nat
    BY AsksAssumption DEF AskType
  <2>3. FirstStage(a) \in Stages
        /\ (FirstStage(a) \notin {"absent", "served", "unauthorized"}
              => a.token # NoToken)
    BY DEF FirstStage
  <2> QED
    BY <1>3, <2>1, <2>2, <2>3 DEF Arrive
<1>4. ASSUME NEW r \in Requests, KeysFail(r) PROVE TypeOK'
  BY <1>4 DEF KeysFail
<1>5. ASSUME NEW r \in Requests, Validate(r) PROVE TypeOK'
  BY <1>5, TimesAssumption DEF Validate
<1>6. ASSUME NEW r \in Requests, Decide(r) PROVE TypeOK'
  BY <1>6 DEF Decide
<1>7. ASSUME NEW r \in Requests, ReadAnswer(r) PROVE TypeOK'
  <2>1. Outcome(answer[r]) \in Stages
    BY <1>7 DEF ReadAnswer, Outcome
  <2> QED
    BY <1>7, <2>1, TimesAssumption DEF ReadAnswer
<1>8. ASSUME NEW r \in Requests, QueryFails(r) PROVE TypeOK'
  BY <1>8, TimesAssumption DEF QueryFails
<1>9. CASE UNCHANGED vars
  BY <1>9 DEF vars
<1> QED
  BY <1>1, <1>2, <1>3, <1>4, <1>5, <1>6, <1>7, <1>8, <1>9 DEF Next

\* Every variable keeps its type.
THEOREM TypeCorrect == Spec => []TypeOK
  BY TypeInit, TypeNext, PTL DEF Spec

-----------------------------------------------------------------------------
(* The inductive invariant.                                                *)

LEMMA InvInit == Init => IInv
<1> SUFFICES ASSUME Init PROVE OnRecord
  BY TypeInit DEF IInv
<1> QED
  BY DEF Init, OnRecord, QueryOnRecord, YesOnRecord, ServedOnRecord

\* What the record of a request says, for one that a step leaves alone.
LEMMA Untouched ==
  ASSUME IInv, NEW r \in Requests,
         stage'[r] = stage[r], ask'[r] = ask[r], age'[r] = age[r],
         left'[r] = left[r], answer'[r] = answer[r], config' = config,
         grants' = grants, seen'[r] = seen[r]
  PROVE  /\ stage'[r] = "keys" => ~ask'[r].open
         /\ stage'[r] \in {"absent", "keys"} => answer'[r] = "none"
         /\ QueryOnRecord(r)' /\ YesOnRecord(r)' /\ ServedOnRecord(r)'
  BY DEF IInv, OnRecord, QueryOnRecord, YesOnRecord, ServedOnRecord, Admitted,
         PolicyInput

LEMMA InvTick == IInv /\ TypeOK' /\ Tick => OnRecord'
<1> SUFFICES ASSUME IInv, TypeOK', Tick, NEW r \in Requests
             PROVE  /\ stage'[r] = "keys" => ~ask'[r].open
                    /\ stage'[r] \in {"absent", "keys"} => answer'[r] = "none"
                    /\ QueryOnRecord(r)' /\ YesOnRecord(r)'
                    /\ ServedOnRecord(r)'
  BY DEF OnRecord
<1>1. stage' = stage /\ ask' = ask /\ answer' = answer /\ config' = config
      /\ grants' = grants /\ seen' = seen
  BY DEF Tick
<1>2. stage[r] \notin Pending => age'[r] = age[r]
  BY DEF Tick, IInv, TypeOK
<1>3. stage[r] = "query" => age'[r] + left'[r] <= age[r] + left[r]
  BY TimesAssumption DEF Tick, Expired, IInv, TypeOK, Pending, MaxAge, LongestTTL
<1>4. stage[r] = "query" =>
        /\ age[r] \in Nat /\ left[r] \in Nat
        /\ age'[r] \in Nat /\ left'[r] \in Nat
        /\ TTL(ask[r].token.id) \in Nat
  BY TokenOfType, TimesAssumption DEF IInv, TypeOK
<1>5. QueryOnRecord(r)'
  <2>1. CASE stage[r] = "query"
    <3>1. /\ ~ask[r].open /\ ask[r].token.signed
          /\ Admitted(ask[r].token.id)
          /\ answer[r] = "none" => grants \in seen[r]
          /\ age[r] + left[r] < TTL(ask[r].token.id) + MaxSkew + RequestTimeout
      BY <2>1 DEF IInv, OnRecord, QueryOnRecord
    <3>2. age'[r] + left'[r] < TTL(ask[r].token.id) + MaxSkew + RequestTimeout
      BY <2>1, <3>1, <1>3, <1>4, TimesAssumption
    <3> QED
      BY <3>1, <3>2, <1>1 DEF QueryOnRecord, Admitted
  <2> QED
    BY <2>1, <1>1 DEF QueryOnRecord
<1> QED
  BY <1>1, <1>2, <1>5
     DEF IInv, OnRecord, YesOnRecord, ServedOnRecord,
         Admitted, PolicyInput, Pending

LEMMA InvChangeGrants == IInv /\ ChangeGrants => OnRecord'
<1> SUFFICES ASSUME IInv, ChangeGrants, NEW r \in Requests
             PROVE  /\ stage'[r] = "keys" => ~ask'[r].open
                    /\ stage'[r] \in {"absent", "keys"} => answer'[r] = "none"
                    /\ QueryOnRecord(r)' /\ YesOnRecord(r)'
                    /\ ServedOnRecord(r)'
  BY DEF OnRecord
<1>1. stage' = stage /\ ask' = ask /\ age' = age /\ left' = left
      /\ answer' = answer /\ config' = config
  BY DEF ChangeGrants
<1>2. /\ seen[r] \subseteq seen'[r]
      /\ stage[r] = "query" /\ answer[r] = "none" => grants' \in seen'[r]
  BY DEF ChangeGrants, IInv, TypeOK
<1>3. /\ stage[r] = "keys" => ~ask[r].open
      /\ stage[r] \in {"absent", "keys"} => answer[r] = "none"
      /\ QueryOnRecord(r) /\ YesOnRecord(r) /\ ServedOnRecord(r)
  BY DEF IInv, OnRecord
<1>4. QueryOnRecord(r)'
  BY <1>1, <1>2, <1>3 DEF QueryOnRecord, Admitted
<1>5. YesOnRecord(r)'
  BY <1>1, <1>2, <1>3 DEF YesOnRecord, PolicyInput
<1> QED
  BY <1>1, <1>3, <1>4, <1>5 DEF ServedOnRecord, Admitted

\* A step of one request leaves the others alone.
LEMMA InvRequest ==
  ASSUME IInv, NEW r \in Requests, grants' = grants, config' = config,
         \A q \in Requests \ {r} :
           /\ stage'[q] = stage[q] /\ ask'[q] = ask[q] /\ age'[q] = age[q]
           /\ left'[q] = left[q] /\ answer'[q] = answer[q]
           /\ seen'[q] = seen[q],
         stage'[r] = "keys" => ~ask'[r].open,
         stage'[r] \in {"absent", "keys"} => answer'[r] = "none",
         QueryOnRecord(r)', YesOnRecord(r)', ServedOnRecord(r)'
  PROVE  OnRecord'
<1> SUFFICES ASSUME NEW q \in Requests
             PROVE  /\ stage'[q] = "keys" => ~ask'[q].open
                    /\ stage'[q] \in {"absent", "keys"} => answer'[q] = "none"
                    /\ QueryOnRecord(q)' /\ YesOnRecord(q)'
                    /\ ServedOnRecord(q)'
  BY DEF OnRecord
<1>1. CASE q = r
  BY <1>1
<1>2. CASE q # r
  BY <1>2, Untouched
<1> QED
  BY <1>1, <1>2

LEMMA InvArrive ==
  ASSUME IInv, NEW r \in Requests, Arrive(r) PROVE OnRecord'
<1>1. PICK a \in Asks : /\ ask' = [ask EXCEPT ![r] = a]
                        /\ age' = [age EXCEPT ![r] = a.age]
                        /\ stage' = [stage EXCEPT ![r] = FirstStage(a)]
  BY DEF Arrive, Goto
<1>2. /\ stage[r] = "absent" /\ answer[r] = "none"
      /\ config' = config /\ grants' = grants /\ left' = left
      /\ answer' = answer /\ seen' = seen
  BY DEF Arrive, IInv, OnRecord
<1>3. /\ stage'[r] = FirstStage(a) /\ ask'[r] = a /\ answer'[r] = "none"
      /\ \A q \in Requests \ {r} :
           stage'[q] = stage[q] /\ ask'[q] = ask[q] /\ age'[q] = age[q]
  BY <1>1, <1>2 DEF IInv, TypeOK
<1>4. \/ stage'[r] = "served" /\ a.open
      \/ stage'[r] \in {"keys", "unauthorized"} /\ ~a.open
  BY <1>3, AsksAssumption DEF FirstStage, AskType
<1>5. /\ stage'[r] = "keys" => ~ask'[r].open
      /\ QueryOnRecord(r)' /\ YesOnRecord(r)' /\ ServedOnRecord(r)'
  BY <1>3, <1>4
     DEF QueryOnRecord, YesOnRecord, ServedOnRecord
<1> QED
  BY <1>2, <1>3, <1>5, InvRequest

LEMMA InvValidate ==
  ASSUME IInv, NEW r \in Requests, Validate(r) PROVE OnRecord'
<1> DEFINE t == ask[r].token
<1>1. PICK skew \in -MaxSkew..MaxSkew :
       IF ~ValidAt(t, age[r] + skew)
         THEN Goto(r, "invalid") /\ UNCHANGED <<left, seen>>
       ELSE IF ~Admitted(t.id)
         THEN Goto(r, "forbidden") /\ UNCHANGED <<left, seen>>
       ELSE IF ~config.policy
         THEN Goto(r, "served") /\ UNCHANGED <<left, seen>>
       ELSE /\ Goto(r, "query")
            /\ left' = [left EXCEPT ![r] = RequestTimeout]
            /\ seen' = [seen EXCEPT ![r] = {grants}]
  BY DEF Validate
<1>2. /\ stage[r] = "keys" /\ answer[r] = "none" /\ ~ask[r].open
      /\ config' = config /\ grants' = grants /\ ask' = ask /\ age' = age
      /\ answer' = answer
  BY DEF Validate, IInv, OnRecord
<1>3. /\ t # NoToken /\ t \in TokenType /\ TTL(t.id) \in Nat
      /\ age[r] \in Nat
  BY <1>2, TokenOfType DEF IInv, TypeOK
<1>4. /\ \A q \in Requests \ {r} :
           stage'[q] = stage[q] /\ left'[q] = left[q] /\ seen'[q] = seen[q]
      /\ \/ stage'[r] = "invalid" /\ ~ValidAt(t, age[r] + skew)
         \/ stage'[r] = "forbidden"
         \/ /\ stage'[r] = "served" /\ ~config.policy
            /\ ValidAt(t, age[r] + skew) /\ Admitted(t.id)
         \/ /\ stage'[r] = "query" /\ grants \in seen'[r]
            /\ left'[r] = RequestTimeout
            /\ ValidAt(t, age[r] + skew) /\ Admitted(t.id)
  BY <1>1 DEF Goto, IInv, TypeOK
<1> HIDE DEF t
<1>5. /\ ValidAt(t, age[r] + skew) => t.signed /\ age[r] < TTL(t.id) + MaxSkew
  BY <1>3, Clocks
<1>6. t = ask[r].token /\ ask'[r] = ask[r] /\ age'[r] = age[r]
      /\ answer'[r] = answer[r]
  BY <1>2 DEF t
<1>7. QueryOnRecord(r)'
  <2>1. CASE stage'[r] = "query"
    <3>1. /\ left'[r] = RequestTimeout /\ grants \in seen'[r] /\ t.signed
          /\ Admitted(t.id) /\ age[r] < TTL(t.id) + MaxSkew
      BY <2>1, <1>4, <1>5
    <3>2. age'[r] + left'[r] < TTL(t.id) + MaxSkew + RequestTimeout
      BY <3>1, <1>3, <1>6, TimesAssumption
    <3> QED
      BY <3>1, <3>2, <1>2, <1>6 DEF QueryOnRecord, Admitted
  <2> QED
    BY <2>1 DEF QueryOnRecord
<1>8. YesOnRecord(r)'
  BY <1>2 DEF YesOnRecord
<1>9. ServedOnRecord(r)'
  <2>1. CASE stage'[r] = "served"
    <3>1. /\ ~config.policy /\ t.signed /\ Admitted(t.id)
          /\ age[r] < TTL(t.id) + MaxSkew
      BY <2>1, <1>4, <1>5
    <3>2. age'[r] < TTL(t.id) + MaxSkew + RequestTimeout
      BY <3>1, <1>3, <1>6, TimesAssumption
    <3> QED
      BY <3>1, <3>2, <1>2, <1>3, <1>6 DEF ServedOnRecord, Admitted
  <2> QED
    BY <2>1 DEF ServedOnRecord
<1>10. stage'[r] \notin {"absent", "keys"}
  BY <1>4
<1> QED
  BY <1>2, <1>4, <1>7, <1>8, <1>9, <1>10, InvRequest

LEMMA InvDecide ==
  ASSUME IInv, NEW r \in Requests, Decide(r) PROVE OnRecord'
<1>1. /\ stage[r] = "query" /\ answer[r] = "none" /\ grants \in seen[r]
      /\ UNCHANGED <<config, grants, stage, ask, age, left, seen>>
  BY DEF Decide, IInv, OnRecord, QueryOnRecord
<1>2. /\ answer'[r] = "allow" => Allow(config.path, grants, PolicyInput(ask[r]))
      /\ answer'[r] # "none"
      /\ \A q \in Requests \ {r} : answer'[q] = answer[q]
  BY DEF Decide, IInv, TypeOK
<1>3. YesOnRecord(r)'
  BY <1>1, <1>2 DEF YesOnRecord, PolicyInput
<1>4. QueryOnRecord(r)' /\ ServedOnRecord(r)'
  BY <1>1, <1>2 DEF IInv, OnRecord, QueryOnRecord, ServedOnRecord, Admitted
<1> QED
  BY <1>1, <1>2, <1>3, <1>4, InvRequest

\* The steps that end a request.
LEMMA InvEnds ==
  ASSUME IInv, NEW r \in Requests, KeysFail(r) \/ ReadAnswer(r) \/ QueryFails(r)
  PROVE  OnRecord'
<1>1. /\ UNCHANGED <<config, grants, ask, age, answer, seen>>
      /\ \A q \in Requests \ {r} : stage'[q] = stage[q] /\ left'[q] = left[q]
      /\ \/ stage'[r] \in {"unauthorized", "denied", "failed"}
         \/ /\ stage'[r] = "served" /\ stage[r] = "query"
            /\ answer[r] = "allow"
  BY DEF KeysFail, ReadAnswer, QueryFails, Outcome, Goto, IInv, TypeOK
<1>2. stage'[r] = "served" =>
        /\ ask[r].token # NoToken /\ TTL(ask[r].token.id) \in Nat
        /\ age[r] \in Nat /\ left[r] \in Nat
  BY <1>1, TokenOfType, TimesAssumption DEF IInv, TypeOK
<1>3. QueryOnRecord(r) /\ YesOnRecord(r)
  BY DEF IInv, OnRecord
<1>4. QueryOnRecord(r)'
  BY <1>1 DEF QueryOnRecord
<1>5. YesOnRecord(r)'
  BY <1>1, <1>3 DEF YesOnRecord, PolicyInput
<1>6. stage'[r] = "served" =>
        age[r] < TTL(ask[r].token.id) + MaxSkew + RequestTimeout
  BY <1>1, <1>2, <1>3, TimesAssumption DEF QueryOnRecord
<1>7. ServedOnRecord(r)'
  BY <1>1, <1>2, <1>3, <1>6 DEF QueryOnRecord, ServedOnRecord, Admitted
<1>8. stage'[r] \notin {"absent", "keys"}
  BY <1>1
<1> QED
  BY <1>1, <1>4, <1>5, <1>7, <1>8, InvRequest

LEMMA InvNext == IInv /\ [Next]_vars => IInv'
<1> SUFFICES ASSUME IInv, [Next]_vars PROVE OnRecord'
  BY TypeNext DEF IInv
<1>1. TypeOK'
  BY TypeNext DEF IInv
<1>2. CASE UNCHANGED vars
  BY <1>2, Untouched DEF vars, OnRecord
<1> QED
  BY <1>1, <1>2, InvTick, InvChangeGrants, InvArrive, InvValidate, InvDecide,
     InvEnds DEF Next

LEMMA Inductive == Spec => []IInv
  BY InvInit, InvNext, PTL DEF Spec

-----------------------------------------------------------------------------
(* The properties.                                                         *)

\* The trust levels that are enough where more than low is asked.
LEMMA MoreThanLow ==
  ASSUME NEW level, NEW required \in {"medium", "high"},
         MeetsMinTrust(level, required)
  PROVE  level \in {required, "high"}
<1>1. DOMAIN TrustOrder = {"low", "medium", "high"}
  BY DEF TrustOrder
<1>2. TrustOrder["low"] = 0 /\ TrustOrder["medium"] = 1 /\ TrustOrder["high"] = 2
  BY DEF TrustOrder
<1>3. Order(required) = IF required = "high" THEN 2 ELSE 1
  BY <1>1, <1>2 DEF Order
<1>4. /\ level \notin {"medium", "high"} => Order(level) = 0
      /\ level = "medium" => Order(level) = 1
  BY <1>1, <1>2 DEF Order
<1>5. Order(level) >= Order(required)
  BY DEF MeetsMinTrust
<1> QED
  BY <1>3, <1>4, <1>5

\* What is served has its grounds, for any requests, policies and grants.
THEOREM GroundsHold == Spec => []ServedHasGrounds
<1>1. IInv => ServedHasGrounds
  <2> SUFFICES ASSUME IInv, NEW r \in Requests, stage[r] = "served",
                      ~ask[r].open
               PROVE  /\ ask[r].token # NoToken /\ ask[r].token.signed
                      /\ Admitted(ask[r].token.id)
                      /\ config.policy =>
                           \E g \in seen[r] :
                             Allow(config.path, g, PolicyInput(ask[r]))
    BY MoreThanLow DEF ServedHasGrounds, Admitted
  <2> QED
    BY DEF IInv, OnRecord, YesOnRecord, ServedOnRecord
<1> QED
  BY <1>1, Inductive, PTL

\* Nothing is served later than the lifetime, the clocks' difference and the
\* query's time allow.
THEOREM TimelyHolds == Spec => []ServedIsTimely
<1>1. IInv => ServedIsTimely
  BY DEF IInv, OnRecord, ServedOnRecord, ServedIsTimely
<1> QED
  BY <1>1, Inductive, PTL

-----------------------------------------------------------------------------
(* The key cache's entries.                                                *)

\* No guarded request gets past the check of its token's signature.
NoneGetsPast ==
  \A r \in Requests :
    /\ stage[r] \notin {"forbidden", "query", "denied", "failed"}
    /\ stage[r] = "served" => ask[r].open

\* A library that does not take what the cache holds, as golang-jwt does not,
\* accepts no token: everything guarded is refused, and no policy is ever
\* queried, in every configuration (jwks.go:101, helpers.go:25-29).
THEOREM NoneIsAccepted ==
  ASSUME CachedKeyType \notin KeyTypesTaken
  PROVE  Spec => []NoneGetsPast
<1>1. Init => NoneGetsPast
  BY DEF Init, NoneGetsPast
<1>2. TypeOK /\ NoneGetsPast /\ [Next]_vars => NoneGetsPast'
  <2> SUFFICES ASSUME TypeOK, NoneGetsPast, [Next]_vars PROVE NoneGetsPast'
    OBVIOUS
  <2> USE DEF TypeOK, NoneGetsPast
  <2>1. CASE Tick \/ ChangeGrants \/ UNCHANGED vars
    BY <2>1 DEF Tick, ChangeGrants, vars
  <2>2. ASSUME NEW r \in Requests, Arrive(r) PROVE NoneGetsPast'
    <3>1. PICK a \in Asks : /\ ask' = [ask EXCEPT ![r] = a]
                            /\ stage' = [stage EXCEPT ![r] = FirstStage(a)]
      BY <2>2 DEF Arrive, Goto
    <3> QED
      BY <3>1 DEF FirstStage
  <2>3. ASSUME NEW r \in Requests, Validate(r) PROVE NoneGetsPast'
    <3>1. \A n : ~ValidAt(ask[r].token, n)
      BY DEF ValidAt, Verifies
    <3>2. stage' = [stage EXCEPT ![r] = "invalid"] /\ ask' = ask
      BY <2>3, <3>1 DEF Validate, Goto
    <3> QED
      BY <3>2
  <2>4. ASSUME NEW r \in Requests,
               KeysFail(r) \/ Decide(r) \/ ReadAnswer(r) \/ QueryFails(r)
        PROVE  NoneGetsPast'
    BY <2>4 DEF KeysFail, Decide, ReadAnswer, QueryFails, Goto
  <2> QED
    BY <2>1, <2>2, <2>3, <2>4 DEF Next
<1> QED
  BY <1>1, <1>2, TypeCorrect, PTL DEF Spec

-----------------------------------------------------------------------------
(* What the policies make of a query of the SDK's.                         *)

\* The PCI rules hold for no query, since its scope is missing.
LEMMA Scopeless ==
  ASSUME NEW a \in AskType
  PROVE  ~PciAllow(PolicyInput(a)) /\ ~PciDeny(PolicyInput(a))
<1>1. "pci_scope" \notin DOMAIN PolicyInput(a)
  BY DEF PolicyInput
<1> QED
  BY <1>1 DEF PciAllow, PciDeny, PciScoped

\* What is served on a policy's word was allowed by one of two documents.
LEMMA AllowedBy ==
  ASSUME NEW a \in AskType, NEW g, Allow(config.path, g, PolicyInput(a))
  PROVE  config.path \in {"identity/authz", "identity/authz/order_service"}
  BY Scopeless DEF Allow, PaymentAllow

\* The asks of requests that are served on a policy's word.
LEMMA ServedAsks ==
  ASSUME IInv, NEW r \in Requests, stage[r] = "served", ~ask[r].open,
         config.policy
  PROVE  /\ ask[r] \in AskType /\ Admitted(ask[r].token.id)
         /\ \E g \in seen[r] : Allow(config.path, g, PolicyInput(ask[r]))
<1>1. NoAsk.open
  BY DEF NoAsk
<1>2. ask[r] \in AskType
  BY <1>1, AsksAssumption DEF IInv, TypeOK
<1> QED
  BY <1>2 DEF IInv, OnRecord, ServedOnRecord, YesOnRecord

\* No query has the scope that the PCI rules ask for, so that a service that
\* queries the PCI or the payment document, or no document, serves nobody.
\* ADR-001:57 and payment-service/authz.rego:9-13 would have a caller of high
\* trust in PCI scope served (identity.go:111-120, helpers.go:63-71).
THEOREM PciServesNobody ==
  Spec => [](\A r \in Requests :
               stage[r] = "served" /\ ~ask[r].open /\ config.policy =>
                 config.path \in {"identity/authz",
                                  "identity/authz/order_service"})
<1>1. IInv => \A r \in Requests :
               stage[r] = "served" /\ ~ask[r].open /\ config.policy =>
                 config.path \in {"identity/authz",
                                  "identity/authz/order_service"}
  BY ServedAsks, AllowedBy
<1> QED
  BY <1>1, Inductive, PTL

-----------------------------------------------------------------------------
(* The refinement of the abstract monitor.                                 *)

MonitorRights   == {a \in Asks : Entitled(a)}
MonitorVerdicts == [r \in Requests |-> Verdict(r)]

\* A request that waits for a verdict is guarded, and its ask is a real one.
LEMMA AskedFor ==
  ASSUME IInv, NEW r \in Requests, stage[r] \in Pending
  PROVE  ask[r].token # NoToken /\ ~ask[r].open
  BY DEF IInv, TypeOK, OnRecord, QueryOnRecord, Pending

LEMMA MonitorInit == Init => Monitor!Init
  BY DEF Init, Monitor!Init, Verdict

\* A step that leaves configuration and grants alone leaves the rights alone.
LEMMA SameRights ==
  ASSUME config' = config, grants' = grants
  PROVE  MonitorRights' = MonitorRights
  BY DEF MonitorRights, Entitled, Admitted, PolicyInput

\* The verdicts of the requests that a step leaves alone are as they were.
LEMMA OneVerdict ==
  ASSUME NEW r \in Requests, NEW v, Verdict(r)' = v,
         \A q \in Requests \ {r} :
           stage'[q] = stage[q] /\ answer'[q] = answer[q]
  PROVE  MonitorVerdicts' = [MonitorVerdicts EXCEPT ![r] = v]
<1>1. \A q \in Requests \ {r} : Verdict(q)' = Verdict(q)
  BY DEF Verdict
<1> QED
  BY <1>1 DEF MonitorVerdicts

\* The steps of the monitor, on its side of the mapping.
LEMMA MonitorSteps ==
  ASSUME NEW r \in Requests, NEW v, MonitorRights' = MonitorRights,
         ask' = ask, MonitorVerdicts' = [MonitorVerdicts EXCEPT ![r] = v],
         \/ Verdict(r) = "asked" /\ ask[r] \in MonitorRights
              /\ v \in {"approved", "served"}
         \/ Verdict(r) = "approved" /\ v = "served"
         \/ Verdict(r) \in {"asked", "approved"} /\ v = "refused"
         \/ Verdict(r) = v
  PROVE  [Monitor!Next]_(Monitor!vars)
<1>1. MonitorVerdicts[r] = Verdict(r)
  BY DEF MonitorVerdicts
<1>2. CASE Verdict(r) = "asked" /\ ask[r] \in MonitorRights
             /\ v \in {"approved", "served"}
  <2>1. Monitor!Approve(r)
    BY <1>1, <1>2
       DEF Monitor!Approve, Monitor!Decide, MonitorRights, MonitorVerdicts
  <2> QED
    BY <2>1 DEF Monitor!Next
<1>3. CASE Verdict(r) = "approved" /\ v = "served"
  <2>1. Monitor!Serve(r)
    BY <1>1, <1>3
       DEF Monitor!Serve, Monitor!Decide, MonitorRights, MonitorVerdicts
  <2> QED
    BY <2>1 DEF Monitor!Next
<1>4. CASE Verdict(r) \in {"asked", "approved"} /\ v = "refused"
  <2>1. Monitor!Refuse(r)
    BY <1>1, <1>4
       DEF Monitor!Refuse, Monitor!Decide, MonitorRights, MonitorVerdicts
  <2> QED
    BY <2>1 DEF Monitor!Next
<1>5. CASE Verdict(r) = v
  <2>1. MonitorVerdicts' = MonitorVerdicts
    BY <1>5 DEF MonitorVerdicts
  <2> QED
    BY <2>1 DEF Monitor!vars, MonitorRights, MonitorVerdicts
<1> QED
  BY <1>2, <1>3, <1>4, <1>5

LEMMA ArriveRefines ==
  ASSUME IInv, NEW r \in Requests, Arrive(r)
  PROVE  [Monitor!Next]_(Monitor!vars)
<1>1. PICK a \in Asks : /\ ask' = [ask EXCEPT ![r] = a]
                        /\ stage' = [stage EXCEPT ![r] = FirstStage(a)]
  BY DEF Arrive, Goto
<1>2. /\ stage[r] = "absent" /\ config' = config /\ grants' = grants
      /\ answer' = answer
  BY DEF Arrive
<1>3. /\ stage'[r] = FirstStage(a)
      /\ \A q \in Requests \ {r} : stage'[q] = stage[q]
  BY <1>1 DEF IInv, TypeOK
<1>4. \/ a \in {b \in Asks : b.open} /\ stage'[r] = "served"
      \/ stage'[r] \in {"keys", "unauthorized"}
  BY <1>3 DEF FirstStage
<1> DEFINE v == Verdict(r)'
<1>5. \/ a \in {b \in Asks : b.open} /\ v = "served"
      \/ v \in {"asked", "refused"}
  BY <1>4 DEF Verdict
<1>6. Verdict(r) = "idle"
  BY <1>2 DEF Verdict
<1> HIDE DEF v
<1>7. MonitorVerdicts' = [MonitorVerdicts EXCEPT ![r] = v]
  BY <1>2, <1>3, OneVerdict DEF v
<1>8. MonitorRights' = MonitorRights
  BY <1>2, SameRights
<1>9. Monitor!Ask(r)
  BY <1>1, <1>5, <1>6, <1>7, <1>8
     DEF Monitor!Ask, Monitor!Decide, MonitorRights, MonitorVerdicts
<1> QED
  BY <1>9 DEF Monitor!Next

LEMMA ValidateRefines ==
  ASSUME IInv, NEW r \in Requests, Validate(r)
  PROVE  [Monitor!Next]_(Monitor!vars)
<1>1. /\ stage[r] = "keys" /\ answer[r] = "none" /\ config' = config
      /\ grants' = grants /\ ask' = ask /\ answer' = answer
  BY DEF Validate, IInv, OnRecord
<1>2. ask[r].token # NoToken /\ ask[r] \in Asks
  <2>1. NoAsk.token = NoToken
    BY DEF NoAsk
  <2> QED
    BY <1>1, <2>1 DEF IInv, TypeOK
<1>3. /\ \A q \in Requests \ {r} : stage'[q] = stage[q]
      /\ \/ stage'[r] \in {"invalid", "forbidden"}
         \/ /\ stage'[r] = "served" /\ ~config.policy
            /\ ask[r].token.signed /\ Admitted(ask[r].token.id)
         \/ stage'[r] = "query"
  BY DEF Validate, Goto, ValidAt, Verifies, IInv, TypeOK
<1>4. Verdict(r) = "asked"
  BY <1>1 DEF Verdict
<1> DEFINE v == Verdict(r)'
<1>5. \/ v = "refused"
      \/ v = "served" /\ Entitled(ask[r])
      \/ v = Verdict(r)
  BY <1>1, <1>2, <1>3, <1>4 DEF Verdict, Entitled
<1> HIDE DEF v
<1>6. MonitorVerdicts' = [MonitorVerdicts EXCEPT ![r] = v]
  BY <1>1, <1>3, OneVerdict DEF v
<1> QED
  BY <1>1, <1>2, <1>4, <1>5, <1>6, SameRights, MonitorSteps DEF MonitorRights

LEMMA DecideRefines ==
  ASSUME IInv, NEW r \in Requests, Decide(r)
  PROVE  [Monitor!Next]_(Monitor!vars)
<1>1. /\ stage[r] = "query" /\ answer[r] = "none"
      /\ UNCHANGED <<config, grants, stage, ask>>
  BY DEF Decide
<1>2. /\ \A q \in Requests \ {r} : answer'[q] = answer[q]
      /\ \/ /\ answer'[r] = "allow"
            /\ Allow(config.path, grants, PolicyInput(ask[r]))
         \/ answer'[r] \in {"deny", "error", "junk"}
  BY DEF Decide, IInv, TypeOK
<1>3. /\ ask[r] \in Asks /\ ask[r].token # NoToken /\ ask[r].token.signed
      /\ Admitted(ask[r].token.id)
  <2>1. NoAsk.token = NoToken
    BY DEF NoAsk
  <2> QED
    BY <1>1, <2>1 DEF IInv, TypeOK, OnRecord, QueryOnRecord
<1>4. Verdict(r) = "asked"
  BY <1>1 DEF Verdict
<1> DEFINE v == Verdict(r)'
<1>5. \/ v = "refused"
      \/ v = "approved" /\ Entitled(ask[r])
  BY <1>1, <1>2, <1>3 DEF Verdict, Entitled
<1> HIDE DEF v
<1>6. MonitorVerdicts' = [MonitorVerdicts EXCEPT ![r] = v]
  BY <1>1, <1>2, OneVerdict DEF v
<1> QED
  BY <1>1, <1>3, <1>4, <1>5, <1>6, SameRights, MonitorSteps DEF MonitorRights

LEMMA EndRefines ==
  ASSUME IInv, NEW r \in Requests, KeysFail(r) \/ ReadAnswer(r) \/ QueryFails(r)
  PROVE  [Monitor!Next]_(Monitor!vars)
<1>1. /\ UNCHANGED <<config, grants, ask, answer>>
      /\ \A q \in Requests \ {r} : stage'[q] = stage[q]
      /\ stage[r] \in Pending
      /\ \/ stage'[r] \in {"unauthorized", "denied", "failed"}
         \/ /\ stage'[r] = "served" /\ stage[r] = "query"
            /\ answer[r] = "allow"
  BY DEF KeysFail, ReadAnswer, QueryFails, Outcome, Goto, IInv, TypeOK, Pending
<1> DEFINE v == Verdict(r)'
<1>2. \/ v = "refused" /\ Verdict(r) \in {"asked", "approved", "refused"}
      \/ v = "served" /\ Verdict(r) = "approved"
  BY <1>1 DEF Verdict, Pending
<1> HIDE DEF v
<1>3. MonitorVerdicts' = [MonitorVerdicts EXCEPT ![r] = v]
  BY <1>1, OneVerdict DEF v
<1> QED
  BY <1>1, <1>2, <1>3, SameRights, MonitorSteps

LEMMA TickRefines ==
  ASSUME Tick PROVE [Monitor!Next]_(Monitor!vars)
<1>1. UNCHANGED <<config, grants, stage, ask, answer>>
  BY DEF Tick
<1>2. MonitorVerdicts' = MonitorVerdicts
  BY <1>1 DEF MonitorVerdicts, Verdict
<1> QED
  BY <1>1, <1>2, SameRights DEF Monitor!vars, MonitorRights, MonitorVerdicts

LEMMA ChangeRefines ==
  ASSUME ChangeGrants PROVE [Monitor!Next]_(Monitor!vars)
<1>1. UNCHANGED <<config, stage, ask, answer>>
  BY DEF ChangeGrants
<1>2. MonitorVerdicts' = MonitorVerdicts
  BY <1>1 DEF MonitorVerdicts, Verdict
<1>3. MonitorRights' \in SUBSET Asks
  BY DEF MonitorRights
<1>4. Monitor!ChangeRights
  BY <1>1, <1>2, <1>3 DEF Monitor!ChangeRights, MonitorRights, MonitorVerdicts
<1> QED
  BY <1>4 DEF Monitor!Next

LEMMA StepRefines ==
  ASSUME IInv, [Next]_vars PROVE [Monitor!Next]_(Monitor!vars)
<1>1. CASE UNCHANGED vars
  <2>1. UNCHANGED <<config, grants, stage, ask, answer>>
    BY <1>1 DEF vars
  <2>2. MonitorVerdicts' = MonitorVerdicts
    BY <2>1 DEF MonitorVerdicts, Verdict
  <2> QED
    BY <2>1, <2>2, SameRights DEF Monitor!vars, MonitorRights, MonitorVerdicts
<1> QED
  BY <1>1, TickRefines, ChangeRefines, ArriveRefines, ValidateRefines,
     DecideRefines, EndRefines DEF Next

\* Middleware, validation and query implement the monitor: each request is
\* decided at one moment, under the grants of that moment, and for good.
THEOREM Implements == Spec => ImplementsAccessMonitor
  BY MonitorInit, StepRefines, Inductive, PTL
     DEF Spec, ImplementsAccessMonitor, Monitor!Spec
=============================================================================
