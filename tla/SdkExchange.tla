---------------------------- MODULE SdkExchange -----------------------------
(***************************************************************************)
(* ExchangeToken of the SDK against the token exchange.  The service is    *)
(* what TokenService promises, which TokenExchange implements; the SDK has *)
(* a timeout of its own, shorter than the service's lookup, so that a call *)
(* can give up on a request that is then granted.                          *)
(***************************************************************************)
EXTENDS Integers

CONSTANTS
  Calls,           \* calls of ExchangeToken; each makes one request
  Tokens,          \* subject tokens: session ids, which expire
  NoToken,
  MaxLife,         \* bound on the life a token starts with
  MaxStale,        \* the service's: how long a granted token may have been dead
  RequestTimeout   \* of the SDK's http.Client

ASSUME TimesAssumption ==
  MaxLife \in Nat /\ MaxStale \in Nat /\ RequestTimeout \in Nat \ {0}
ASSUME NoTokenAssumption == NoToken \notin Tokens

VARIABLES
  status, subject, life, issued,  \* the service's
  answer,   \* what is under way to each call: a status code and a body
  timer,    \* what is left of each call's timeout
  result    \* of each call: "none" as yet, "token", "error", or "empty", the
            \* empty text without an error

service == <<status, subject, life, issued>>
client  == <<answer, timer, result>>
vars    == <<service, client>>

Service == INSTANCE TokenService WITH Requests <- Calls, Mortal <- Tokens

NoAnswer == [code |-> 0, body |-> "none"]
\* "other" decodes and has no access_token.
Answers  == [code : {200, 400, 401, 502},
             body : {"token", "error", "other", "garbled"}]

\* Beyond what any property tells apart.
LifeFloor == -(MaxStale + RequestTimeout) - 1

TypeOK ==
  /\ status \in [Calls -> {"idle", "open", "granted", "refused", "dropped"}]
  /\ subject \in [Calls -> Tokens \union {NoToken}]
  /\ life \in [Tokens -> LifeFloor..MaxLife]
  /\ issued \in Nat
  /\ answer \in [Calls -> Answers \union {NoAnswer}]
  /\ timer \in [Calls -> -1..RequestTimeout]
  /\ result \in [Calls -> {"none", "token", "error", "empty"}]

Init ==
  /\ status = [c \in Calls |-> "idle"]
  /\ subject = [c \in Calls |-> NoToken]
  /\ life \in [Tokens -> 0..MaxLife]
  /\ issued = 0
  /\ answer = [c \in Calls |-> NoAnswer]
  /\ timer = [c \in Calls |-> -1]
  /\ result = [c \in Calls |-> "none"]

\* A call is waiting from its request on until it returns.
Waiting(c) == timer[c] >= 0 /\ result[c] = "none"

Call(c) ==
  /\ timer[c] = -1
  /\ timer' = [timer EXCEPT ![c] = RequestTimeout]
  /\ UNCHANGED <<service, answer, result>>

-----------------------------------------------------------------------------
(* The service and the network.                                            *)

\* The request arrives, even when its caller waits no longer.
Arrive(c) == timer[c] >= 0 /\ Service!Ask(c) /\ UNCHANGED client

\* The first answer is the one that counts.
Send(c, code, body) ==
  /\ answer' = [answer EXCEPT ![c] =
       IF @ = NoAnswer THEN [code |-> code, body |-> body] ELSE @]
  /\ UNCHANGED <<timer, result>>

Grant(c) == Service!Grant(c) /\ Send(c, 200, "token")

Refuse(c) ==
  /\ Service!Refuse(c)
  /\ \E code \in {400, 401} : Send(c, code, "error")

\* A request that the service refuses unseen.
Reject(c) ==
  /\ status[c] = "refused"
  /\ answer[c] = NoAnswer
  /\ Send(c, 400, "error")
  /\ UNCHANGED service

Drop == Service!Drop /\ UNCHANGED client

\* Something else answers in the service's place, a gateway with an error or
\* a page, or another service; none of them makes up an access_token.
Intercept(c) ==
  /\ Waiting(c)
  /\ answer[c] = NoAnswer
  /\ \E code \in {200, 502}, body \in {"other", "garbled"} : Send(c, code, body)
  /\ UNCHANGED service

\* The body of an answer is cut off.
Garble(c) ==
  /\ Waiting(c)
  /\ answer[c] # NoAnswer
  /\ answer' = [answer EXCEPT ![c].body = "garbled"]
  /\ UNCHANGED <<service, timer, result>>

-----------------------------------------------------------------------------
(* exchangeToken, from the answer on.                                      *)

\* Variants with a fault: the error of the decoder is dropped, or the body is
\* returned undecoded.
DecodedUnchecked(a) == IF a.body = "token" THEN "token" ELSE "empty"
DecodedRaw(a)       == a.body

\* The decoder leaves the text empty when the member is missing.
Decoded(a) ==
  CASE a.body = "token"             -> "token"
    [] a.body \in {"error", "other"} -> "empty"
    [] a.body = "garbled"           -> "error"

\* Variant with a fault: only a server error is one, and any body that decodes
\* is a token.
ResultBelow500(a) ==
  IF a.code >= 500 \/ a.body = "garbled" THEN "error" ELSE "token"

\* An error where the status is not 200 or the body does not decode.
Result(a) == IF a.code # 200 THEN "error" ELSE Decoded(a)

Return(c, res) == result' = [result EXCEPT ![c] = res]

Receive(c) ==
  /\ Waiting(c)
  /\ answer[c] # NoAnswer
  /\ Return(c, Result(answer[c]))
  /\ UNCHANGED <<service, answer, timer>>

\* No connection, or it breaks.
ConnectionFails(c) ==
  /\ Waiting(c)
  /\ Return(c, "error")
  /\ UNCHANGED <<service, answer, timer>>

\* Variant with a fault: a client without a timeout.
ExpiredNever(c) == FALSE

Expired(c) == timer[c] = 0

TimesOut(c) ==
  /\ Waiting(c)
  /\ Expired(c)
  /\ Return(c, "error")
  /\ UNCHANGED <<service, answer, timer>>

\* A timer that is due fires before the clock goes on.
Tick ==
  /\ \A c \in Calls : Waiting(c) => ~Expired(c)
  /\ life' = [t \in Tokens |-> IF life[t] > LifeFloor THEN life[t] - 1 ELSE life[t]]
  /\ timer' = [c \in Calls |-> IF timer[c] > 0 THEN timer[c] - 1 ELSE timer[c]]
  /\ UNCHANGED <<status, subject, issued, answer, result>>

Next ==
  \/ Tick \/ Drop
  \/ \E c \in Calls :
       \/ Call(c) \/ Arrive(c) \/ Grant(c) \/ Refuse(c) \/ Reject(c)
       \/ Intercept(c) \/ Garble(c)
       \/ Receive(c) \/ ConnectionFails(c) \/ TimesOut(c)

Spec == Init /\ [][Next]_vars

\* The clock runs and a timer that is due fires.  Neither the network nor the
\* service has to answer.
FairSpec == Spec /\ WF_vars(Tick) /\ \A c \in Calls : WF_vars(TimesOut(c))

-----------------------------------------------------------------------------
(* Properties.                                                             *)

\* A call that returns a token returns the one that its own request was
\* granted, however late the answers are, cut off or another's; and a call
\* returns the empty text without an error only when something else has
\* answered with a 200 and a body that decodes, never on an answer of the
\* service's, not even on one that is cut off (helpers.go:90-112).
SuccessIsGrant ==
  \A c \in Calls :
    /\ result[c] = "token" => status[c] = "granted"
    /\ result[c] = "empty" => answer[c] = [code |-> 200, body |-> "other"]

\* However a request, its grant and its answer were delayed, the token that a
\* caller receives rests on a subject token that has been dead for no longer
\* than the service's bound and the caller's own timeout (identity.go:62-68,
\* helpers.go:90-112).
ReceivedIsTimely ==
  [][\A c \in Calls :
       result[c] = "none" /\ result'[c] = "token" =>
         life[subject[c]] >= -(MaxStale + RequestTimeout)]_vars

\* Every call returns, although neither service nor network ever has to answer
\* (identity.go:66-68).
CallsReturn == \A c \in Calls : Waiting(c) ~> ~Waiting(c)
=============================================================================
