------------------------- MODULE SdkExchangeProofs --------------------------
(***************************************************************************)
(* Proofs about SdkExchange, for any calls, tokens and times.              *)
(***************************************************************************)
EXTENDS SdkExchange, TLAPS

\* A token is under way, or received, only where the service granted one; an
\* error that it describes comes with an error's code; and the empty text is
\* returned on another's answer.
AnswerIsTrue ==
  \A c \in Calls :
    /\ answer[c].body = "token" \/ result[c] = "token" => status[c] = "granted"
    /\ answer[c].body = "error" => answer[c].code # 200
    /\ result[c] = "empty" => answer[c] = [code |-> 200, body |-> "other"]

\* While a call waits for a token that is under way, its subject token has been
\* dead no longer than the service's bound and the time the call has taken.
GrantIsTimely ==
  \A c \in Calls :
    answer[c].body = "token" /\ Waiting(c) =>
      /\ subject[c] \in Tokens
      /\ life[subject[c]] >= timer[c] - RequestTimeout - MaxStale

\* The service decides nothing that no call has asked for.
Started == \A c \in Calls : status[c] \in {"open", "granted"} => timer[c] >= 0

IInv == TypeOK /\ AnswerIsTrue /\ GrantIsTimely /\ Started

LEMMA InitInv == Init => IInv
<1> SUFFICES ASSUME Init PROVE IInv
  OBVIOUS
<1>1. LifeFloor <= 0 /\ LifeFloor \in Int
  BY TimesAssumption DEF LifeFloor
<1>2. life \in [Tokens -> LifeFloor..MaxLife]
  BY <1>1, TimesAssumption DEF Init
<1>3. TypeOK
  BY <1>2, TimesAssumption DEF Init, TypeOK
<1> QED BY <1>3 DEF Init, IInv, AnswerIsTrue, GrantIsTimely, Started, NoAnswer, Waiting

\* What is sent to a call, if it is the first answer to it.
LEMMA Sent ==
  ASSUME TypeOK, NEW c \in Calls, NEW code \in {200, 400, 401, 502},
         NEW body \in {"token", "error", "other", "garbled"}, Send(c, code, body)
  PROVE  /\ answer' \in [Calls -> Answers \union {NoAnswer}]
         /\ \A d \in Calls \ {c} : answer'[d] = answer[d]
         /\ \/ answer'[c] = answer[c]
            \/ answer'[c].code = code /\ answer'[c].body = body
         /\ answer[c] = [code |-> 200, body |-> "other"] => answer'[c] = answer[c]
         /\ timer' = timer /\ result' = result
  BY DEF Send, TypeOK, Answers, NoAnswer

\* What a call makes of an answer.
LEMMA Read ==
  ASSUME IInv, NEW c \in Calls, answer[c] # NoAnswer
  PROVE  /\ Result(answer[c]) \in {"token", "error", "empty"}
         /\ Result(answer[c]) = "token" => answer[c].body = "token"
         /\ Result(answer[c]) = "empty" =>
              answer[c] = [code |-> 200, body |-> "other"]
<1>1. answer[c] \in Answers
  BY DEF IInv, TypeOK
<1>2. /\ answer[c].body \in {"token", "error", "other", "garbled"}
      /\ answer[c] = [code |-> answer[c].code, body |-> answer[c].body]
  BY <1>1 DEF Answers
<1>3. answer[c].body = "error" => answer[c].code # 200
  BY DEF IInv, AnswerIsTrue
<1> QED BY <1>2, <1>3 DEF Result, Decoded

\* Type correctness, action by action.
LEMMA TypeStep == IInv /\ [Next]_vars => TypeOK'
<1> SUFFICES ASSUME IInv, [Next]_vars PROVE TypeOK'
  OBVIOUS
<1>0. TypeOK
  BY DEF IInv
<1>1. CASE Tick
  <2>1. life' \in [Tokens -> LifeFloor..MaxLife]
    BY <1>0, <1>1, TimesAssumption DEF Tick, TypeOK, LifeFloor
  <2>2. timer' \in [Calls -> -1..RequestTimeout]
    BY <1>0, <1>1, TimesAssumption DEF Tick, TypeOK
  <2> QED BY <1>0, <1>1, <2>1, <2>2 DEF Tick, TypeOK
<1>2. CASE Drop
  BY <1>0, <1>2 DEF Drop, Service!Drop, client, TypeOK
<1>3. CASE \E c \in Calls : Call(c)
  BY <1>0, <1>3, TimesAssumption DEF Call, service, TypeOK
<1>4. CASE \E c \in Calls : Arrive(c)
  BY <1>0, <1>4 DEF Arrive, Service!Ask, Service!Decide, client, TypeOK
<1>5. CASE \E c \in Calls : Grant(c)
  <2>1. PICK c \in Calls : Grant(c) BY <1>5
  <2>2. Send(c, 200, "token") /\ Service!Grant(c)
    BY <2>1 DEF Grant
  <2>3. answer' \in [Calls -> Answers \union {NoAnswer}] /\ timer' = timer /\ result' = result
    BY <1>0, <2>2, Sent
  <2>4. issued' \in Nat
    BY <1>0, <2>2 DEF Service!Grant, TypeOK
  <2>5. status' \in [Calls -> {"idle", "open", "granted", "refused", "dropped"}]
    BY <1>0, <2>2 DEF Service!Grant, Service!Decide, TypeOK
  <2> QED BY <1>0, <2>2, <2>3, <2>4, <2>5 DEF Service!Grant, TypeOK
<1>6. CASE \E c \in Calls : Refuse(c)
  <2>1. PICK c \in Calls, code \in {400, 401} : Send(c, code, "error") /\ Service!Refuse(c)
    BY <1>6 DEF Refuse
  <2>2. answer' \in [Calls -> Answers \union {NoAnswer}] /\ timer' = timer /\ result' = result
    BY <1>0, <2>1, Sent
  <2> QED BY <1>0, <2>1, <2>2 DEF Service!Refuse, Service!Decide, TypeOK
<1>7. CASE \E c \in Calls : Reject(c) \/ Intercept(c)
  <2>1. PICK c \in Calls, code \in {200, 400, 502}, body \in {"error", "other", "garbled"} :
          Send(c, code, body) /\ UNCHANGED service
    BY <1>7 DEF Reject, Intercept
  <2>2. answer' \in [Calls -> Answers \union {NoAnswer}] /\ timer' = timer /\ result' = result
    BY <1>0, <2>1, Sent
  <2> QED BY <1>0, <2>1, <2>2 DEF service, TypeOK
<1>8. CASE \E c \in Calls : Garble(c)
  <2>1. PICK c \in Calls : Garble(c) BY <1>8
  <2>2. answer[c] \in Answers
    BY <1>0, <2>1 DEF Garble, TypeOK
  <2>3. [answer[c] EXCEPT !.body = "garbled"] \in Answers
    BY <2>2 DEF Answers
  <2> QED BY <1>0, <2>1, <2>3 DEF Garble, service, TypeOK
<1>9. CASE \E c \in Calls : Receive(c)
  <2>1. PICK c \in Calls : Receive(c) BY <1>9
  <2>2. Result(answer[c]) \in {"token", "error", "empty"}
    BY <2>1, Read DEF Receive
  <2> QED BY <1>0, <2>1, <2>2 DEF Receive, Return, service, TypeOK
<1>10. CASE \E c \in Calls : ConnectionFails(c) \/ TimesOut(c)
  BY <1>0, <1>10 DEF ConnectionFails, TimesOut, Return, service, TypeOK
<1>11. CASE UNCHANGED vars
  BY <1>0, <1>11 DEF vars, service, client, TypeOK
<1> QED BY <1>1, <1>2, <1>3, <1>4, <1>5, <1>6, <1>7, <1>8, <1>9, <1>10, <1>11 DEF Next
\* What has been granted stays granted, and a call's answer and result come from
\* its own grant.
LEMMA TruthStep == IInv /\ [Next]_vars => AnswerIsTrue'
<1> SUFFICES ASSUME IInv, [Next]_vars, NEW d \in Calls
             PROVE  /\ answer'[d].body = "token" \/ result'[d] = "token" => status'[d] = "granted"
                    /\ answer'[d].body = "error" => answer'[d].code # 200
                    /\ result'[d] = "empty" =>
                         answer'[d] = [code |-> 200, body |-> "other"]
  BY DEF AnswerIsTrue
<1>0. /\ TypeOK
      /\ answer[d].body = "token" \/ result[d] = "token" => status[d] = "granted"
      /\ answer[d].body = "error" => answer[d].code # 200
      /\ result[d] = "empty" => answer[d] = [code |-> 200, body |-> "other"]
  BY DEF IInv, AnswerIsTrue
<1>1. CASE Tick
  BY <1>0, <1>1 DEF Tick
<1>2. CASE Drop
  BY <1>0, <1>2 DEF Drop, Service!Drop, client, TypeOK
<1>3. CASE \E c \in Calls : Call(c)
  BY <1>0, <1>3 DEF Call, service
<1>4. CASE \E c \in Calls : Arrive(c)
  BY <1>0, <1>4 DEF Arrive, Service!Ask, Service!Decide, client, TypeOK
<1>5. CASE \E c \in Calls : Grant(c)
  <2>1. PICK c \in Calls : Send(c, 200, "token") /\ Service!Grant(c)
    BY <1>5 DEF Grant
  <2>2. status' = [status EXCEPT ![c] = "granted"]
    BY <2>1 DEF Service!Grant, Service!Decide
  <2>3. CASE d = c
    BY <1>0, <2>1, <2>2, <2>3, Sent DEF TypeOK
  <2>4. CASE d # c
    BY <1>0, <2>1, <2>2, <2>4, Sent DEF TypeOK
  <2> QED BY <2>3, <2>4
<1>6. CASE \E c \in Calls : Refuse(c)
  <2>1. PICK c \in Calls, code \in {400, 401} : Send(c, code, "error") /\ Service!Refuse(c)
    BY <1>6 DEF Refuse
  <2>2. status' = [status EXCEPT ![c] = "refused"] /\ status[c] = "open"
    BY <2>1 DEF Service!Refuse, Service!Decide
  <2>3. CASE d = c
    BY <1>0, <2>1, <2>2, <2>3, Sent DEF TypeOK
  <2>4. CASE d # c
    BY <1>0, <2>1, <2>2, <2>4, Sent DEF TypeOK
  <2> QED BY <2>3, <2>4
<1>7. CASE \E c \in Calls : Reject(c) \/ Intercept(c)
  <2>1. PICK c \in Calls, code \in {200, 400, 502}, body \in {"error", "other", "garbled"} :
          /\ Send(c, code, body) /\ UNCHANGED service
          /\ body = "error" => code # 200
    BY <1>7 DEF Reject, Intercept
  <2>2. status' = status
    BY <2>1 DEF service
  <2>3. CASE d = c
    BY <1>0, <2>1, <2>2, <2>3, Sent
  <2>4. CASE d # c
    BY <1>0, <2>1, <2>2, <2>4, Sent
  <2> QED BY <2>3, <2>4
<1>8. CASE \E c \in Calls : Garble(c)
  <2>1. PICK c \in Calls : Garble(c) /\ result[c] = "none" BY <1>8 DEF Garble, Waiting
  <2>2. answer[c] \in Answers
    BY <1>0, <2>1 DEF Garble, TypeOK
  <2>3. [answer[c] EXCEPT !.body = "garbled"].body = "garbled"
    BY <2>2 DEF Answers
  <2>4. CASE d = c
    BY <1>0, <2>1, <2>3, <2>4 DEF Garble, service, TypeOK
  <2>5. CASE d # c
    BY <1>0, <2>1, <2>5 DEF Garble, service, TypeOK
  <2> QED BY <2>4, <2>5
<1>9. CASE \E c \in Calls : Receive(c)
  <2>1. PICK c \in Calls : Receive(c) BY <1>9
  <2>2. /\ Result(answer[c]) = "token" => answer[c].body = "token"
        /\ Result(answer[c]) = "empty" =>
             answer[c] = [code |-> 200, body |-> "other"]
    BY <2>1, Read DEF Receive
  <2> QED BY <1>0, <2>1, <2>2 DEF Receive, Return, service, TypeOK
<1>10. CASE \E c \in Calls : ConnectionFails(c) \/ TimesOut(c)
  BY <1>0, <1>10 DEF ConnectionFails, TimesOut, Return, service, TypeOK
<1>11. CASE UNCHANGED vars
  BY <1>0, <1>11 DEF vars, service, client
<1> QED BY <1>1, <1>2, <1>3, <1>4, <1>5, <1>6, <1>7, <1>8, <1>9, <1>10, <1>11 DEF Next

\* The clock takes as much of a waiting call's timer as of its token's life.
LEMMA TimelyStep == IInv /\ [Next]_vars => GrantIsTimely'
<1> SUFFICES ASSUME IInv, [Next]_vars, NEW d \in Calls,
                    answer'[d].body = "token", Waiting(d)'
             PROVE  /\ subject'[d] \in Tokens
                    /\ life'[subject'[d]] >= timer'[d] - RequestTimeout - MaxStale
  BY DEF GrantIsTimely
<1>0. /\ TypeOK
      /\ answer[d].body = "token" /\ Waiting(d) =>
           /\ subject[d] \in Tokens
           /\ life[subject[d]] >= timer[d] - RequestTimeout - MaxStale
      /\ answer[d].body = "token" => status[d] = "granted"
  BY DEF IInv, AnswerIsTrue, GrantIsTimely
<1>1. CASE Tick
  <2>1. answer' = answer /\ subject' = subject /\ result' = result
    BY <1>1 DEF Tick
  <2>2. timer[d] \in -1..RequestTimeout /\ RequestTimeout \in Nat /\ MaxStale \in Nat
    BY <1>0, TimesAssumption DEF TypeOK
  <2>3. timer'[d] = IF timer[d] > 0 THEN timer[d] - 1 ELSE timer[d]
    BY <1>1 DEF Tick
  <2>4. Waiting(d)
    BY <2>1, <2>2, <2>3 DEF Waiting
  <2>5. timer'[d] = timer[d] - 1
    BY <1>1, <2>2, <2>3, <2>4 DEF Tick, Expired, Waiting
  <2>6. subject[d] \in Tokens /\ life[subject[d]] \in LifeFloor..MaxLife
    BY <1>0, <2>1, <2>4 DEF TypeOK
  <2>7. life'[subject[d]] >= life[subject[d]] - 1
    BY <1>1, <2>6, TimesAssumption DEF Tick, LifeFloor
  <2>8. life'[subject[d]] \in Int
    BY <1>1, <2>6, TimesAssumption DEF Tick, LifeFloor
  <2> QED BY <1>0, <2>1, <2>2, <2>4, <2>5, <2>6, <2>7, <2>8, TimesAssumption DEF LifeFloor
<1>2. CASE Drop
  BY <1>0, <1>2 DEF Drop, Service!Drop, client, Waiting
<1>3. CASE \E c \in Calls : Call(c)
  <2>1. PICK c \in Calls : Call(c) BY <1>3
  <2>2. answer' = answer /\ subject' = subject /\ life' = life /\ result' = result
    BY <2>1 DEF Call, service
  <2>3. CASE d = c
    <3>1. timer[d] = -1 /\ status[d] = "granted"
      BY <1>0, <2>1, <2>2, <2>3 DEF Call
    <3> QED BY <3>1 DEF IInv, Started
  <2>4. CASE d # c
    BY <1>0, <2>1, <2>2, <2>4 DEF Call, TypeOK, Waiting
  <2> QED BY <2>3, <2>4
<1>4. CASE \E c \in Calls : Arrive(c)
  <2>1. PICK c \in Calls : Arrive(c) BY <1>4
  <2>2. d # c
    BY <1>0, <2>1 DEF Arrive, Service!Ask, client
  <2> QED BY <1>0, <2>1, <2>2 DEF Arrive, Service!Ask, client, TypeOK, Waiting
<1>5. CASE \E c \in Calls : Grant(c)
  <2>1. PICK c \in Calls : Send(c, 200, "token") /\ Service!Grant(c)
    BY <1>5 DEF Grant
  <2>2. timer' = timer /\ result' = result /\ \A e \in Calls \ {c} : answer'[e] = answer[e]
    BY <1>0, <2>1, Sent
  <2>3. subject' = subject /\ life' = life
    BY <2>1 DEF Service!Grant
  <2>4. CASE d = c
    <3>1. subject[d] \in Tokens /\ life[subject[d]] >= -MaxStale
      BY <2>1, <2>4 DEF Service!Grant
    <3>2. timer[d] \in -1..RequestTimeout /\ life[subject[d]] \in LifeFloor..MaxLife
      BY <1>0, <3>1 DEF TypeOK
    <3> QED BY <2>2, <2>3, <3>1, <3>2, TimesAssumption DEF LifeFloor
  <2>5. CASE d # c
    BY <1>0, <2>2, <2>3, <2>5 DEF Waiting
  <2> QED BY <2>4, <2>5
<1>6. CASE \E c \in Calls : Refuse(c)
  <2>1. PICK c \in Calls, code \in {400, 401} : Send(c, code, "error") /\ Service!Refuse(c)
    BY <1>6 DEF Refuse
  <2>2. timer' = timer /\ result' = result /\ answer'[d] = answer[d]
    BY <1>0, <2>1, Sent
  <2> QED BY <1>0, <2>1, <2>2 DEF Service!Refuse, Waiting
<1>7. CASE \E c \in Calls : Reject(c) \/ Intercept(c)
  <2>1. PICK c \in Calls, code \in {200, 400, 502}, body \in {"error", "other", "garbled"} :
          Send(c, code, body) /\ UNCHANGED service
    BY <1>7 DEF Reject, Intercept
  <2>2. timer' = timer /\ result' = result /\ answer'[d] = answer[d]
    BY <1>0, <2>1, Sent
  <2> QED BY <1>0, <2>1, <2>2 DEF service, Waiting
<1>8. CASE \E c \in Calls : Garble(c)
  <2>1. PICK c \in Calls : Garble(c) BY <1>8
  <2>2. answer[c] \in Answers
    BY <1>0, <2>1 DEF Garble, TypeOK
  <2>3. [answer[c] EXCEPT !.body = "garbled"].body = "garbled"
    BY <2>2 DEF Answers
  <2>4. d # c
    BY <1>0, <2>1, <2>3 DEF Garble, TypeOK
  <2> QED BY <1>0, <2>1, <2>4 DEF Garble, service, TypeOK, Waiting
<1>9. CASE \E c \in Calls : Receive(c) \/ ConnectionFails(c) \/ TimesOut(c)
  <2>1. PICK c \in Calls, res \in {"token", "error", "empty"} :
          Return(c, res) /\ UNCHANGED <<service, answer, timer>>
    BY <1>9, Read DEF Receive, ConnectionFails, TimesOut
  <2>2. Waiting(d)
    BY <1>0, <2>1 DEF Return, Waiting, TypeOK
  <2> QED BY <1>0, <2>1, <2>2 DEF service
<1>10. CASE UNCHANGED vars
  BY <1>0, <1>10 DEF vars, service, client, Waiting
<1> QED BY <1>1, <1>2, <1>3, <1>4, <1>5, <1>6, <1>7, <1>8, <1>9, <1>10 DEF Next

LEMMA StartedStep == IInv /\ [Next]_vars => Started'
<1> SUFFICES ASSUME IInv, [Next]_vars, NEW d \in Calls, status'[d] \in {"open", "granted"}
             PROVE  timer'[d] >= 0
  BY DEF Started
<1>0. TypeOK /\ (status[d] \in {"open", "granted"} => timer[d] >= 0)
  BY DEF IInv, Started
<1>1. timer[d] \in -1..RequestTimeout /\ RequestTimeout \in Nat
  BY <1>0, TimesAssumption DEF TypeOK
<1>2. timer[d] >= 0
  BY <1>0
  DEF Next, Tick, Drop, Service!Drop, Call, Arrive, Service!Ask, Service!Decide, Grant,
      Service!Grant, Refuse, Service!Refuse, Reject, Intercept, Garble, Receive,
      ConnectionFails, TimesOut, service, client, vars, TypeOK
<1>3. timer[d] >= 0 => timer'[d] >= 0
  BY <1>0, <1>1
  DEF Next, Tick, Drop, Call, Arrive, Grant, Refuse, Reject, Intercept, Garble, Send, Receive,
      ConnectionFails, TimesOut, client, vars, TypeOK
<1> QED BY <1>2, <1>3

LEMMA Inductive == Spec => []IInv
<1>1. IInv /\ [Next]_vars => IInv'
  BY TypeStep, TruthStep, TimelyStep, StartedStep DEF IInv
<1> QED BY <1>1, InitInv, PTL DEF Spec

\* Every reachable state has the types that TypeOK states.
THEOREM TypeCorrect == Spec => []TypeOK
<1>1. IInv => TypeOK
  BY DEF IInv
<1> QED BY <1>1, Inductive, PTL

\* A token is only ever received from the call's own grant, and the empty text
\* from another's answer.
THEOREM Success == Spec => []SuccessIsGrant
<1>1. IInv => SuccessIsGrant
  BY DEF IInv, TypeOK, AnswerIsTrue, SuccessIsGrant
<1> QED BY <1>1, Inductive, PTL

\* Staleness adds up: the service's bound and the caller's timeout.
THEOREM Timely == Spec => ReceivedIsTimely
<1> DEFINE Received(c) ==
      result[c] = "none" /\ result'[c] = "token" =>
        life[subject[c]] >= -(MaxStale + RequestTimeout)
<1>1. IInv /\ [Next]_vars => [\A c \in Calls : Received(c)]_vars
  <2> SUFFICES ASSUME IInv, Next, NEW c \in Calls, result[c] = "none", result'[c] = "token"
               PROVE  life[subject[c]] >= -(MaxStale + RequestTimeout)
    BY DEF vars
  <2>1. Receive(c)
    <3>1. \A e \in Calls, code \in {200, 400, 401, 502},
              body \in {"token", "error", "other", "garbled"} : Send(e, code, body) => result' = result
      BY DEF Send
    <3> QED
      BY <3>1 DEF Next, Tick, Drop, Call, Arrive, Grant, Refuse, Reject, Intercept, Garble,
                  Receive, ConnectionFails, TimesOut, Return, client, IInv, TypeOK
  <2>2. answer[c].body = "token" /\ Waiting(c)
    BY <2>1, Read DEF Receive, Return, IInv, TypeOK
  <2>3. /\ subject[c] \in Tokens /\ life[subject[c]] \in Int
        /\ life[subject[c]] >= timer[c] - RequestTimeout - MaxStale
    BY <2>2, TimesAssumption DEF IInv, TypeOK, GrantIsTimely, LifeFloor
  <2>4. timer[c] \in Int /\ timer[c] >= 0 /\ RequestTimeout \in Nat /\ MaxStale \in Nat
    BY <2>2, TimesAssumption DEF Waiting, IInv, TypeOK
  <2> QED BY <2>3, <2>4
<1> QED BY <1>1, Inductive, PTL DEF Spec, ReceivedIsTimely

-----------------------------------------------------------------------------
(* The composition.                                                        *)

\* A step of calls and network is one that the service may take, or none of
\* the service's.
LEMMA ServiceStep == TypeOK /\ TypeOK' /\ [Next]_vars => [Service!Next]_service
<1> SUFFICES ASSUME TypeOK, TypeOK', [Next]_vars PROVE [Service!Next]_service
  OBVIOUS
<1>1. CASE Tick
  <2>1. life' \in [Tokens -> Int] /\ \A t \in Tokens : life'[t] <= life[t]
    BY <1>1, TimesAssumption DEF Tick, TypeOK, LifeFloor
  <2>2. Service!Age
    BY <1>1, <2>1 DEF Tick, Service!Age
  <2> QED BY <2>2 DEF Service!Next
<1>2. CASE Drop
  BY <1>2 DEF Drop, Service!Next
<1>3. ASSUME NEW c \in Calls, Arrive(c) \/ Grant(c) \/ Refuse(c)
      PROVE  [Service!Next]_service
  BY <1>3 DEF Arrive, Grant, Refuse, Service!Next
<1>4. ASSUME NEW c \in Calls,
             \/ Call(c) \/ Reject(c) \/ Intercept(c) \/ Garble(c)
             \/ Receive(c) \/ ConnectionFails(c) \/ TimesOut(c)
      PROVE  [Service!Next]_service
  BY <1>4 DEF Call, Reject, Intercept, Garble, Receive, ConnectionFails, TimesOut
<1>5. CASE UNCHANGED vars
  BY <1>5 DEF vars
<1> QED BY <1>1, <1>2, <1>3, <1>4, <1>5 DEF Next

\* Every behaviour of the calls is one of the service's: with
\* TokenExchangeRefines, what is shown here of a service that keeps its
\* promise is shown of the token exchange.
THEOREM Composed == Spec => Service!Spec
<1>1. Init => Service!Init
  BY TimesAssumption DEF Init, Service!Init
<1> QED BY <1>1, ServiceStep, TypeCorrect, PTL DEF Spec, Service!Spec, Service!vars, service
=============================================================================
