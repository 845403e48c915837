------------------------ MODULE TokenExchangeProofs ------------------------
(***************************************************************************)
(* Proofs about TokenExchange, for any requests, tokens and timeouts that  *)
(* meet its assumptions.                                                   *)
(***************************************************************************)
EXTENDS TokenExchange, FiniteSetTheorems, TLAPS

\* A request has been given no answer by the store before it has asked, and
\* no promptness before its body is in.
NotYetAsked ==
  \A r \in Requests :
    stage[r] \in {"absent", "connected", "body"} =>
      reply[r] = "none" /\ ~prompt[r]

\* How much of the write deadline is left, given what is left of the timer
\* that the handler is waiting on.
WriteBudget ==
  \A r \in Requests :
    /\ stage[r] = "body" => writeLeft[r] >= WriteTimeout - ReadTimeout + readLeft[r]
    /\ stage[r] = "lookup" =>
         writeLeft[r] >= WriteTimeout - ReadTimeout - LookupTimeout + lookupLeft[r]
    /\ stage[r] \in {"respond", "counted"} =>
         writeLeft[r] >= WriteTimeout - ReadTimeout - LookupTimeout
    /\ (stage[r] = "lookup" \/ Answering(r)) /\ prompt[r] =>
         writeLeft[r] > lookupLeft[r]

\* The store's word is no older than the time the lookup has taken.
ReplyIsRecent ==
  \A r \in Requests :
    stage[r] \in {"lookup", "respond"} /\ reply[r] = "valid" =>
      life[body[r].token] >= lookupLeft[r] - LookupTimeout

\* A success of the opaque adapter rests on the store's word, and whoever
\* has its word or waits for it has named a token.
OpaqueAsksStore ==
  \A r \in Requests :
    /\ stage[r] = "lookup" => body[r].token \in Tokens
    /\ stage[r] = "respond" /\ code[r] = 200 /\ adapter[r] = "opaque" =>
         reply[r] = "valid"
    /\ stage[r] = "respond" /\ reply[r] = "valid" => body[r].token \in Tokens

\* The requests in flight at the signal are answered before the shutdown's
\* time is over.
KeptInTime ==
  \A r \in kept :
    /\ stage[r] \in {"lookup", "done"} \/ Answering(r)
    /\ server # "serving"
    /\ stage[r] = "lookup" \/ Answering(r) =>
         server = "draining" /\ lookupLeft[r] < drainLeft

IInv ==
  /\ TypeOK
  /\ NotYetAsked
  /\ WriteBudget
  /\ ReplyIsRecent
  /\ OpaqueAsksStore
  /\ KeptInTime
  /\ PromptIsAnswered

\* Each request has timers of these types, and its token, if it names one,
\* a life.
LEMMA RequestTypes ==
  ASSUME TypeOK, NEW r \in Requests
  PROVE  /\ stage[r] \in Stages
         /\ body[r] \in BodyType
         /\ body[r].token \in Tokens \union {NoToken}
         /\ body[r].token \in Tokens => life[body[r].token] \in Int
         /\ readLeft[r] \in 0..ReadTimeout
         /\ writeLeft[r] \in Int
         /\ lookupLeft[r] \in 0..LookupTimeout
<1>1. body[r] \in BodyType
  BY DEF TypeOK
<1>2. body[r].token \in Tokens \union {NoToken}
  BY <1>1 DEF BodyType
<1> QED BY <1>1, <1>2 DEF TypeOK

LEMMA InitEstablishes == Init => IInv
<1> SUFFICES ASSUME Init PROVE IInv
  OBVIOUS
<1> USE TimeoutsAssumption, LifeAssumption
<1>1. TypeOK
  <2>1. EmptyBody \in BodyType
    BY DEF EmptyBody, BodyType
  <2>2. life \in [Tokens -> Int]
    <3>1. InitialLife \subseteq Int /\ life \in [Tokens -> InitialLife]
      BY DEF Init
    <3> QED BY <3>1
  <2> QED BY <2>1, <2>2 DEF Init, TypeOK, Stages, Labels
<1>2. NotYetAsked /\ WriteBudget /\ ReplyIsRecent /\ OpaqueAsksStore
  BY DEF Init, NotYetAsked, WriteBudget, ReplyIsRecent, OpaqueAsksStore, Answering
<1>3. KeptInTime /\ PromptIsAnswered
  BY DEF Init, KeptInTime, PromptIsAnswered
<1> QED BY <1>1, <1>2, <1>3 DEF IInv

-----------------------------------------------------------------------------
(* Steps preserve the invariant.                                           *)

LEMMA TypeStep == IInv /\ [Next]_vars => TypeOK'
<1> SUFFICES ASSUME IInv, [Next]_vars PROVE TypeOK'
  OBVIOUS
<1> USE TimeoutsAssumption, BodiesAssumption DEF IInv
<1>1. CASE Tick
  <2>1. /\ drainLeft' \in 0..ShutdownTimeout
        /\ readLeft' \in [Requests -> 0..ReadTimeout]
        /\ lookupLeft' \in [Requests -> 0..LookupTimeout]
    BY <1>1 DEF Tick, TypeOK, Less
  <2>2. writeLeft' \in [Requests -> Int] /\ life' \in [Tokens -> Int]
    BY <1>1 DEF Tick, TypeOK
  <2> QED BY <1>1, <2>1, <2>2 DEF Tick, TypeOK, metrics, history
<1>2. CASE Signal
  BY <1>2 DEF Signal, TypeOK, metrics
<1>3. CASE Exit
  BY <1>3 DEF Exit, TypeOK, timers, metrics, history, Stages
<1>4. ASSUME NEW r \in Requests, Connect(r) PROVE TypeOK'
  BY <1>4 DEF Connect, Goto, TypeOK, metrics, history, Stages
<1>5. ASSUME NEW r \in Requests, Header(r) PROVE TypeOK'
  BY <1>5 DEF Header, Answer, Goto, TypeOK, history, Stages
<1>6. ASSUME NEW r \in Requests, CloseUnused(r) PROVE TypeOK'
  BY <1>6 DEF CloseUnused, Goto, TypeOK, timers, metrics, history, Stages
<1>7. ASSUME NEW r \in Requests, BodyLost(r) \/ Reject(r) \/ LookupFails(r)
      PROVE  TypeOK'
  BY <1>7 DEF BodyLost, Reject, LookupFails, Answer, Goto, TypeOK, metrics,
              history, Stages
<1>8. ASSUME NEW r \in Requests, ExchangeLocally(r) PROVE TypeOK'
  <2>1. PICK a \in Candidates(body[r].hint, body[r].token) \ {"opaque"} :
          /\ SetAdapter(r, a)
          /\ \E c \in {200, 401} : Answer(r, c)
          /\ issued' = issued \/ issued' = issued + 1
    BY <1>8 DEF ExchangeLocally
  <2>2. a \in Labels
    BY DEF Candidates, Labels
  <2> QED BY <1>8, <2>1, <2>2
          DEF ExchangeLocally, SetAdapter, Answer, Goto, TypeOK, history,
              Stages
<1>9. ASSUME NEW r \in Requests, StartLookup(r) PROVE TypeOK'
  BY <1>9 DEF StartLookup, SetAdapter, Goto, TypeOK, metrics, Stages, Labels,
              Registered
<1>10. ASSUME NEW r \in Requests, StoreReplies(r) PROVE TypeOK'
  BY <1>10 DEF StoreReplies, TypeOK, timers, metrics, history
<1>11. ASSUME NEW r \in Requests, Grant(r) PROVE TypeOK'
  BY <1>11 DEF Grant, Answer, Goto, TypeOK, history, Stages
<1>12. ASSUME NEW r \in Requests, Count(r) PROVE TypeOK'
  <2>1. total' \in [Labels \X {"success", "error"} -> Nat]
    <3> DEFINE l == <<adapter[r], Status(code[r])>>
    <3>1. l \in Labels \X {"success", "error"}
      BY DEF TypeOK, Status
    <3>2. total' = [total EXCEPT ![l] = @ + 1]
      BY <1>12 DEF Count
    <3> HIDE DEF l
    <3> QED BY <3>1, <3>2 DEF TypeOK
  <2> QED BY <1>12, <2>1 DEF Count, Goto, TypeOK, timers, history, Stages
<1>15. ASSUME NEW r \in Requests, Leave(r) PROVE TypeOK'
  BY <1>15 DEF Leave, Goto, TypeOK, timers, history, Stages
<1>16. ASSUME NEW r \in Requests, Flush(r) PROVE TypeOK'
  BY <1>16 DEF Flush, Goto, TypeOK, metrics, Stages
<1>13. ASSUME NEW r \in Requests, Disconnect(r) PROVE TypeOK'
  BY <1>13 DEF Disconnect, TypeOK, timers, metrics, history
<1>14. CASE UNCHANGED vars
  BY <1>14 DEF vars, timers, metrics, history, TypeOK
<1> QED BY <1>1, <1>2, <1>3, <1>4, <1>5, <1>6, <1>7, <1>8, <1>9, <1>10, <1>11,
           <1>12, <1>13, <1>14, <1>15, <1>16 DEF Next

\* What a step of request r does to the others: nothing.
LEMMA OnlyOneMoves ==
  ASSUME TypeOK, NEW r \in Requests,
         \/ Connect(r) \/ Header(r) \/ CloseUnused(r) \/ BodyLost(r)
         \/ Reject(r) \/ ExchangeLocally(r) \/ StartLookup(r)
         \/ StoreReplies(r) \/ Grant(r) \/ LookupFails(r)
         \/ Count(r) \/ Leave(r) \/ Flush(r) \/ Disconnect(r)
  PROVE  /\ \A q \in Requests \ {r} :
              /\ stage'[q] = stage[q] /\ body'[q] = body[q]
              /\ adapter'[q] = adapter[q] /\ readLeft'[q] = readLeft[q]
              /\ writeLeft'[q] = writeLeft[q] /\ lookupLeft'[q] = lookupLeft[q]
              /\ reply'[q] = reply[q] /\ gone'[q] = gone[q]
              /\ code'[q] = code[q] /\ delivered'[q] = delivered[q]
              /\ prompt'[q] = prompt[q]
         /\ UNCHANGED <<server, drainLeft, life, kept>>
<1>1. CASE Connect(r) \/ Header(r) \/ CloseUnused(r)
  BY <1>1 DEF Connect, Header, CloseUnused, Answer, Goto, TypeOK, timers,
              metrics, history
<1>2. CASE BodyLost(r) \/ Reject(r) \/ ExchangeLocally(r) \/ StartLookup(r)
  BY <1>2 DEF BodyLost, Reject, ExchangeLocally, StartLookup, SetAdapter,
              Answer, Goto, TypeOK, metrics, history
<1>3. CASE StoreReplies(r) \/ Grant(r) \/ LookupFails(r)
  BY <1>3 DEF StoreReplies, Grant, LookupFails, Answer, Goto, TypeOK, timers,
              metrics, history
<1>4. CASE Count(r) \/ Leave(r) \/ Disconnect(r)
  BY <1>4 DEF Count, Leave, Disconnect, Goto, TypeOK, timers, metrics, history
<1>5. CASE Flush(r)
  BY <1>5 DEF Flush, Goto, TypeOK, metrics
<1> QED BY <1>1, <1>2, <1>3, <1>4, <1>5

\* What the invariant says of one request.
RequestInv(r) ==
  /\ stage[r] \in {"absent", "connected", "body"} =>
       reply[r] = "none" /\ ~prompt[r]
  /\ stage[r] = "body" => writeLeft[r] >= WriteTimeout - ReadTimeout + readLeft[r]
  /\ stage[r] = "lookup" =>
       /\ writeLeft[r] >= WriteTimeout - ReadTimeout - LookupTimeout + lookupLeft[r]
       /\ body[r].token \in Tokens
  /\ stage[r] \in {"respond", "counted"} =>
       writeLeft[r] >= WriteTimeout - ReadTimeout - LookupTimeout
  /\ stage[r] = "respond" =>
       /\ code[r] = 200 /\ adapter[r] = "opaque" => reply[r] = "valid"
       /\ reply[r] = "valid" => body[r].token \in Tokens
  /\ prompt[r] /\ (stage[r] = "lookup" \/ Answering(r)) =>
       writeLeft[r] > lookupLeft[r]
  /\ stage[r] \in {"lookup", "respond"} /\ reply[r] = "valid" =>
       life[body[r].token] >= lookupLeft[r] - LookupTimeout
  /\ stage[r] = "done" /\ prompt[r] /\ ~gone[r] => delivered[r]
  /\ r \in kept =>
       /\ stage[r] \in {"lookup", "done"} \/ Answering(r)
       /\ server # "serving"
       /\ stage[r] = "lookup" \/ Answering(r) =>
            server = "draining" /\ lookupLeft[r] < drainLeft

LEMMA PerRequest == TypeOK => (IInv <=> \A r \in Requests : RequestInv(r))
BY DEF IInv, RequestInv, NotYetAsked, WriteBudget, ReplyIsRecent,
       OpaqueAsksStore, KeptInTime, PromptIsAnswered, TypeOK

\* A step of request r keeps what the invariant says of r.
LEMMA RequestStep ==
  ASSUME TypeOK, TypeOK', NEW r \in Requests, RequestInv(r),
         \/ Connect(r) \/ Header(r) \/ CloseUnused(r) \/ BodyLost(r)
         \/ Reject(r) \/ ExchangeLocally(r) \/ StartLookup(r)
         \/ StoreReplies(r) \/ Grant(r) \/ LookupFails(r)
         \/ Count(r) \/ Leave(r) \/ Flush(r) \/ Disconnect(r)
  PROVE  RequestInv(r)'
<1> USE TimeoutsAssumption, TokensAssumption, BodiesAssumption DEF Answering
<1>0. UNCHANGED <<server, drainLeft, life, kept>> /\ drainLeft \in Nat
  BY OnlyOneMoves DEF TypeOK
<1>1. CASE Connect(r)
  BY <1>1, <1>0 DEF Connect, Goto, RequestInv, TypeOK, history
<1>2. CASE Header(r)
  BY <1>2, <1>0 DEF Header, Answer, Goto, RequestInv, TypeOK, history
<1>3. CASE CloseUnused(r)
  BY <1>3, <1>0 DEF CloseUnused, Goto, RequestInv, TypeOK, history
<1>4. CASE BodyLost(r) \/ Reject(r)
  BY <1>4, <1>0 DEF BodyLost, Reject, Answer, Goto, RequestInv, TypeOK, history
<1>5. CASE ExchangeLocally(r)
  <2>1. PICK a \in Candidates(body[r].hint, body[r].token) \ {"opaque"} :
          SetAdapter(r, a) /\ \E c \in {200, 401} : Answer(r, c)
    BY <1>5 DEF ExchangeLocally
  <2>2. /\ adapter'[r] # "opaque" /\ stage[r] = "body" /\ stage'[r] = "respond"
        /\ lookupLeft'[r] = 0
        /\ UNCHANGED <<readLeft, writeLeft, reply, gone, body, history>>
    BY <1>5, <2>1 DEF ExchangeLocally, SetAdapter, Answer, Goto, TypeOK
  <2> QED BY <2>2, <1>0 DEF RequestInv, TypeOK, history
<1>6. CASE StartLookup(r)
  <2>1. body[r].token \in Tokens
    <3>1. body[r].token \in Tokens \union {NoToken}
      BY RequestTypes
    <3> QED BY <1>6, <3>1 DEF StartLookup, InvalidRequest
  <2> QED BY <1>6, <1>0, <2>1
          DEF StartLookup, SetAdapter, Goto, RequestInv, TypeOK
<1>7. CASE StoreReplies(r)
  <2>1. life[body[r].token] \in Int
    BY <1>7, RequestTypes DEF StoreReplies, RequestInv
  <2>2. /\ stage[r] = "lookup" /\ (reply'[r] = "valid" => life[body[r].token] >= 0)
        /\ UNCHANGED <<stage, body, adapter, timers, gone, code, history>>
    BY <1>7 DEF StoreReplies, TypeOK
  <2> QED BY <1>0, <2>1, <2>2, RequestTypes DEF RequestInv, timers, history
<1>8. CASE Grant(r)
  <2>1. life[body[r].token] \in Int
    BY <1>8, RequestTypes DEF Grant, RequestInv
  <2>2. /\ stage[r] = "lookup" /\ stage'[r] = "respond" /\ lookupLeft'[r] = 0
        /\ reply[r] = "valid"
        /\ UNCHANGED <<body, adapter, writeLeft, reply, gone, history>>
    BY <1>8 DEF Grant, Answer, Goto, TypeOK
  <2> QED BY <1>0, <2>1, <2>2, RequestTypes DEF RequestInv, history
<1>9. CASE LookupFails(r)
  <2>1. life[body[r].token] \in Int
    BY <1>9, RequestTypes DEF LookupFails, RequestInv
  <2>2. /\ stage[r] = "lookup" /\ stage'[r] = "respond" /\ lookupLeft'[r] = 0
        /\ code'[r] = 401
        /\ UNCHANGED <<body, adapter, writeLeft, reply, gone, history>>
    BY <1>9 DEF LookupFails, Answer, Goto, TypeOK
  <2>3. ~(reply[r] = "valid") \/ life[body[r].token] >= lookupLeft[r] - LookupTimeout
    BY <2>2 DEF RequestInv
  <2> QED BY <1>0, <2>1, <2>2, <2>3, RequestTypes DEF RequestInv, history
<1>10. CASE Count(r) \/ Leave(r)
  BY <1>10, <1>0 DEF Count, Leave, Goto, RequestInv, TypeOK, timers, history
<1>11. CASE Disconnect(r)
  BY <1>11, <1>0 DEF Disconnect, RequestInv, TypeOK, timers, history
<1>12. CASE Flush(r)
  BY <1>12, <1>0 DEF Flush, Goto, RequestInv, TypeOK
<1> QED BY <1>1, <1>2, <1>3, <1>4, <1>5, <1>6, <1>7, <1>8, <1>9, <1>10, <1>11,
           <1>12

\* The passing of time keeps what the invariant says of every request: no
\* timer is due, so that those it depends on all have a unit left to lose.
LEMMA TickStep ==
  ASSUME TypeOK, TypeOK', NEW r \in Requests, RequestInv(r), Tick
  PROVE  RequestInv(r)'
<1> USE TimeoutsAssumption DEF Answering
<1>1. /\ ~Answering(r)
      /\ stage[r] = "body" => readLeft[r] > 0 /\ readLeft'[r] = readLeft[r] - 1
      /\ stage[r] = "lookup" =>
           lookupLeft[r] > 0 /\ lookupLeft'[r] = lookupLeft[r] - 1
      /\ server = "draining" => drainLeft > 0 /\ drainLeft' = drainLeft - 1
  BY DEF Tick, Due, ReadExpired, LookupExpired, Less, TypeOK
<1>2. /\ writeLeft'[r] \in {writeLeft[r], writeLeft[r] - 1}
      /\ writeLeft'[r] # writeLeft[r] => writeLeft[r] > WriteFloor
      /\ InHandler(r) /\ writeLeft[r] > WriteFloor => writeLeft'[r] = writeLeft[r] - 1
  BY DEF Tick, TypeOK
<1>3. UNCHANGED <<server, stage, body, adapter, reply, gone, code, delivered,
                  prompt, kept>>
  BY DEF Tick, history
<1>4. ASSUME stage[r] = "lookup"
      PROVE  /\ life[body[r].token] \in Int
             /\ life[body[r].token] > LifeFloor =>
                  life'[body[r].token] = life[body[r].token] - 1
  BY <1>4, RequestTypes DEF Tick, RequestInv, TypeOK
<1>5. CASE stage[r] = "lookup"
  <2>1. writeLeft'[r] = writeLeft[r] - 1
    BY <1>1, <1>2, <1>5, RequestTypes DEF RequestInv, WriteFloor, InHandler
  <2>2. reply[r] = "valid" =>
          life'[body[r].token] >= lookupLeft'[r] - LookupTimeout
    BY <1>1, <1>4, <1>5, RequestTypes DEF RequestInv, LifeFloor
  <2> QED BY <1>1, <1>3, <1>5, <2>1, <2>2, RequestTypes DEF RequestInv, TypeOK
<1>6. CASE stage[r] = "body"
  BY <1>1, <1>2, <1>3, <1>6, RequestTypes DEF RequestInv
<1>7. CASE stage[r] \notin {"lookup", "body"}
  BY <1>1, <1>3, <1>7 DEF RequestInv
<1> QED BY <1>5, <1>6, <1>7

LEMMA ShutdownStep ==
  ASSUME TypeOK, TypeOK', NEW r \in Requests, RequestInv(r), Signal \/ Exit
  PROVE  RequestInv(r)'
<1> USE TimeoutsAssumption, TimeoutsOrdered DEF Answering
<1>1. CASE Signal
  <2>1. lookupLeft[r] <= LookupTimeout
    BY RequestTypes
  <2> QED BY <1>1, <2>1, RequestTypes DEF Signal, RequestInv
<1>2. CASE Exit
  <2>1. stage[r] = "lookup" \/ Answering(r) => r \notin kept
    BY <1>2, RequestTypes DEF Exit, MayExit, Busy, InHandler, RequestInv, TypeOK
  <2>2. stage'[r] \in {stage[r], "cut"} /\ (stage'[r] = stage[r] => ~Busy(r))
    BY <1>2 DEF Exit, TypeOK, Busy, InHandler
  <2>3. r \in kept => stage'[r] = "done" /\ stage[r] = "done"
    BY <1>2, <2>1, <2>2 DEF Exit, Busy, InHandler, RequestInv, TypeOK
  <2>4. UNCHANGED <<body, adapter, timers, reply, gone, code, history>> /\ server' = "exited"
    BY <1>2 DEF Exit
  <2> QED BY <2>2, <2>3, <2>4 DEF RequestInv, timers, history, Busy, InHandler
<1> QED BY <1>1, <1>2

LEMMA StepPreserves == IInv /\ [Next]_vars => IInv'
<1> SUFFICES ASSUME IInv, [Next]_vars PROVE IInv'
  OBVIOUS
<1>1. TypeOK /\ TypeOK'
  BY TypeStep DEF IInv
<1>2. \A r \in Requests : RequestInv(r)
  BY <1>1, PerRequest
<1> SUFFICES ASSUME NEW q \in Requests PROVE RequestInv(q)'
  <2>1. IInv' <=> \A r \in Requests : RequestInv(r)'
    BY <1>1 DEF IInv, RequestInv, NotYetAsked, WriteBudget, ReplyIsRecent,
       OpaqueAsksStore, KeptInTime, PromptIsAnswered, TypeOK
  <2> QED BY <2>1
<1>3. CASE Tick
  BY <1>1, <1>2, <1>3, TickStep
<1>4. CASE Signal \/ Exit
  BY <1>1, <1>2, <1>4, ShutdownStep
<1>5. ASSUME NEW r \in Requests,
             \/ Connect(r) \/ Header(r) \/ CloseUnused(r) \/ BodyLost(r)
             \/ Reject(r) \/ ExchangeLocally(r) \/ StartLookup(r)
             \/ StoreReplies(r) \/ Grant(r) \/ LookupFails(r)
             \/ Count(r) \/ Leave(r) \/ Flush(r) \/ Disconnect(r)
      PROVE  RequestInv(q)'
  <2>1. CASE q = r
    BY <1>1, <1>2, <1>5, <2>1, RequestStep
  <2>2. CASE q # r
    BY <1>1, <1>2, <1>5, <2>2, OnlyOneMoves DEF RequestInv, InHandler, Answering
  <2> QED BY <2>1, <2>2
<1>6. CASE UNCHANGED vars
  BY <1>2, <1>6 DEF vars, timers, history, RequestInv, InHandler, Answering
<1> QED BY <1>3, <1>4, <1>5, <1>6 DEF Next

-----------------------------------------------------------------------------
(* The invariants of TokenExchange.                                        *)

\* The strengthened invariant holds in every reachable state.
THEOREM Invariance == Spec => []IInv
BY InitEstablishes, StepPreserves, PTL DEF Spec

\* Every variable keeps its type; in particular no timer runs below zero.
THEOREM TypeCorrect == Spec => []TypeOK
<1>1. IInv => TypeOK
  BY DEF IInv
<1> QED BY <1>1, Invariance, PTL

\* A token the opaque adapter obtains outlives its session by at most the
\* lookup's deadline and its own lifetime (handler.go:77, token.go:67-71).
THEOREM Overhang == Spec => []OverhangBounded
<1>1. IInv => OverhangBounded
  <2> SUFFICES ASSUME IInv, NEW r \in Requests, stage[r] = "respond",
                      code[r] = 200, adapter[r] = "opaque"
               PROVE  Lifetime(SessionIdentity)
                        <= life[body[r].token] + LookupTimeout + DefaultTTL
    BY DEF OverhangBounded
  <2>1. life[body[r].token] >= lookupLeft[r] - LookupTimeout
    BY DEF IInv, OpaqueAsksStore, ReplyIsRecent
  <2>2. Lifetime(SessionIdentity) = DefaultTTL
    BY DEF Lifetime, SessionIdentity, Identity
  <2>3. lookupLeft[r] \in Nat /\ life[body[r].token] \in Int
    BY RequestTypes DEF IInv, OpaqueAsksStore
  <2> QED BY <2>1, <2>2, <2>3, TTLsAssumption, TimeoutsAssumption
<1> QED BY <1>1, Invariance, PTL

\* A client that stays and is prompt gets its answer (handler.go:77,
\* main.go:114).
THEOREM Answered == Spec => []PromptIsAnswered
<1>1. IInv => PromptIsAnswered
  BY DEF IInv
<1> QED BY <1>1, Invariance, PTL

\* A handler's time is bounded by the read and the lookup deadline.
THEOREM TimeBounded == Spec => []HandlerTimeBounded
<1>1. IInv => HandlerTimeBounded
  <2> SUFFICES ASSUME IInv, NEW r \in Requests, InHandler(r)
               PROVE  writeLeft[r] >= WriteTimeout - ReadTimeout - LookupTimeout
    BY DEF HandlerTimeBounded
  <2> QED BY RequestTypes, TimeoutsAssumption DEF IInv, WriteBudget, InHandler
<1> QED BY <1>1, Invariance, PTL

\* A shutdown cuts no request whose lookup was under way at the signal
\* (main.go:130-132, handler.go:77).
THEOREM KeptFinish == Spec => []KeptRequestsFinish
<1>1. IInv => KeptRequestsFinish
  BY DEF IInv, KeptInTime, KeptRequestsFinish, Answering
<1> QED BY <1>1, Invariance, PTL

-----------------------------------------------------------------------------
(* Detection.                                                              *)

\* What two adapters detect is an assertion that is a session id too.
LEMMA OneDetects ==
  ASSUME NEW t, IsText(t), ~Ambiguous(t),
         NEW a \in Registered, Detects(a, t),
         NEW b \in Registered, Detects(b, t)
  PROVE  a = b
<1>1. t.word \/ t.base64 => t.segments = 1
  BY DEF IsText
<1>2. SAMLDetects(t) \/ OpaqueDetects(t) => t.segments = 1
  BY <1>1, Zenon DEF SAMLDetects, OpaqueDetects
<1>3. ~(JWTDetects(t) /\ (SAMLDetects(t) \/ OpaqueDetects(t)))
  BY <1>2 DEF JWTDetects
<1>4. ~(SAMLDetects(t) /\ OpaqueDetects(t))
  BY Zenon DEF Ambiguous, SAMLDetects, OpaqueDetects
<1> QED BY <1>3, <1>4 DEF Detects, Registered

\* With a type there is one adapter at most.
LEMMA OneAsked ==
  ASSUME NEW t, NEW hint, hint # "",
         NEW a \in Candidates(hint, t), NEW b \in Candidates(hint, t)
  PROVE  a = b
  BY DEF Candidates

\* The adapter of a request is one that its own token and type lead to; it is
\* chosen once.
Chosen(r) ==
  /\ stage[r] \in {"absent", "connected", "body"} => adapter[r] = "unknown"
  /\ adapter[r] # "unknown" =>
       /\ body[r].token \in Tokens
       /\ adapter[r] \in Candidates(body[r].hint, body[r].token)

ChosenInv == \A r \in Requests : Chosen(r)

LEMMA ChosenStep ==
  ASSUME TypeOK, ChosenInv, [Next]_vars
  PROVE  ChosenInv'
<1> SUFFICES ASSUME NEW q \in Requests PROVE Chosen(q)'
  BY DEF ChosenInv
<1>0. Chosen(q)
  BY DEF ChosenInv
<1>1. CASE Tick \/ Signal \/ Exit \/ UNCHANGED vars
  <2>1. body' = body /\ adapter' = adapter
    BY <1>1 DEF Tick, Signal, Exit, vars
  <2>2. stage'[q] \in {"absent", "connected", "body"} => stage'[q] = stage[q]
    BY <1>1 DEF Tick, Signal, Exit, vars, TypeOK
  <2> QED BY <1>0, <2>1, <2>2 DEF Chosen
<1>2. ASSUME NEW r \in Requests,
             \/ Connect(r) \/ Header(r) \/ CloseUnused(r) \/ BodyLost(r)
             \/ Reject(r) \/ ExchangeLocally(r) \/ StartLookup(r)
             \/ StoreReplies(r) \/ Grant(r) \/ LookupFails(r)
             \/ Count(r) \/ Leave(r) \/ Flush(r) \/ Disconnect(r)
      PROVE  Chosen(q)'
  <2>1. CASE q # r
    <3>1. stage'[q] = stage[q] /\ body'[q] = body[q] /\ adapter'[q] = adapter[q]
      BY <1>2, <2>1, OnlyOneMoves
    <3> QED BY <1>0, <3>1 DEF Chosen
  <2>2. CASE q = r
    <3>1. CASE ExchangeLocally(r) \/ StartLookup(r)
      <4>1. /\ stage[r] = "body" /\ ~InvalidRequest(body[r]) /\ body' = body
            /\ stage'[r] \in {"lookup", "respond"}
        BY <3>1 DEF ExchangeLocally, StartLookup, Answer, Goto, TypeOK
      <4>2. body[r].token \in Tokens
        BY <4>1, RequestTypes DEF InvalidRequest
      <4>3. adapter'[r] \in Candidates(body[r].hint, body[r].token)
        BY <3>1 DEF ExchangeLocally, StartLookup, SetAdapter, TypeOK
      <4> QED BY <2>2, <4>1, <4>2, <4>3 DEF Chosen
    <3>2. CASE Connect(r) \/ Header(r)
      <4>1. stage[r] \in {"absent", "connected"} /\ adapter' = adapter
        BY <3>2 DEF Connect, Header
      <4> QED BY <1>0, <2>2, <4>1 DEF Chosen
    <3>3. CASE \/ CloseUnused(r) \/ BodyLost(r) \/ Reject(r) \/ StoreReplies(r)
               \/ Grant(r) \/ LookupFails(r) \/ Count(r) \/ Leave(r) \/ Flush(r)
               \/ Disconnect(r)
      <4>1. /\ body' = body /\ adapter' = adapter
            /\ stage'[r] \in {"absent", "connected", "body"} => stage'[r] = stage[r]
        BY <3>3 DEF CloseUnused, BodyLost, Reject, StoreReplies, Grant, LookupFails,
                    Count, Leave, Flush, Disconnect, Answer, Goto, TypeOK
      <4> QED BY <1>0, <2>2, <4>1 DEF Chosen
    <3> QED BY <1>2, <3>1, <3>2, <3>3
  <2> QED BY <2>1, <2>2
<1> QED BY <1>1, <1>2 DEF Next

\* Outside of the one ambiguity the adapter depends on the request alone, for
\* any tokens that are texts.
THEOREM Determined == Spec => []AdapterIsDetermined
<1>1. Init => ChosenInv
  BY DEF Init, ChosenInv, Chosen
<1>2. ChosenInv => AdapterIsDetermined
  <2> SUFFICES ASSUME ChosenInv, NEW r \in Requests, NEW q \in Requests,
                      body[r] = body[q],
                      adapter[r] # "unknown", adapter[q] # "unknown",
                      body[r].hint # "" \/ ~Ambiguous(body[r].token)
               PROVE  adapter[r] = adapter[q]
    BY DEF AdapterIsDetermined
  <2>1. /\ body[r].token \in Tokens
        /\ adapter[r] \in Candidates(body[r].hint, body[r].token)
        /\ adapter[q] \in Candidates(body[r].hint, body[r].token)
    BY DEF ChosenInv, Chosen
  <2>2. CASE body[r].hint # ""
    BY <2>1, <2>2, OneAsked
  <2>3. CASE body[r].hint = ""
    <3>1. /\ adapter[r] \in Registered /\ Detects(adapter[r], body[r].token)
          /\ adapter[q] \in Registered /\ Detects(adapter[q], body[r].token)
      BY <2>1, <2>3, Zenon DEF Candidates
    <3>2. IsText(body[r].token) /\ ~Ambiguous(body[r].token)
      BY <2>1, <2>3, TokensAssumption, Zenon
    <3> QED BY <3>1, <3>2, OneDetects
  <2> QED BY <2>2, <2>3
<1> QED BY <1>1, <1>2, ChosenStep, TypeCorrect, PTL DEF Spec

-----------------------------------------------------------------------------
(* The metrics, which count finite sets of requests.                       *)

RunningSet   == {r \in Requests : InHandler(r)}
UncountedSet == {r \in Requests : stage[r] = "respond" /\ code[r] = 200}

\* A success is decided once, by an adapter that has a name.
SuccessIsNamed ==
  \A r \in Requests :
    /\ stage[r] \in {"absent", "connected", "body", "lookup"} => code[r] # 200
    /\ stage[r] = "lookup" => adapter[r] \in Registered
    /\ stage[r] = "respond" /\ code[r] = 200 => adapter[r] \in Registered
    /\ stage[r] = "respond" => code[r] # 0

\* What the gauge and the counters say, told by the requests.
Counts ==
  server # "exited" =>
    /\ active = Cardinality(RunningSet)
    /\ issued = Successes + Cardinality(UncountedSet)
    /\ total[<<"unknown", "success">>] = 0

MetricsInv == TypeOK /\ SuccessIsNamed /\ Counts

\* No request but r moves.
Only(r) ==
  \A q \in Requests \ {r} :
    stage'[q] = stage[q] /\ code'[q] = code[q] /\ adapter'[q] = adapter[q]

\* Two sets of requests that differ in one at most.
LEMMA Counting ==
  ASSUME IsFiniteSet(Requests), NEW S \in SUBSET Requests, NEW T \in SUBSET Requests,
         NEW r \in Requests, T \ {r} = S \ {r}
  PROVE  /\ (r \in S <=> r \in T) => Cardinality(T) = Cardinality(S)
         /\ r \notin S /\ r \in T => Cardinality(T) = Cardinality(S) + 1
         /\ r \in S /\ r \notin T => Cardinality(T) = Cardinality(S) - 1
<1>1. IsFiniteSet(S)
  BY FS_Subset
<1>2. ASSUME r \in S <=> r \in T PROVE T = S
  BY <1>2
<1>3. ASSUME r \notin S, r \in T PROVE T = S \union {r}
  BY <1>3
<1>4. ASSUME r \in S, r \notin T PROVE T = S \ {r}
  BY <1>4
<1>5. r \notin S => Cardinality(S \union {r}) = Cardinality(S) + 1
  BY <1>1, FS_AddElement
<1>6. r \in S => Cardinality(S \ {r}) = Cardinality(S) - 1
  BY <1>1, FS_RemoveElement
<1> QED BY <1>2, <1>3, <1>4, <1>5, <1>6

\* When one request moves, the sets keep the others.
LEMMA Moved ==
  ASSUME NEW r \in Requests, Only(r)
  PROVE  /\ RunningSet' \ {r} = RunningSet \ {r}
         /\ UncountedSet' \ {r} = UncountedSet \ {r}
<1>1. RunningSet' \ {r} = RunningSet \ {r}
  BY DEF Only, RunningSet, InHandler
<1>2. UncountedSet' \ {r} = UncountedSet \ {r}
  BY DEF Only, UncountedSet
<1> QED BY <1>1, <1>2

\* What the move of one request does to the two counts.
LEMMA MovedCounts ==
  ASSUME IsFiniteSet(Requests), NEW r \in Requests, Only(r)
  PROVE  /\ (r \in RunningSet <=> r \in RunningSet')
              => Cardinality(RunningSet') = Cardinality(RunningSet)
         /\ r \notin RunningSet /\ r \in RunningSet'
              => Cardinality(RunningSet') = Cardinality(RunningSet) + 1
         /\ r \in RunningSet /\ r \notin RunningSet'
              => Cardinality(RunningSet') = Cardinality(RunningSet) - 1
         /\ (r \in UncountedSet <=> r \in UncountedSet')
              => Cardinality(UncountedSet') = Cardinality(UncountedSet)
         /\ r \notin UncountedSet /\ r \in UncountedSet'
              => Cardinality(UncountedSet') = Cardinality(UncountedSet) + 1
         /\ r \in UncountedSet /\ r \notin UncountedSet'
              => Cardinality(UncountedSet') = Cardinality(UncountedSet) - 1
<1>1. /\ RunningSet \in SUBSET Requests /\ RunningSet' \in SUBSET Requests
      /\ UncountedSet \in SUBSET Requests /\ UncountedSet' \in SUBSET Requests
  BY DEF RunningSet, UncountedSet
<1>2. /\ (r \in RunningSet <=> r \in RunningSet')
           => Cardinality(RunningSet') = Cardinality(RunningSet)
      /\ r \notin RunningSet /\ r \in RunningSet'
           => Cardinality(RunningSet') = Cardinality(RunningSet) + 1
      /\ r \in RunningSet /\ r \notin RunningSet'
           => Cardinality(RunningSet') = Cardinality(RunningSet) - 1
  BY <1>1, Moved, Counting
<1>3. /\ (r \in UncountedSet <=> r \in UncountedSet')
           => Cardinality(UncountedSet') = Cardinality(UncountedSet)
      /\ r \notin UncountedSet /\ r \in UncountedSet'
           => Cardinality(UncountedSet') = Cardinality(UncountedSet) + 1
      /\ r \in UncountedSet /\ r \notin UncountedSet'
           => Cardinality(UncountedSet') = Cardinality(UncountedSet) - 1
  BY <1>1, Moved, Counting
<1> QED BY <1>2, <1>3

\* Both sets are finite, and who has not been counted is still running.
LEMMA SetSizes ==
  ASSUME IsFiniteSet(Requests)
  PROVE  /\ Cardinality(RunningSet) \in Nat
         /\ Cardinality(UncountedSet) \in Nat
         /\ Cardinality(UncountedSet) <= Cardinality(RunningSet)
<1>1. IsFiniteSet(RunningSet) /\ UncountedSet \subseteq RunningSet
  <2>1. RunningSet \subseteq Requests /\ UncountedSet \subseteq RunningSet
    BY DEF RunningSet, UncountedSet, InHandler
  <2> QED BY <2>1, FS_Subset
<1>2. IsFiniteSet(UncountedSet) /\ Cardinality(UncountedSet) <= Cardinality(RunningSet)
  BY <1>1, FS_Subset
<1> QED BY <1>1, <1>2, FS_CardinalityType

\* The totals are numbers.
LEMMA TotalTypes ==
  ASSUME TypeOK
  PROVE  /\ \A l \in Labels : total[<<l, "success">>] \in Nat
         /\ Successes \in Nat
<1>1. ASSUME NEW l \in Labels PROVE total[<<l, "success">>] \in Nat
  <2>1. <<l, "success">> \in Labels \X {"success", "error"}
    OBVIOUS
  <2> QED BY <2>1 DEF TypeOK
<1> QED BY <1>1 DEF Successes, Labels, Registered

\* A request moves and no count changes: it goes on, or fails.
LEMMA QuietMove ==
  ASSUME IsFiniteSet(Requests), MetricsInv, NEW r \in Requests, Only(r),
         stage[r] \in {"absent", "connected", "body", "lookup"},
         code'[r] # 200, InHandler(r) <=> InHandler(r)',
         stage'[r] = "lookup" => adapter'[r] \in Registered,
         stage'[r] = "respond" => code'[r] # 0,
         server' = server, UNCHANGED metrics
  PROVE  SuccessIsNamed' /\ Counts'
<1>1. code[r] # 200
  BY DEF MetricsInv, SuccessIsNamed
<1>2. r \in RunningSet <=> r \in RunningSet'
  BY DEF RunningSet, InHandler
<1>3. r \notin UncountedSet /\ r \notin UncountedSet'
  BY <1>1 DEF UncountedSet
<1>4. SuccessIsNamed'
  BY DEF MetricsInv, SuccessIsNamed, Only
<1>5. Counts'
  BY <1>2, <1>3, MovedCounts DEF MetricsInv, Counts, metrics, Successes
<1> QED BY <1>4, <1>5

\* A request is granted.
LEMMA GrantMove ==
  ASSUME IsFiniteSet(Requests), MetricsInv, NEW r \in Requests, Only(r),
         stage[r] \in {"body", "lookup"}, stage'[r] = "respond",
         code'[r] = 200, adapter'[r] \in Registered, issued' = issued + 1,
         server' = server, active' = active, total' = total
  PROVE  SuccessIsNamed' /\ Counts'
<1>1. r \in RunningSet /\ r \in RunningSet'
  BY DEF RunningSet, InHandler
<1>2. r \notin UncountedSet /\ r \in UncountedSet'
  BY DEF UncountedSet
<1>3. SuccessIsNamed'
  BY DEF MetricsInv, SuccessIsNamed, Only
<1>4. /\ Cardinality(RunningSet') = Cardinality(RunningSet)
      /\ Cardinality(UncountedSet') = Cardinality(UncountedSet) + 1
  BY <1>1, <1>2, MovedCounts
<1>5. Counts'
  BY <1>4, SetSizes, TotalTypes DEF MetricsInv, Counts, Successes
<1> QED BY <1>3, <1>5

\* The handler has returned, and the middleware counts.
LEMMA CountMove ==
  ASSUME IsFiniteSet(Requests), MetricsInv, NEW r \in Requests, Count(r)
  PROVE  SuccessIsNamed' /\ Counts'
<1>0. TypeOK
  BY DEF MetricsInv
<1>1. /\ stage[r] = "respond" /\ stage'[r] = "counted" /\ Only(r)
      /\ code' = code /\ adapter' = adapter
  BY <1>0 DEF Count, Goto, Only, TypeOK
<1>2. r \in RunningSet /\ r \in RunningSet'
  BY <1>1 DEF RunningSet, InHandler
<1>3. SuccessIsNamed'
  BY <1>1 DEF MetricsInv, SuccessIsNamed, Only
<1>4. /\ code[r] \in {200, 400, 401, 405} /\ adapter[r] \in Labels
      /\ code[r] = 200 => adapter[r] \in Registered
  BY <1>0, <1>1 DEF TypeOK, MetricsInv, SuccessIsNamed
<1>5. /\ total' = [total EXCEPT ![<<adapter[r], Status(code[r])>>] = @ + 1]
      /\ active' = active /\ issued' = issued /\ server' = server
  BY DEF Count
<1>6. CASE code[r] = 200
  <2>1. r \in UncountedSet /\ r \notin UncountedSet'
    BY <1>1, <1>6 DEF UncountedSet
  <2>2. /\ total'[<<adapter[r], "success">>] = total[<<adapter[r], "success">>] + 1
        /\ \A l \in Labels \ {adapter[r]} :
             total'[<<l, "success">>] = total[<<l, "success">>]
    BY <1>0, <1>4, <1>5, <1>6 DEF TypeOK, Status
  <2>3. Successes' = Successes + 1 /\ total'[<<"unknown", "success">>] = total[<<"unknown", "success">>]
    BY <1>0, <1>4, <1>6, <2>2, TotalTypes DEF Successes, Labels, Registered
  <2>4. /\ Cardinality(RunningSet') = Cardinality(RunningSet)
        /\ Cardinality(UncountedSet') = Cardinality(UncountedSet) - 1
    BY <1>1, <1>2, <2>1, MovedCounts
  <2>5. Counts'
    BY <1>0, <1>5, <2>3, <2>4, SetSizes, TotalTypes DEF MetricsInv, Counts
  <2> QED BY <1>3, <2>5
<1>7. CASE code[r] # 200
  <2>1. r \notin UncountedSet /\ r \notin UncountedSet'
    BY <1>1, <1>7 DEF UncountedSet
  <2>2. \A l \in Labels : total'[<<l, "success">>] = total[<<l, "success">>]
    BY <1>0, <1>4, <1>5, <1>7 DEF TypeOK, Status
  <2>3. Successes' = Successes /\ total'[<<"unknown", "success">>] = total[<<"unknown", "success">>]
    BY <2>2 DEF Successes, Labels, Registered
  <2>4. /\ Cardinality(RunningSet') = Cardinality(RunningSet)
        /\ Cardinality(UncountedSet') = Cardinality(UncountedSet)
    BY <1>1, <1>2, <2>1, MovedCounts
  <2>5. Counts'
    BY <1>5, <2>3, <2>4 DEF MetricsInv, Counts
  <2> QED BY <1>3, <2>5
<1> QED BY <1>6, <1>7

\* The middleware returns.
LEMMA LeaveMove ==
  ASSUME IsFiniteSet(Requests), MetricsInv, NEW r \in Requests, Leave(r)
  PROVE  SuccessIsNamed' /\ Counts'
<1>0. TypeOK
  BY DEF MetricsInv
<1>1. /\ stage[r] = "counted" /\ stage'[r] = "left" /\ Only(r)
      /\ code' = code /\ adapter' = adapter
  BY <1>0 DEF Leave, Goto, Only, TypeOK
<1>2. r \in RunningSet /\ r \notin RunningSet'
  BY <1>1 DEF RunningSet, InHandler
<1>3. r \notin UncountedSet /\ r \notin UncountedSet'
  BY <1>1 DEF UncountedSet
<1>4. SuccessIsNamed'
  BY <1>1 DEF MetricsInv, SuccessIsNamed, Only
<1>5. active' = active - 1 /\ issued' = issued /\ server' = server /\ total' = total
  BY DEF Leave
<1>6. Counts'
  BY <1>1, <1>2, <1>3, <1>5, MovedCounts DEF MetricsInv, Counts, Successes
<1> QED BY <1>4, <1>6

\* The server flushes, which changes no count.
LEMMA FlushMove ==
  ASSUME IsFiniteSet(Requests), MetricsInv, NEW r \in Requests, Flush(r)
  PROVE  SuccessIsNamed' /\ Counts'
<1>0. TypeOK
  BY DEF MetricsInv
<1>1. /\ stage[r] = "left" /\ stage'[r] = "done" /\ Only(r)
      /\ code' = code /\ adapter' = adapter
  BY <1>0 DEF Flush, Goto, Only, TypeOK
<1>2. r \notin RunningSet /\ r \notin RunningSet'
  BY <1>1 DEF RunningSet, InHandler
<1>3. r \notin UncountedSet /\ r \notin UncountedSet'
  BY <1>1 DEF UncountedSet
<1>4. SuccessIsNamed'
  BY <1>1 DEF MetricsInv, SuccessIsNamed, Only
<1>5. UNCHANGED metrics /\ server' = server
  BY DEF Flush
<1>6. Counts'
  BY <1>1, <1>2, <1>3, <1>5, MovedCounts DEF MetricsInv, Counts, Successes, metrics
<1> QED BY <1>4, <1>6

\* A request's header is in.
LEMMA HeaderMove ==
  ASSUME IsFiniteSet(Requests), MetricsInv, NEW r \in Requests, Header(r)
  PROVE  SuccessIsNamed' /\ Counts'
<1>0. TypeOK
  BY DEF MetricsInv
<1>1. stage[r] = "connected" /\ code[r] # 200
  BY DEF Header, MetricsInv, SuccessIsNamed
<1>2. /\ Only(r) /\ stage'[r] \in {"body", "respond"}
      /\ code'[r] \in {code[r], 405} /\ (stage'[r] = "respond" => code'[r] = 405)
  BY <1>0 DEF Header, Goto, Answer, Only, TypeOK
<1>3. r \notin RunningSet /\ r \in RunningSet'
  BY <1>1, <1>2 DEF RunningSet, InHandler
<1>4. r \notin UncountedSet /\ r \notin UncountedSet'
  BY <1>1, <1>2 DEF UncountedSet
<1>5. SuccessIsNamed'
  BY <1>1, <1>2 DEF MetricsInv, SuccessIsNamed, Only
<1>6. active' = active + 1 /\ issued' = issued /\ server' = server /\ total' = total
  BY DEF Header
<1>7. Counts'
  BY <1>2, <1>3, <1>4, <1>6, MovedCounts DEF MetricsInv, Counts, Successes
<1> QED BY <1>5, <1>7

\* The JWT and the SAML adapter grant or refuse.
LEMMA LocalMove ==
  ASSUME IsFiniteSet(Requests), MetricsInv, NEW r \in Requests, ExchangeLocally(r)
  PROVE  SuccessIsNamed' /\ Counts'
<1>0. TypeOK
  BY DEF MetricsInv
<1>1. PICK a \in Candidates(body[r].hint, body[r].token) \ {"opaque"} :
        LET id == LocalExchange(a, body[r].token, life[body[r].token]) IN
          /\ SetAdapter(r, a)
          /\ Answer(r, IF id.ok THEN 200 ELSE 401)
          /\ issued' = IF id.ok THEN issued + 1 ELSE issued
  BY DEF ExchangeLocally
<1>2. /\ stage[r] = "body" /\ server' = server
      /\ active' = active /\ total' = total
  BY DEF ExchangeLocally
<1>3. Only(r) /\ stage'[r] = "respond" /\ adapter'[r] = a
  BY <1>0, <1>1 DEF SetAdapter, Answer, Goto, Only, TypeOK
<1>4. a \in Registered
  BY <1>1 DEF Candidates
<1>5. CASE LocalExchange(a, body[r].token, life[body[r].token]).ok
  <2>1. code'[r] = 200 /\ issued' = issued + 1
    BY <1>0, <1>1, <1>5 DEF Answer, TypeOK
  <2> QED BY <1>2, <1>3, <1>4, <2>1, GrantMove
<1>6. CASE ~LocalExchange(a, body[r].token, life[body[r].token]).ok
  <2>1. code'[r] = 401 /\ UNCHANGED metrics
    BY <1>0, <1>1, <1>2, <1>6 DEF Answer, TypeOK, metrics
  <2>2. InHandler(r) /\ InHandler(r)'
    BY <1>2, <1>3 DEF InHandler
  <2> QED BY <1>2, <1>3, <2>1, <2>2, QuietMove
<1> QED BY <1>5, <1>6

\* Each action is a quiet move, a grant, or counts what it does.
LEMMA MetricsStep ==
  ASSUME IsFiniteSet(Requests), MetricsInv, [Next]_vars
  PROVE  SuccessIsNamed' /\ Counts'
<1>0. TypeOK
  BY DEF MetricsInv
<1>1. ASSUME UNCHANGED <<stage, code, adapter, metrics>>,
             server' = "exited" <=> server = "exited"
      PROVE  SuccessIsNamed' /\ Counts'
  <2>1. RunningSet' = RunningSet /\ UncountedSet' = UncountedSet
    BY <1>1 DEF RunningSet, InHandler, UncountedSet
  <2>2. SuccessIsNamed'
    BY <1>1 DEF MetricsInv, SuccessIsNamed
  <2>3. Counts'
    BY <1>1, <2>1 DEF MetricsInv, Counts, metrics, Successes
  <2> QED BY <2>2, <2>3
<1>2. CASE Tick \/ Signal
  BY <1>1, <1>2 DEF Tick, Signal
<1>3. CASE Exit
  <2>1. \A r \in Requests : stage'[r] = stage[r] \/ stage'[r] = "cut"
    BY <1>3 DEF Exit
  <2>2. UNCHANGED <<code, adapter>> /\ server' = "exited"
    BY <1>3 DEF Exit
  <2> QED BY <2>1, <2>2 DEF MetricsInv, SuccessIsNamed, Counts
<1>4. ASSUME NEW r \in Requests, StoreReplies(r) \/ Disconnect(r)
      PROVE  SuccessIsNamed' /\ Counts'
  BY <1>1, <1>4 DEF StoreReplies, Disconnect
<1>5. ASSUME NEW r \in Requests, Connect(r) \/ CloseUnused(r)
      PROVE  SuccessIsNamed' /\ Counts'
  <2>1. /\ stage[r] \in {"absent", "connected"} /\ server' = server
        /\ UNCHANGED <<code, metrics>>
    BY <1>5 DEF Connect, CloseUnused
  <2>2. Only(r) /\ stage'[r] \in {"connected", "closed"}
    BY <1>0, <1>5 DEF Connect, CloseUnused, Goto, Only, TypeOK
  <2>3. code'[r] # 200
    BY <2>1 DEF MetricsInv, SuccessIsNamed
  <2>4. ~InHandler(r) /\ ~InHandler(r)'
    BY <2>1, <2>2 DEF InHandler
  <2> QED BY <2>1, <2>2, <2>3, <2>4, QuietMove
<1>6. ASSUME NEW r \in Requests, BodyLost(r) \/ Reject(r) \/ LookupFails(r)
      PROVE  SuccessIsNamed' /\ Counts'
  <2>1. stage[r] \in {"body", "lookup"} /\ server' = server /\ UNCHANGED metrics
    BY <1>6 DEF BodyLost, Reject, LookupFails
  <2>2. Only(r) /\ stage'[r] = "respond" /\ code'[r] \in {400, 401}
    BY <1>0, <1>6 DEF BodyLost, Reject, LookupFails, Answer, Goto, Only, TypeOK
  <2>3. InHandler(r) /\ InHandler(r)'
    BY <2>1, <2>2 DEF InHandler
  <2> QED BY <2>1, <2>2, <2>3, QuietMove
<1>7. ASSUME NEW r \in Requests, StartLookup(r)
      PROVE  SuccessIsNamed' /\ Counts'
  <2>1. stage[r] = "body" /\ server' = server /\ UNCHANGED <<code, metrics>>
    BY <1>7 DEF StartLookup
  <2>2. Only(r) /\ stage'[r] = "lookup" /\ adapter'[r] = "opaque"
    BY <1>0, <1>7 DEF StartLookup, SetAdapter, Goto, Only, TypeOK
  <2>3. code'[r] # 200
    BY <2>1 DEF MetricsInv, SuccessIsNamed
  <2>4. InHandler(r) /\ InHandler(r)' /\ "opaque" \in Registered
    BY <2>1, <2>2 DEF InHandler, Registered
  <2> QED BY <2>1, <2>2, <2>3, <2>4, QuietMove
<1>8. ASSUME NEW r \in Requests, Grant(r)
      PROVE  SuccessIsNamed' /\ Counts'
  <2>1. /\ stage[r] = "lookup" /\ issued' = issued + 1 /\ server' = server
        /\ active' = active /\ total' = total /\ adapter' = adapter
    BY <1>8 DEF Grant
  <2>2. Only(r) /\ stage'[r] = "respond" /\ code'[r] = 200
    BY <1>0, <1>8 DEF Grant, Answer, Goto, Only, TypeOK
  <2>3. adapter'[r] \in Registered
    BY <2>1 DEF MetricsInv, SuccessIsNamed
  <2> QED BY <2>1, <2>2, <2>3, GrantMove
<1>9. CASE UNCHANGED vars
  BY <1>1, <1>9 DEF vars, metrics
<1> QED
  BY <1>2, <1>3, <1>4, <1>5, <1>6, <1>7, <1>8, <1>9, HeaderMove, LocalMove,
     CountMove, LeaveMove, FlushMove DEF Next

\* With finitely many requests the collectors stand in the relations stated,
\* between any two steps of the handlers and of the middleware
\* (middleware.go:77-99, handler.go:125, 170).
THEOREM Metrics ==
  ASSUME IsFiniteSet(Requests)
  PROVE  Spec => []MetricsAddUp
<1>1. Init => SuccessIsNamed /\ Counts
  <2> SUFFICES ASSUME Init PROVE SuccessIsNamed /\ Counts
    OBVIOUS
  <2>1. RunningSet = {} /\ UncountedSet = {}
    BY DEF Init, RunningSet, InHandler, UncountedSet
  <2>2. SuccessIsNamed
    BY DEF Init, SuccessIsNamed
  <2>3. \A l \in Labels : total[<<l, "success">>] = 0
    BY DEF Init
  <2>4. Successes = 0 /\ total[<<"unknown", "success">>] = 0
    BY <2>3 DEF Successes, Labels, Registered
  <2>5. active = 0 /\ issued = 0
    BY DEF Init
  <2>6. Counts
    BY <2>1, <2>4, <2>5, FS_EmptySet DEF Counts
  <2> QED BY <2>2, <2>6
<1>2. TypeOK /\ SuccessIsNamed /\ Counts /\ [Next]_vars => SuccessIsNamed' /\ Counts'
  BY MetricsStep DEF MetricsInv
<1>3. TypeOK /\ SuccessIsNamed /\ Counts => MetricsAddUp
  <2> SUFFICES ASSUME TypeOK, Counts, server # "exited"
               PROVE  /\ Successes <= issued /\ issued <= Successes + active
                      /\ total[<<"unknown", "success">>] = 0
                      /\ (\A r \in Requests : ~InHandler(r)) => active = 0
    BY DEF MetricsAddUp
  <2>1. Successes <= issued /\ issued <= Successes + active
    BY SetSizes, TotalTypes DEF Counts
  <2>2. ASSUME \A r \in Requests : ~InHandler(r) PROVE active = 0
    <3>1. RunningSet = {}
      BY <2>2 DEF RunningSet
    <3> QED BY <3>1, FS_EmptySet DEF Counts
  <2> QED BY <2>1, <2>2 DEF Counts
<1> QED BY <1>1, <1>2, <1>3, TypeCorrect, PTL DEF Spec
=============================================================================
