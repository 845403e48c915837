------------------------ MODULE TokenExchangeRefines ------------------------
(***************************************************************************)
(* TokenExchange implements TokenService, for any requests, tokens and     *)
(* timeouts: each of its steps is a step of the service or, where it       *)
(* concerns the connection, the lookup or the metrics only, none.          *)
(***************************************************************************)
EXTENDS TokenExchangeProofs

\* A request without a decision has no code.
Undecided ==
  \A r \in Requests :
    stage[r] \in {"absent", "connected", "body", "lookup"} => code[r] = 0

RInv == IInv /\ Undecided

StatusMap  == [r \in Requests |-> Decision(r)]
SubjectMap == [r \in Requests |-> body[r].token]

\* A step of one request, as the service sees it.
LEMMA StatusOfOne ==
  ASSUME NEW r \in Requests, NEW s, Decision(r)' = s,
         \A q \in Requests \ {r} : stage'[q] = stage[q] /\ code'[q] = code[q]
  PROVE  StatusMap' = [StatusMap EXCEPT ![r] = s]
<1>1. \A q \in Requests \ {r} : Decision(q)' = Decision(q)
  BY DEF Decision
<1> QED
  BY <1>1 DEF StatusMap

LEMMA SubjectOfOne ==
  ASSUME NEW r \in Requests, \A q \in Requests \ {r} : body'[q] = body[q]
  PROVE  SubjectMap' = [SubjectMap EXCEPT ![r] = body'[r].token]
  BY DEF SubjectMap

\* Steps that the service does not see.
LEMMA Unseen ==
  ASSUME \A r \in Requests : Decision(r)' = Decision(r) /\ body'[r] = body[r],
         UNCHANGED <<life, issued>>
  PROVE  UNCHANGED <<StatusMap, SubjectMap, life, issued>>
  BY DEF StatusMap, SubjectMap

LEMMA UndecidedStep == RInv /\ [Next]_vars => Undecided'
<1> SUFFICES ASSUME RInv, [Next]_vars PROVE Undecided'
  OBVIOUS
<1> USE DEF RInv, IInv, Undecided, TypeOK, Goto, Answer
<1>1. CASE Tick \/ Signal \/ UNCHANGED vars
  BY <1>1 DEF Tick, Signal, vars
<1>2. CASE Exit
  BY <1>2 DEF Exit
<1>3. ASSUME NEW r \in Requests,
             Connect(r) \/ Header(r) \/ CloseUnused(r) \/ BodyLost(r) \/ Reject(r)
      PROVE  Undecided'
  BY <1>3 DEF Connect, Header, CloseUnused, BodyLost, Reject
<1>4. ASSUME NEW r \in Requests,
             ExchangeLocally(r) \/ StartLookup(r) \/ StoreReplies(r) \/ Grant(r)
      PROVE  Undecided'
  BY <1>4 DEF ExchangeLocally, StartLookup, StoreReplies, Grant
<1>5. ASSUME NEW r \in Requests,
             LookupFails(r) \/ Count(r) \/ Leave(r) \/ Flush(r) \/ Disconnect(r)
      PROVE  Undecided'
  BY <1>5 DEF LookupFails, Count, Leave, Flush, Disconnect
<1> QED BY <1>1, <1>2, <1>3, <1>4, <1>5 DEF Next

LEMMA Initially == Init => RInv /\ Service!Init
<1> SUFFICES ASSUME Init PROVE RInv /\ Service!Init
  OBVIOUS
<1>1. Undecided
  BY DEF Init, Undecided
<1>2. life \in [Tokens -> Nat]
  BY LifeAssumption DEF Init
<1>3. \A r \in Requests : Decision(r) = "idle" /\ body[r].token = NoToken
  <2>1. \A r \in Requests : stage[r] = "absent" /\ code[r] = 0
    BY DEF Init
  <2>2. \A r \in Requests : body[r] = EmptyBody
    BY DEF Init
  <2>3. EmptyBody.token = NoToken
    BY DEF EmptyBody
  <2> QED
    BY <2>1, <2>2, <2>3 DEF Decision
<1> QED
  BY <1>1, <1>2, <1>3, InitEstablishes DEF RInv, Service!Init, Init

-----------------------------------------------------------------------------
(* One step for each thing that the service sees.                          *)

LEMMA HeaderAsks ==
  ASSUME RInv, TypeOK', NEW r \in Requests, Header(r)
  PROVE  Service!Ask(r)
<1>1. /\ stage[r] = "connected" /\ code[r] = 0
      /\ \/ stage'[r] = "body" /\ code'[r] = 0
         \/ stage'[r] = "respond" /\ code'[r] = 405
      /\ UNCHANGED <<life, issued>>
  BY DEF Header, Answer, Goto, RInv, IInv, TypeOK, Undecided
<1>2. \A q \in Requests \ {r} :
        stage'[q] = stage[q] /\ code'[q] = code[q] /\ body'[q] = body[q]
  BY OnlyOneMoves DEF RInv, IInv
<1>3. body'[r].token \in Tokens \union {NoToken}
  <2>1. body'[r] \in BodyType
    BY DEF TypeOK
  <2> QED
    BY <2>1 DEF BodyType
<1>4. SubjectMap' = [SubjectMap EXCEPT ![r] = body'[r].token]
  BY <1>2, SubjectOfOne
<1>5. Decision(r) = "idle" /\ Decision(r)' \in {"open", "refused"}
  BY <1>1 DEF Decision
<1>6. StatusMap' = [StatusMap EXCEPT ![r] = Decision(r)']
  BY <1>2, StatusOfOne
<1>7. \E t \in Tokens \union {NoToken} :
        SubjectMap' = [SubjectMap EXCEPT ![r] = t]
  BY <1>3, <1>4
<1>8. \/ StatusMap' = [StatusMap EXCEPT ![r] = "open"]
      \/ StatusMap' = [StatusMap EXCEPT ![r] = "refused"]
  BY <1>5, <1>6
<1>9. StatusMap[r] = "idle"
  BY <1>5 DEF StatusMap
<1> QED
  BY <1>1, <1>7, <1>8, <1>9
     DEF Service!Ask, Service!Decide, StatusMap, SubjectMap

\* An answer with a code other than 200, from a request that is open.
LEMMA Refuses ==
  ASSUME RInv, NEW r \in Requests, stage[r] \in {"body", "lookup"},
         NEW c \in {400, 401}, Answer(r, c), UNCHANGED <<body, life, issued>>
  PROVE  Service!Refuse(r)
<1>1. /\ code[r] = 0 /\ code'[r] = c
      /\ \A q \in Requests \ {r} : stage'[q] = stage[q] /\ code'[q] = code[q]
  BY DEF Answer, Goto, RInv, IInv, TypeOK, Undecided
<1>2. Decision(r) = "open" /\ Decision(r)' = "refused"
  BY <1>1 DEF Decision
<1>3. StatusMap' = [StatusMap EXCEPT ![r] = "refused"]
  BY <1>1, <1>2, StatusOfOne
<1> QED
  BY <1>2, <1>3 DEF Service!Refuse, Service!Decide, StatusMap

\* A success, of a request whose token was alive within the deadline.
LEMMA Grants ==
  ASSUME RInv, NEW r \in Requests, stage[r] \in {"body", "lookup"},
         Answer(r, 200), UNCHANGED <<body, life>>, issued' = issued + 1,
         body[r].token \in Tokens,
         body[r].token.expiring => life[body[r].token] >= -LookupTimeout
  PROVE  Service!Grant(r)
<1>1. /\ code[r] = 0 /\ code'[r] = 200
      /\ \A q \in Requests \ {r} : stage'[q] = stage[q] /\ code'[q] = code[q]
  BY DEF Answer, Goto, RInv, IInv, TypeOK, Undecided
<1>2. Decision(r) = "open" /\ Decision(r)' = "granted"
  BY <1>1 DEF Decision
<1>3. StatusMap' = [StatusMap EXCEPT ![r] = "granted"]
  BY <1>1, <1>2, StatusOfOne
<1> QED
  BY <1>2, <1>3 DEF Service!Grant, Service!Decide, StatusMap

LEMMA ExchangesLocally ==
  ASSUME RInv, NEW r \in Requests, ExchangeLocally(r)
  PROVE  Service!Grant(r) \/ Service!Refuse(r)
<1> DEFINE t == body[r].token
<1>1. PICK a \in Candidates(body[r].hint, t) \ {"opaque"} :
        LET id == LocalExchange(a, t, life[t]) IN
          /\ Answer(r, IF id.ok THEN 200 ELSE 401)
          /\ issued' = IF id.ok THEN issued + 1 ELSE issued
  BY DEF ExchangeLocally
<1>2. /\ stage[r] = "body" /\ t # NoToken /\ UNCHANGED <<body, life>>
  BY DEF ExchangeLocally, InvalidRequest
<1>3. t \in Tokens /\ life[t] \in Int
  BY <1>2, RequestTypes DEF RInv, IInv
<1> DEFINE id == LocalExchange(a, t, life[t])
<1>4. id.ok \in BOOLEAN /\ (id.ok => (t.expiring => life[t] >= 0))
  BY <1>3 DEF LocalExchange, Identity, Refused, JWTAccepts, SAMLAccepts
<1> HIDE DEF id, t
<1>5. CASE id.ok
  <2>1. Answer(r, 200) /\ issued' = issued + 1
    BY <1>1, <1>5 DEF id, t
  <2>2. t.expiring => life[t] >= -LookupTimeout
    BY <1>3, <1>4, <1>5, TimeoutsAssumption
  <2> QED
    BY <1>2, <1>3, <2>1, <2>2, Grants DEF t
<1>6. CASE ~id.ok
  <2>1. Answer(r, 401) /\ issued' = issued
    BY <1>1, <1>6 DEF id, t
  <2> QED
    BY <1>2, <2>1, Refuses
<1> QED
  BY <1>5, <1>6

LEMMA LookupGrants ==
  ASSUME RInv, NEW r \in Requests, Grant(r)
  PROVE  Service!Grant(r)
<1>1. /\ stage[r] = "lookup" /\ reply[r] = "valid" /\ Answer(r, 200)
      /\ UNCHANGED <<body, life>> /\ issued' = issued + 1
  BY DEF Grant
<1>2. body[r].token \in Tokens
  BY <1>1 DEF RInv, IInv, OpaqueAsksStore
<1>3. /\ life[body[r].token] \in Int /\ lookupLeft[r] \in Nat
      /\ life[body[r].token] >= lookupLeft[r] - LookupTimeout
  BY <1>1, <1>2, RequestTypes, TimeoutsAssumption DEF RInv, IInv, ReplyIsRecent
<1> QED
  BY <1>1, <1>2, <1>3, Grants, TimeoutsAssumption

\* Connections that end and a service that ends drop what is undecided.
LEMMA Drops ==
  ASSUME RInv, Exit \/ \E r \in Requests : CloseUnused(r)
  PROVE  Service!Drop
<1> DEFINE lost == {r \in Requests :
                      stage'[r] \in {"closed", "cut"} /\ stage'[r] # stage[r]
                        /\ code[r] = 0}
<1>1. UNCHANGED <<body, life, issued, code>>
  BY DEF Exit, CloseUnused, timers, metrics
<1>2. \A r \in Requests :
        \/ stage'[r] = stage[r]
        \/ /\ stage[r] = "connected" \/ InHandler(r) \/ Answering(r)
           /\ stage'[r] \in {"closed", "cut"}
  BY DEF Exit, CloseUnused, Busy, Goto, RInv, IInv, TypeOK
<1>3. \A r \in Requests : Decision(r)' =
        IF r \in lost THEN "dropped" ELSE Decision(r)
  BY <1>1, <1>2 DEF Decision, InHandler, Answering
<1>4. \A r \in lost : Decision(r) \in {"idle", "open"}
  BY <1>2 DEF Decision, InHandler, Answering
<1> HIDE DEF lost
<1>5. lost \in SUBSET {r \in Requests : StatusMap[r] \in {"idle", "open"}}
  BY <1>4 DEF lost, StatusMap
<1>6. StatusMap' =
        [r \in Requests |-> IF r \in lost THEN "dropped" ELSE StatusMap[r]]
  BY <1>3 DEF StatusMap
<1> QED
  BY <1>1, <1>5, <1>6 DEF Service!Drop, StatusMap, SubjectMap

LEMMA TickAges ==
  ASSUME RInv, TypeOK', Tick PROVE Service!Age
<1>1. UNCHANGED <<stage, body, code, issued>>
  BY DEF Tick, metrics
<1>2. UNCHANGED <<StatusMap, SubjectMap>>
  BY <1>1 DEF StatusMap, SubjectMap, Decision
<1>3. life' \in [Tokens -> Int] /\ \A t \in Tokens : life'[t] <= life[t]
  BY DEF Tick, RInv, IInv, TypeOK
<1> QED
  BY <1>1, <1>2, <1>3 DEF Service!Age, StatusMap, SubjectMap

LEMMA OthersUnseen ==
  ASSUME RInv, NEW r \in Requests,
         Connect(r) \/ StartLookup(r) \/ StoreReplies(r) \/ Count(r)
           \/ Leave(r) \/ Flush(r) \/ Disconnect(r)
  PROVE  UNCHANGED Service!vars
<1>1. UNCHANGED <<body, code, life, issued>>
  BY DEF Connect, StartLookup, StoreReplies, Count, Leave, Flush, Disconnect,
         timers, metrics
<1>2. \A q \in Requests : Decision(q)' = Decision(q)
  <2>1. \A q \in Requests :
          \/ stage'[q] = stage[q]
          \/ stage[q] = "absent" /\ stage'[q] = "connected"
          \/ stage[q] = "body" /\ stage'[q] = "lookup"
          \/ stage[q] \in {"respond", "counted", "left"}
               /\ stage'[q] \in {"counted", "left", "done"}
    BY DEF Connect, StartLookup, StoreReplies, Count, Leave, Flush, Disconnect,
           Goto, RInv, IInv, TypeOK
  <2> QED
    BY <1>1, <2>1 DEF Decision
<1> QED
  BY <1>1, <1>2, Unseen DEF Service!vars, StatusMap, SubjectMap

LEMMA StepImplements ==
  RInv /\ TypeOK' /\ [Next]_vars => [Service!Next]_Service!vars
<1> SUFFICES ASSUME RInv, TypeOK', [Next]_vars
             PROVE  Service!Next \/ UNCHANGED Service!vars
  OBVIOUS
<1>1. CASE Tick
  BY <1>1, TickAges DEF Service!Next
<1>2. CASE Exit \/ \E r \in Requests : CloseUnused(r)
  BY <1>2, Drops DEF Service!Next
<1>3. CASE Signal \/ UNCHANGED vars
  <2>1. UNCHANGED <<stage, body, code, life, issued>>
    BY <1>3 DEF Signal, vars, metrics, timers
  <2> QED
    BY <2>1, Unseen DEF Service!vars, StatusMap, SubjectMap, Decision
<1>4. ASSUME NEW r \in Requests, Header(r) PROVE Service!Next
  BY <1>4, HeaderAsks DEF Service!Next
<1>5. ASSUME NEW r \in Requests, BodyLost(r) \/ Reject(r) \/ LookupFails(r)
      PROVE  Service!Next
  <2>1. /\ stage[r] \in {"body", "lookup"}
        /\ \E c \in {400, 401} : Answer(r, c)
        /\ UNCHANGED <<body, life, issued>>
    BY <1>5 DEF BodyLost, Reject, LookupFails, metrics
  <2> QED
    BY <2>1, Refuses DEF Service!Next
<1>6. ASSUME NEW r \in Requests, ExchangeLocally(r) PROVE Service!Next
  BY <1>6, ExchangesLocally DEF Service!Next
<1>7. ASSUME NEW r \in Requests, Grant(r) PROVE Service!Next
  BY <1>7, LookupGrants DEF Service!Next
<1>8. ASSUME NEW r \in Requests,
             Connect(r) \/ StartLookup(r) \/ StoreReplies(r) \/ Count(r)
               \/ Leave(r) \/ Flush(r) \/ Disconnect(r)
      PROVE  UNCHANGED Service!vars
  BY <1>8, OthersUnseen
<1> QED
  BY <1>1, <1>2, <1>3, <1>4, <1>5, <1>6, <1>7, <1>8 DEF Next

\* TokenExchange implements TokenService.
THEOREM Implements == Spec => ImplementsTokenService
<1>1. Init => RInv /\ Service!Init
  BY Initially
<1>2. RInv /\ [Next]_vars => RInv'
  BY StepPreserves, UndecidedStep DEF RInv
<1>3. RInv /\ RInv' /\ [Next]_vars => [Service!Next]_Service!vars
  BY StepImplements DEF RInv, IInv
<1> QED
  BY <1>1, <1>2, <1>3, PTL DEF Spec, ImplementsTokenService, Service!Spec
=============================================================================
