--------------------------- MODULE TokenExchange ---------------------------
(***************************************************************************)
(* The token exchange service: the HTTP server with its timeouts and its   *)
(* shutdown, the metrics middleware, the exchange handler, the opaque      *)
(* adapter's lookup at the session store, and the store's own check.       *)
(* Each request has a connection of its own and a goroutine.               *)
(*                                                                         *)
(* Time is kept in countdowns, decremented together by Tick.  What is      *)
(* local to a goroutine takes no time, and a timer that has run out fires  *)
(* before time passes again; waiting for bytes of the request and for the  *)
(* store takes as long as the timers allow.                                *)
(***************************************************************************)
EXTENDS TokenAdapters, FiniteSets

CONSTANTS
  Requests,        \* connections, one request on each
  Tokens,          \* subject tokens
  NoToken,         \* the empty subject token
  Bodies,          \* what the requests may ask for: a subset of BodyType
  InitialLife,     \* what may be left of a token's life at the start
  ReadTimeout,     \* http.Server.ReadTimeout, from the accept
  WriteTimeout,    \* http.Server.WriteTimeout, from the end of the header
  LookupTimeout,   \* the handler's context.WithTimeout
  ShutdownTimeout, \* main's context for srv.Shutdown
  NewConnGrace     \* how long Shutdown waits for a connection's first request

\* A request as decoded; method and well-formedness are checked before.
BodyType ==
  [post : BOOLEAN, json : BOOLEAN, exchangeGrant : BOOLEAN,
   token : Tokens \union {NoToken}, hint : TokenTypes \union {""}]

ASSUME TokensAssumption == NoToken \notin Tokens /\ \A t \in Tokens : IsText(t)
ASSUME BodiesAssumption == Bodies \subseteq BodyType
ASSUME LifeAssumption == InitialLife \subseteq Nat
ASSUME TimeoutsAssumption ==
  /\ ReadTimeout \in Nat \ {0}
  /\ WriteTimeout \in Nat \ {0}
  /\ LookupTimeout \in Nat \ {0}
  /\ ShutdownTimeout \in Nat \ {0}
  /\ NewConnGrace \in 1..ReadTimeout
\* main.go:113-114, 130 and handler.go:77: 10 s, 10 s, 10 s and 5 s.
ASSUME TimeoutsOrdered ==
  LookupTimeout < ShutdownTimeout /\ LookupTimeout < WriteTimeout

VARIABLES
  server,      \* "serving", "draining" after the signal, then "exited"
  drainLeft,   \* what is left of the shutdown context's time
  stage,       \* where each request is
  body,        \* what each request asks for
  adapter,     \* statusWriter.adapter
  readLeft,    \* until the connection's read deadline
  writeLeft,   \* until its write deadline; negative when it is past
  lookupLeft,  \* until the deadline of the handler's context
  reply,       \* the session store's answer
  gone,        \* the client has given up
  code,        \* statusWriter.status once it is known, or 0
  delivered,   \* history: the client got the answer
  life,        \* what is left of each token's life; negative once expired
  active,      \* active_requests
  total,       \* requests_total
  issued,      \* tokens_issued_total
  prompt,      \* history: the body was in well before the write deadline
  kept         \* history: the requests whose body was in at the signal

timers  == <<drainLeft, readLeft, writeLeft, lookupLeft, life>>
metrics == <<active, total, issued>>
history == <<delivered, prompt, kept>>
vars == <<server, stage, body, adapter, reply, gone, code, timers, metrics,
          history>>

Stages == {"absent", "connected", "body", "lookup", "respond", "counted",
           "left", "done", "closed", "cut"}

\* The metrics middleware is running, with the handler in it or behind it.
InHandler(r) == stage[r] \in {"body", "lookup", "respond", "counted"}

\* The handler has decided, and the answer is not sent yet.
Answering(r) == stage[r] \in {"respond", "counted", "left"}

Labels == Registered \union {"unknown"}

EmptyBody == [post |-> FALSE, json |-> FALSE, exchangeGrant |-> FALSE,
              token |-> NoToken, hint |-> ""]

TypeOK ==
  /\ server \in {"serving", "draining", "exited"}
  /\ drainLeft \in 0..ShutdownTimeout
  /\ stage \in [Requests -> Stages]
  /\ body \in [Requests -> BodyType]
  /\ adapter \in [Requests -> Labels]
  /\ readLeft \in [Requests -> 0..ReadTimeout]
  /\ writeLeft \in [Requests -> Int]
  /\ lookupLeft \in [Requests -> 0..LookupTimeout]
  /\ reply \in [Requests -> {"none", "valid", "denied"}]
  /\ gone \in [Requests -> BOOLEAN]
  /\ code \in [Requests -> {0, 200, 400, 401, 405}]
  /\ delivered \in [Requests -> BOOLEAN]
  /\ life \in [Tokens -> Int]
  /\ active \in Int
  /\ total \in [Labels \X {"success", "error"} -> Nat]
  /\ issued \in Nat
  /\ prompt \in [Requests -> BOOLEAN]
  /\ kept \in SUBSET Requests

Init ==
  /\ server = "serving"
  /\ drainLeft = 0
  /\ stage = [r \in Requests |-> "absent"]
  /\ body = [r \in Requests |-> EmptyBody]
  /\ adapter = [r \in Requests |-> "unknown"]
  /\ readLeft = [r \in Requests |-> 0]
  /\ writeLeft = [r \in Requests |-> 0]
  /\ lookupLeft = [r \in Requests |-> 0]
  /\ reply = [r \in Requests |-> "none"]
  /\ gone = [r \in Requests |-> FALSE]
  /\ code = [r \in Requests |-> 0]
  /\ delivered = [r \in Requests |-> FALSE]
  /\ life \in [Tokens -> InitialLife]
  /\ active = 0
  /\ total = [l \in Labels \X {"success", "error"} |-> 0]
  /\ issued = 0
  /\ prompt = [r \in Requests |-> FALSE]
  /\ kept = {}

Goto(r, s) == stage' = [stage EXCEPT ![r] = s]

\* The handler has decided, and writes its answer into the buffer.
Answer(r, c) ==
  /\ Goto(r, "respond")
  /\ code' = [code EXCEPT ![r] = c]
  /\ lookupLeft' = [lookupLeft EXCEPT ![r] = 0]

-----------------------------------------------------------------------------
(* The connection, up to the handler's body read.                          *)

Connect(r) ==
  /\ server = "serving"
  /\ stage[r] = "absent"
  /\ Goto(r, "connected")
  /\ readLeft' = [readLeft EXCEPT ![r] = ReadTimeout]
  /\ UNCHANGED <<server, body, adapter, drainLeft, writeLeft, lookupLeft,
                 reply, gone, code, life, metrics, history>>

\* The header is in: the middleware counts the request and runs the handler,
\* which looks at the method before it reads the body.
Header(r) ==
  /\ stage[r] = "connected"
  /\ \E b \in Bodies :
       /\ body' = [body EXCEPT ![r] = b]
       /\ IF b.post THEN /\ Goto(r, "body")
                         /\ UNCHANGED <<code, lookupLeft>>
                    ELSE Answer(r, 405)
  /\ active' = active + 1
  /\ writeLeft' = [writeLeft EXCEPT ![r] = WriteTimeout]
  /\ UNCHANGED <<server, adapter, drainLeft, readLeft, reply, gone, life,
                 total, issued, history>>

\* Variant with a fault: the server is given no ReadTimeout.
ReadExpiredNever(r) == FALSE

ReadExpired(r) == readLeft[r] = 0

\* No header came in time, the client left, or Shutdown took the connection
\* for an idle one.
CloseUnused(r) ==
  /\ stage[r] = "connected"
  /\ \/ ReadExpired(r)
     \/ gone[r]
     \/ server = "draining" /\ ReadTimeout - readLeft[r] >= NewConnGrace
  /\ Goto(r, "closed")
  /\ readLeft' = [readLeft EXCEPT ![r] = 0]
  /\ UNCHANGED <<server, body, adapter, drainLeft, writeLeft, lookupLeft,
                 reply, gone, code, life, metrics, history>>

\* Decode fails on the read deadline or on a connection that is gone.
BodyLost(r) ==
  /\ stage[r] = "body"
  /\ ReadExpired(r) \/ gone[r]
  /\ Answer(r, 400)
  /\ UNCHANGED <<server, body, adapter, drainLeft, readLeft, writeLeft, reply,
                 gone, life, metrics, history>>

-----------------------------------------------------------------------------
(* The handler, once it has the body.                                      *)

InvalidRequest(b) == ~b.json \/ ~b.exchangeGrant \/ b.token = NoToken

\* A check fails, or no adapter is found: no adapter's name reaches the
\* metrics.
Reject(r) ==
  /\ stage[r] = "body"
  /\ \/ InvalidRequest(body[r]) /\ Answer(r, 400)
     \/ /\ ~InvalidRequest(body[r])
        /\ Candidates(body[r].hint, body[r].token) = {}
        /\ Answer(r, 401)
  /\ UNCHANGED <<server, body, adapter, drainLeft, readLeft, writeLeft, reply,
                 gone, life, metrics, history>>

\* Variants with a fault: the adapter's name is not handed to the middleware,
\* or the type that the request asks for is handed on in its place.
UnnamedAdapter(r, a)  == UNCHANGED adapter
RequestedAdapter(r, a) == adapter' = [adapter EXCEPT ![r] = body[r].hint]

SetAdapter(r, a) == adapter' = [adapter EXCEPT ![r] = a]

\* The JWT and the SAML adapter decide on their own.
ExchangeLocally(r) ==
  /\ stage[r] = "body"
  /\ ~InvalidRequest(body[r])
  /\ \E a \in Candidates(body[r].hint, body[r].token) \ {"opaque"} :
       LET id == LocalExchange(a, body[r].token, life[body[r].token]) IN
         /\ SetAdapter(r, a)
         /\ Answer(r, IF id.ok THEN 200 ELSE 401)
         /\ issued' = IF id.ok THEN issued + 1 ELSE issued
  /\ UNCHANGED <<server, body, drainLeft, readLeft, writeLeft, reply, gone,
                 life, active, total, history>>

\* The opaque adapter asks the session store, with the handler's deadline.
StartLookup(r) ==
  /\ stage[r] = "body"
  /\ ~InvalidRequest(body[r])
  /\ "opaque" \in Candidates(body[r].hint, body[r].token)
  /\ SetAdapter(r, "opaque")
  /\ Goto(r, "lookup")
  /\ lookupLeft' = [lookupLeft EXCEPT ![r] = LookupTimeout]
  /\ prompt' = [prompt EXCEPT ![r] = writeLeft[r] > LookupTimeout]
  /\ UNCHANGED <<server, body, drainLeft, readLeft, writeLeft, reply, gone,
                 code, life, metrics, delivered, kept>>

\* The store decides.  It knows the session and its expiry, or denies: the
\* session is unknown, or the store cannot be reached or understood.
StoreReplies(r) ==
  /\ stage[r] = "lookup"
  /\ reply[r] = "none"
  /\ \/ reply' = [reply EXCEPT ![r] = "denied"]
     \/ /\ life[body[r].token] >= 0
        /\ reply' = [reply EXCEPT ![r] = "valid"]
  /\ UNCHANGED <<server, stage, body, adapter, timers, gone, code, metrics,
                 history>>

\* The store's answer has arrived; the token is minted and counted.
Grant(r) ==
  /\ stage[r] = "lookup"
  /\ reply[r] = "valid"
  /\ Answer(r, 200)
  /\ issued' = issued + 1
  /\ UNCHANGED <<server, body, adapter, drainLeft, readLeft, writeLeft, reply,
                 gone, life, active, total, history>>

\* Variants with a fault: the lookup does not take the handler's context, or
\* the handler's deadline is set to the connection's.
LookupExpiredNever(r) == FALSE
LookupExpiredLate(r)  == lookupLeft[r] = 0 /\ writeLeft[r] <= 0

LookupExpired(r) == lookupLeft[r] = 0

\* The lookup is denied, or its context ends: at the handler's deadline, or
\* when the server, reading ahead on the connection, finds that the client has
\* left or that the read deadline is past.  It reads ahead only once the body
\* has come to its end, so that it may find neither.
LookupFails(r) ==
  /\ stage[r] = "lookup"
  /\ reply[r] = "denied" \/ LookupExpired(r) \/ gone[r] \/ ReadExpired(r)
  /\ Answer(r, 401)
  /\ UNCHANGED <<server, body, adapter, drainLeft, readLeft, writeLeft, reply,
                 gone, life, metrics, history>>

Status(c) == IF c >= 400 THEN "error" ELSE "success"

\* Variant with a fault: the gauge goes down when the handler returns, before
\* the request is counted.
CountLate(r) ==
  /\ stage[r] = "respond"
  /\ Goto(r, "counted")
  /\ active' = active - 1
  /\ UNCHANGED <<server, body, adapter, timers, reply, gone, code, total,
                 issued, history>>

\* The handler has returned, and the middleware counts the request.
Count(r) ==
  /\ stage[r] = "respond"
  /\ Goto(r, "counted")
  /\ total' = [total EXCEPT ![<<adapter[r], Status(code[r])>>] = @ + 1]
  /\ UNCHANGED <<server, body, adapter, timers, reply, gone, code, active,
                 issued, history>>

\* The middleware's deferred call.
Leave(r) ==
  /\ stage[r] = "counted"
  /\ Goto(r, "left")
  /\ active' = active - 1
  /\ UNCHANGED <<server, body, adapter, timers, reply, gone, code, total,
                 issued, history>>

\* The server flushes the answer, which fails once the write deadline is past.
\* The connection's deadlines are of no interest from then on.
Flush(r) ==
  /\ stage[r] = "left"
  /\ Goto(r, "done")
  /\ \E sent \in BOOLEAN :
       /\ sent => ~gone[r] /\ writeLeft[r] >= 0
       /\ ~sent => gone[r] \/ writeLeft[r] <= 0
       /\ delivered' = [delivered EXCEPT ![r] = sent]
  /\ readLeft' = [readLeft EXCEPT ![r] = 0]
  /\ writeLeft' = [writeLeft EXCEPT ![r] = 0]
  /\ UNCHANGED <<server, body, adapter, drainLeft, lookupLeft, reply, gone,
                 code, life, metrics, prompt, kept>>

\* The client closes the connection: the SDK's client does after its
\* RequestTimeout, others when they like.
Disconnect(r) ==
  /\ stage[r] = "connected" \/ InHandler(r) \/ Answering(r)
  /\ ~gone[r]
  /\ gone' = [gone EXCEPT ![r] = TRUE]
  /\ UNCHANGED <<server, stage, body, adapter, timers, reply, code, metrics,
                 history>>

-----------------------------------------------------------------------------
(* Shutdown.                                                               *)

Signal ==
  /\ server = "serving"
  /\ server' = "draining"
  /\ drainLeft' = ShutdownTimeout
  /\ kept' = {r \in Requests : stage[r] = "lookup" \/ Answering(r)}
  /\ UNCHANGED <<stage, body, adapter, readLeft, writeLeft, lookupLeft, reply,
                 gone, code, life, metrics, delivered, prompt>>

Busy(r) == stage[r] = "connected" \/ InHandler(r) \/ Answering(r)

\* Variant with a fault: Shutdown is not given any time.
ExitAtOnce == TRUE

MayExit == drainLeft = 0 \/ \A r \in Requests : ~Busy(r)

\* Shutdown returns, all connections being closed or its context done; main
\* returns, and what still runs ends with it.
Exit ==
  /\ server = "draining"
  /\ MayExit
  /\ server' = "exited"
  /\ stage' = [r \in Requests |-> IF Busy(r) THEN "cut" ELSE stage[r]]
  /\ UNCHANGED <<body, adapter, timers, reply, gone, code, metrics, history>>

-----------------------------------------------------------------------------
(* Time.                                                                   *)

Less(n) == IF n > 0 THEN n - 1 ELSE 0

\* A timer of this request is due, or its goroutine has work to do.
Due(r) ==
  \/ stage[r] \in {"connected", "body"} /\ ReadExpired(r)
  \/ stage[r] = "lookup" /\ LookupExpired(r)
  \/ Answering(r)

\* Nothing depends on how long ago a token or a write deadline expired beyond
\* these; the properties below say that neither is reached while it matters.
LifeFloor  == -LookupTimeout - 1
WriteFloor == WriteTimeout - ReadTimeout - LookupTimeout - 1

Tick ==
  /\ server # "exited"
  /\ server = "draining" => drainLeft > 0
  /\ \A r \in Requests : ~Due(r)
  /\ drainLeft' = Less(drainLeft)
  /\ readLeft' = [r \in Requests |->
       IF stage[r] \in {"connected", "body", "lookup"} THEN Less(readLeft[r])
                                                       ELSE readLeft[r]]
  /\ writeLeft' = [r \in Requests |->
       IF InHandler(r) /\ writeLeft[r] > WriteFloor THEN writeLeft[r] - 1
                                                   ELSE writeLeft[r]]
  /\ lookupLeft' = [r \in Requests |-> Less(lookupLeft[r])]
  /\ life' = [t \in Tokens |->
       IF life[t] > LifeFloor THEN life[t] - 1 ELSE life[t]]
  /\ UNCHANGED <<server, stage, body, adapter, reply, gone, code, metrics,
                 history>>

Next ==
  \/ Tick \/ Signal \/ Exit
  \/ \E r \in Requests :
       \/ Connect(r) \/ Header(r) \/ CloseUnused(r) \/ BodyLost(r)
       \/ Reject(r) \/ ExchangeLocally(r) \/ StartLookup(r)
       \/ StoreReplies(r) \/ Grant(r) \/ LookupFails(r)
       \/ Count(r) \/ Leave(r) \/ Flush(r) \/ Disconnect(r)

Spec == Init /\ [][Next]_vars

(***************************************************************************)
(* Fairness.  The clock runs, timers fire, and as long as there are        *)
(* goroutines that can run one of them does.  No client and no store is    *)
(* asked to do anything.                                                   *)
(***************************************************************************)
Expire(r) ==
  \/ CloseUnused(r)
  \/ BodyLost(r)
  \/ LookupExpired(r) /\ LookupFails(r)

Fairness ==
  /\ WF_vars(Tick)
  /\ WF_vars(Exit)
  /\ WF_vars(\E r \in Requests : Expire(r) \/ Count(r) \/ Leave(r) \/ Flush(r))

FairSpec == Spec /\ Fairness

-----------------------------------------------------------------------------
(* Properties.                                                             *)

\* A canonical token is minted on the store's word, which may be old by the
\* time it arrives.  The handler's deadline bounds that age, so that the
\* token outlives its session by no more than the deadline and its own
\* lifetime (handler.go:77, main.go:270, token.go:67-71).
OverhangBounded ==
  \A r \in Requests :
    stage[r] = "respond" /\ code[r] = 200 /\ adapter[r] = "opaque" =>
      Lifetime(SessionIdentity)
        <= life[body[r].token] + LookupTimeout + DefaultTTL

\* A client that stays, and whose request is in long enough before the write
\* deadline, gets its answer however long the store takes: the lookup's
\* deadline leaves the server time to write (handler.go:77, main.go:114).
PromptIsAnswered ==
  \A r \in Requests :
    stage[r] = "done" /\ prompt[r] /\ ~gone[r] => delivered[r]

\* No handler runs on for more than the read and the lookup deadline
\* together, whatever its client and the store do.
HandlerTimeBounded ==
  \A r \in Requests :
    InHandler(r) => writeLeft[r] >= WriteTimeout - ReadTimeout - LookupTimeout

\* The shutdown of a server with requests in flight cuts none whose lookup
\* was under way when the signal came (main.go:130-132, handler.go:77).
KeptRequestsFinish == \A r \in kept : stage[r] # "cut"

\* The successes that the middleware has counted.
Successes ==
  total[<<"jwt", "success">>] + total[<<"saml2", "success">>]
    + total[<<"opaque", "success">>]

\* The collectors are written by different steps of many goroutines, and the
\* process keeps them in these relations between any two of the steps: every
\* token issued is a success that has been counted, under the name of its
\* adapter, or a request that the gauge still holds; and with no request in the
\* middleware the gauge is back at zero, so that the two counters are equal
\* (middleware.go:77-99, handler.go:125, 170).
MetricsAddUp ==
  server # "exited" =>
    /\ Successes <= issued /\ issued <= Successes + active
    /\ total[<<"unknown", "success">>] = 0
    /\ (\A r \in Requests : ~InHandler(r)) => active = 0

\* Every connection comes to an end.
RequestsEnd ==
  \A r \in Requests :
    stage[r] = "connected" ~> stage[r] \in {"done", "closed", "cut"}

\* The service as its clients see it: a request is decided once its code is
\* known.
Decision(r) ==
  IF code[r] = 200 THEN "granted"
  ELSE IF code[r] # 0 THEN "refused"
  ELSE IF stage[r] \in {"closed", "cut"} THEN "dropped"
  ELSE IF stage[r] \in {"absent", "connected"} THEN "idle"
  ELSE "open"

Service == INSTANCE TokenService WITH
  Mortal   <- {t \in Tokens : t.expiring},
  MaxStale <- LookupTimeout,
  status   <- [r \in Requests |-> Decision(r)],
  subject  <- [r \in Requests |-> body[r].token]

\* Through every interleaving of lookups, timers, disconnections and the
\* shutdown, the requests keep to what TokenService promises: no second
\* decision, no grant uncounted or counted twice, and no grant on a verdict
\* older than the lookup's deadline (handler.go:57-187, main.go:111-134).
ImplementsTokenService == Service!Spec

\* Requests with the same token and no type are handed to the same adapter.
SameInputSameAdapter ==
  \A r, q \in Requests :
    /\ body[r] = body[q]
    /\ stage[r] \in {"lookup", "respond"} /\ stage[q] \in {"lookup", "respond"}
    /\ adapter[r] # "unknown" /\ adapter[q] # "unknown"
    => adapter[r] = adapter[q]

\* An assertion whose base64 is also a session id.
Ambiguous(t) == t.base64 /\ t.marker /\ t.word /\ t.size \in 16..256

\* In all other cases the same request is handed to the same adapter, however
\* the registry's map is walked through and whatever becomes of the requests:
\* what the adapters detect overlaps nowhere else (adapter.go:61-68,
\* jwt_adapter.go:46-58, saml_adapter.go:40-47, opaque_adapter.go:35-45).
AdapterIsDetermined ==
  \A r, q \in Requests :
    /\ body[r] = body[q]
    /\ adapter[r] # "unknown" /\ adapter[q] # "unknown"
    /\ body[r].hint # "" \/ ~Ambiguous(body[r].token)
    => adapter[r] = adapter[q]
=============================================================================
