----------------------------- MODULE JWKSCache -----------------------------
(***************************************************************************)
(* The SDK's JWKS cache, sdk/go/jwks.go: concurrent ValidateToken calls    *)
(* share one snapshot of the issuer's key document behind a RWMutex.  The  *)
(* freshness check is made under the read lock, repeated under the write   *)
(* lock, and the HTTP fetch runs with the write lock held; the key itself  *)
(* is looked up later, by a closure that takes the read lock again.        *)
(* A read-locked section makes no call that can block, so each is one step *)
(* that needs only that no writer holds the lock.                          *)
(* The endpoint is the environment: it may publish a new document at any   *)
(* moment, and answers a request with the document it then serves or fails *)
(* it (connection error, status other than 200, unreadable body).          *)
(***************************************************************************)
EXTENDS KeySet

CONSTANTS
  Callers,   \* goroutines that call ValidateToken
  NoCaller,  \* nobody holds the write lock
  TTL,       \* Config.CacheTTL
  MaxTime,   \* bound on the clock
  MaxDocs    \* bound on the number of documents published

ASSUME NoCallerAssumption == NoCaller \notin Callers
ASSUME TTLAssumption == TTL \in Nat
ASSUME BoundsAssumption == MaxTime \in Nat /\ MaxDocs \in Nat

VARIABLES
  now,       \* the clock
  docs,      \* docs[i] = [kids, since]: what the endpoint has served, in order
  keys,      \* c.keys
  fetchedAt, \* c.fetchedAt
  ver,       \* history: the index in docs of the snapshot in keys; 0: none
  sentAt,    \* history: when the request under way was sent, or NotCalled
  took,      \* history: how long the fetch of the snapshot took
  writer,    \* who holds c.mu for writing
  pc,        \* where each caller is in its call
  calledAt,  \* history: when the pending call was made, or NotCalled
  header,    \* the kid of the token under validation, NoKid when there is none
  answer,    \* the endpoint's answer to the caller's request
  result     \* what the caller's latest call returned

vars == <<now, docs, keys, fetchedAt, ver, sentAt, took, writer, pc,
          calledAt, header, answer, result>>

NotCalled == -1
Pending   == 0     \* the request is out
Failed    == -1    \* it failed; any other answer is an index in docs

Stages == {"idle", "check", "lock", "fetch", "keyfunc"}

TypeOK ==
  /\ now \in Nat
  /\ docs \in Seq([kids : Documents, since : Nat])
  /\ keys \in SUBSET Kids
  /\ fetchedAt \in Int
  /\ ver \in Nat
  /\ sentAt \in Nat \union {NotCalled}
  /\ took \in Nat
  /\ writer \in Callers \union {NoCaller}
  /\ pc \in [Callers -> Stages]
  /\ calledAt \in [Callers -> Nat \union {NotCalled}]
  /\ header \in [Callers -> Headers]
  /\ answer \in [Callers -> Nat \union {Failed}]
  /\ result \in [Callers -> Results]

\* newJWKSCache: an empty map and the zero time, which no clock is near.
Init ==
  /\ now = 0
  /\ \E d \in Documents : docs = << [kids |-> d, since |-> 0] >>
  /\ keys = {}
  /\ fetchedAt = -TTL
  /\ ver = 0
  /\ sentAt = NotCalled
  /\ took = 0
  /\ writer = NoCaller
  /\ pc = [c \in Callers |-> "idle"]
  /\ calledAt = [c \in Callers |-> NotCalled]
  /\ header = [c \in Callers |-> NoKid]
  /\ answer = [c \in Callers |-> Pending]
  /\ result = [c \in Callers |-> None]

-----------------------------------------------------------------------------
(* The environment.                                                        *)

Tick ==
  /\ now < MaxTime
  /\ now' = now + 1
  /\ UNCHANGED <<docs, keys, fetchedAt, ver, sentAt, took, writer, pc,
                 calledAt, header, answer, result>>

Publish ==
  /\ Len(docs) < MaxDocs
  /\ \E d \in Documents : docs' = Append(docs, [kids |-> d, since |-> now])
  /\ UNCHANGED <<now, keys, fetchedAt, ver, sentAt, took, writer, pc,
                 calledAt, header, answer, result>>

Answer(c) ==
  /\ pc[c] = "fetch"
  /\ answer[c] = Pending
  /\ answer' \in { [answer EXCEPT ![c] = Len(docs)],
                   [answer EXCEPT ![c] = Failed] }
  /\ UNCHANGED <<now, docs, keys, fetchedAt, ver, sentAt, took, writer, pc,
                 calledAt, header, result>>

-----------------------------------------------------------------------------
(* One call of ValidateToken, up to the key its token is verified with.    *)

Goto(c, stage) == pc' = [pc EXCEPT ![c] = stage]

Return(c, r) ==
  /\ Goto(c, "idle")
  /\ calledAt' = [calledAt EXCEPT ![c] = NotCalled]
  /\ header' = [header EXCEPT ![c] = NoKid]
  /\ result' = [result EXCEPT ![c] = r]

Fresh == now - fetchedAt < TTL

\* Variants with a fault: a fetch needs no lock, or repeats no check.
LockNotTaken == TRUE
NotRechecked == TRUE

CanLock    == writer = NoCaller
StillStale == ~Fresh

Call(c) ==
  /\ pc[c] = "idle"
  /\ Goto(c, "check")
  /\ calledAt' = [calledAt EXCEPT ![c] = now]
  /\ \E h \in Headers : header' = [header EXCEPT ![c] = h]
  /\ result' = [result EXCEPT ![c] = None]
  /\ UNCHANGED <<now, docs, keys, fetchedAt, ver, sentAt, took, writer,
                 answer>>

\* The freshness check under the read lock.
Check(c) ==
  /\ pc[c] = "check"
  /\ writer = NoCaller
  /\ Goto(c, IF Fresh THEN "keyfunc" ELSE "lock")
  /\ UNCHANGED <<now, docs, keys, fetchedAt, ver, sentAt, took, writer,
                 calledAt, header, answer, result>>

\* The second check finds that another caller has refreshed the snapshot.
LockFresh(c) ==
  /\ pc[c] = "lock"
  /\ CanLock
  /\ Fresh
  /\ Goto(c, "keyfunc")
  /\ UNCHANGED <<now, docs, keys, fetchedAt, ver, sentAt, took, writer,
                 calledAt, header, answer, result>>

\* The second check finds the snapshot still stale: the request goes out.
LockFetch(c) ==
  /\ pc[c] = "lock"
  /\ CanLock
  /\ StillStale
  /\ writer' = c
  /\ sentAt' = now
  /\ Goto(c, "fetch")
  /\ UNCHANGED <<now, docs, keys, fetchedAt, ver, took, calledAt, header,
                 answer, result>>

\* Variant with a fault: new keys are added to the old ones.
MergedKeys(c) == keys \union Usable(docs[answer[c]].kids)

NewKeys(c) == Usable(docs[answer[c]].kids)

\* The document replaces the snapshot, and the deferred Unlock runs.
Install(c) ==
  /\ pc[c] = "fetch"
  /\ answer[c] \notin {Pending, Failed}
  /\ keys' = NewKeys(c)
  /\ ver' = answer[c]
  /\ fetchedAt' = now
  /\ sentAt' = NotCalled
  /\ took' = now - sentAt
  /\ writer' = NoCaller
  /\ answer' = [answer EXCEPT ![c] = Pending]
  /\ Goto(c, "keyfunc")
  /\ UNCHANGED <<now, docs, calledAt, header, result>>

\* Variants with a fault: after a failure the old keys are used, the next
\* attempt is put off for a TTL, or the request is repeated until it succeeds.
FetchFailedServeStale(c) ==
  /\ pc[c] = "fetch"
  /\ answer[c] = Failed
  /\ sentAt' = NotCalled
  /\ writer' = NoCaller
  /\ answer' = [answer EXCEPT ![c] = Pending]
  /\ Goto(c, "keyfunc")
  /\ UNCHANGED <<now, docs, keys, fetchedAt, ver, took, calledAt, header,
                 result>>

FetchFailedBackOff(c) ==
  /\ pc[c] = "fetch"
  /\ answer[c] = Failed
  /\ fetchedAt' = now
  /\ sentAt' = NotCalled
  /\ writer' = NoCaller
  /\ answer' = [answer EXCEPT ![c] = Pending]
  /\ Return(c, NoKeySet)
  /\ UNCHANGED <<now, docs, keys, ver, took>>

FetchFailedRetry(c) ==
  /\ pc[c] = "fetch"
  /\ answer[c] = Failed
  /\ answer' = [answer EXCEPT ![c] = Pending]
  /\ UNCHANGED <<now, docs, keys, fetchedAt, ver, sentAt, took, writer, pc,
                 calledAt, header, result>>

\* The error goes to the caller; the snapshot stays, and stays stale.
FetchFailed(c) ==
  /\ pc[c] = "fetch"
  /\ answer[c] = Failed
  /\ sentAt' = NotCalled
  /\ writer' = NoCaller
  /\ answer' = [answer EXCEPT ![c] = Pending]
  /\ Return(c, NoKeySet)
  /\ UNCHANGED <<now, docs, keys, fetchedAt, ver, took>>

\* The parser calls the closure, which reads whatever snapshot is there now.
KeyFunc(c) ==
  /\ pc[c] = "keyfunc"
  /\ writer = NoCaller
  /\ Return(c, KeyFor(header[c], keys))
  /\ UNCHANGED <<now, docs, keys, fetchedAt, ver, sentAt, took, writer,
                 answer>>

Next ==
  \/ Tick
  \/ Publish
  \/ \E c \in Callers :
       \/ Call(c) \/ Check(c) \/ LockFresh(c) \/ LockFetch(c)
       \/ Answer(c) \/ Install(c) \/ FetchFailed(c) \/ KeyFunc(c)

Spec == Init /\ [][Next]_vars

(***************************************************************************)
(* Fairness.  A goroutine that can run runs.  sync.RWMutex lets a blocked  *)
(* reader in after the writer it waited for, and hands the lock to waiting *)
(* writers in turn: a caller that keeps finding the lock free gets it in   *)
(* the end, which is strong fairness.                                      *)
(***************************************************************************)
Run(c) ==
  \/ Check(c) \/ LockFresh(c) \/ LockFetch(c)
  \/ Install(c) \/ FetchFailed(c) \/ KeyFunc(c)

SchedulerFairness == \A c \in Callers : SF_vars(Run(c))

\* The endpoint, or the network in front of it, answers every request.
EndpointFairness == \A c \in Callers : WF_vars(Answer(c))

FairSpec == Spec /\ SchedulerFairness /\ EndpointFairness

\* The fairness the code itself provides for: http.Get has no timeout.
SilentEndpointSpec == Spec /\ SchedulerFairness

-----------------------------------------------------------------------------
(* Properties.                                                             *)

\* The snapshot is never a mix of documents, nor one from the future: it is
\* exactly the usable part of one document that had been published by the
\* time it was installed (fetch replaces c.keys as a whole, jwks.go:95-106).
SnapshotOfOneDocument ==
  /\ ver = 0 => keys = {}
  /\ ver > 0 => /\ ver <= Len(docs)
                /\ keys = Usable(docs[ver].kids)
                /\ docs[ver].since <= fetchedAt

\* A caller about to pick its key does so from a snapshot that was fresh
\* when it made its call or was fetched since, although the check and the
\* pick are separate lock sections (jwks.go:35, 57-72): a failed refresh
\* never falls back on expired keys.
FreshWhenUsed ==
  \A c \in Callers :
    pc[c] = "keyfunc" => \/ calledAt[c] - fetchedAt < TTL
                         \/ calledAt[c] <= fetchedAt

\* A key that the issuer has withdrawn is not used for longer than a TTL and
\* the time that the fetch took: for every key a caller can pick, a document
\* with it was the latest one at most that long before the call.  The age of
\* a snapshot counts from its installation, not from the request, and the
\* fetch has no bound of its own (jwks.go:68-72, 80, 95-106).
WithdrawnIsForgotten ==
  \A c \in Callers, k \in keys :
    pc[c] = "keyfunc" =>
      \E i \in DOMAIN docs :
        /\ k \in Usable(docs[i].kids)
        /\ i = Len(docs) \/ docs[i + 1].since >= calledAt[c] - TTL - took

\* Refreshes never overtake one another: the snapshot never goes back to a
\* document older than the one it has replaced (the fetch holds the write
\* lock from request to installation, jwks.go:65-72).
NeverGoesBack == [][ver' >= ver]_vars

\* However many callers find the snapshot stale at once, one of them fetches
\* and the others use what it brought: installations are a TTL apart
\* (the second check, jwks.go:68).
FetchesSpaced == [][ver' # ver \/ fetchedAt' # fetchedAt
                      => fetchedAt' - fetchedAt >= TTL]_vars

\* Refreshes follow one another in the order of the documents, with a TTL
\* between them.
RefreshesInOrder == NeverGoesBack /\ FetchesSpaced

\* The cache with its lock and its fetch implements the cache that changes
\* its snapshot in one step.
Abstract == INSTANCE KeySetCache WITH askedAt <- calledAt

ImplementsKeySetCache == Abstract!Spec

\* Every call returns.
CallsReturn ==
  \A c \in Callers : pc[c] = "check" ~> pc[c] = "idle"
=============================================================================
