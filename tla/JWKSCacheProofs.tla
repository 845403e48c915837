-------------------------- MODULE JWKSCacheProofs --------------------------
(***************************************************************************)
(* Proofs about JWKSCache, for any callers, key ids, TTL and bounds.       *)
(***************************************************************************)
EXTENDS JWKSCache, TLAPS

\* Only the caller that is fetching holds the lock, and it does hold it.
LockHeldToFetch == \A c \in Callers : pc[c] = "fetch" <=> writer = c

\* No timestamp lies in the future, and a caller has one while it is called.
PastTimes ==
  /\ fetchedAt <= now
  /\ \A i \in DOMAIN docs : docs[i].since <= now
  /\ \A c \in Callers : /\ calledAt[c] <= now
                        /\ pc[c] = "idle" <=> calledAt[c] = NotCalled

\* A request is sent only over an expired snapshot, and what it brings is no
\* older than the snapshot and was still served when the request was sent.
AnswerIsNews ==
  /\ Len(docs) > 0
  /\ \A c \in Callers :
       /\ answer[c] # Pending => pc[c] = "fetch"
       /\ pc[c] = "fetch" => sentAt \in fetchedAt + TTL .. now /\ sentAt \in Nat
       /\ answer[c] \notin {Pending, Failed} =>
            /\ answer[c] \in 1..Len(docs)
            /\ answer[c] >= ver
            /\ answer[c] < Len(docs) =>
                 docs[answer[c] + 1].since >= sentAt

\* The document of the snapshot was still served when the request for it was
\* sent.
SnapshotIsNews == ver \in 1..(Len(docs) - 1) => docs[ver + 1].since >= fetchedAt - took

IInv ==
  /\ TypeOK
  /\ LockHeldToFetch
  /\ PastTimes
  /\ AnswerIsNews
  /\ SnapshotOfOneDocument
  /\ SnapshotIsNews
  /\ FreshWhenUsed

\* What the choice of a key can return.
LEMMA KeyForType ==
  ASSUME NEW h \in Headers, NEW ks \in SUBSET Kids
  PROVE  KeyFor(h, ks) \in Results
<1>1. CASE h # NoKid
  BY <1>1 DEF KeyFor, Results, Headers, KeyOf, Unknown
<1>2. CASE h = NoKid /\ \E k \in ks : ks = {k}
  <2>1. (CHOOSE k \in ks : TRUE) \in Kids
    BY <1>2
  <2> QED BY <1>2, <2>1 DEF KeyFor, Results, Headers, KeyOf
<1>3. CASE h = NoKid /\ ~\E k \in ks : ks = {k}
  BY <1>3 DEF KeyFor, Results, Headers, Missing
<1> QED BY <1>1, <1>2, <1>3

\* The documents published have the type that TypeOK gives them.
LEMMA DocumentType ==
  ASSUME TypeOK
  PROVE  /\ Len(docs) \in Nat
         /\ DOMAIN docs = 1..Len(docs)
         /\ \A i \in 1..Len(docs) : /\ docs[i] \in [kids : Documents, since : Nat]
                                    /\ docs[i].kids \in Documents
                                    /\ docs[i].since \in Nat
<1> DEFINE D == [kids : Documents, since : Nat]
<1>1. docs \in Seq(D)
  BY DEF TypeOK
<1>2. Len(docs) \in Nat /\ DOMAIN docs = 1..Len(docs)
  <2> HIDE DEF D
  <2> QED BY <1>1
<1>3. ASSUME NEW i \in 1..Len(docs) PROVE docs[i] \in D
  <2> HIDE DEF D
  <2> QED BY <1>1, <1>3
<1> QED BY <1>2, <1>3

\* What Append does to a sequence.
LEMMA Appending ==
  ASSUME NEW S, NEW s \in Seq(S), NEW e \in S
  PROVE  /\ Append(s, e) \in Seq(S)
         /\ Len(s) \in Nat /\ Len(Append(s, e)) = Len(s) + 1
         /\ DOMAIN s = 1..Len(s) /\ DOMAIN Append(s, e) = 1..Len(Append(s, e))
         /\ \A i \in 1..Len(s) : Append(s, e)[i] = s[i]
         /\ Append(s, e)[Len(s) + 1] = e
OBVIOUS

LEMMA InitEstablishes == Init => IInv
<1> SUFFICES ASSUME Init PROVE IInv
  OBVIOUS
<1> USE NoCallerAssumption, TTLAssumption, BoundsAssumption, NoKidAssumption
<1>1. PICK d \in Documents : docs = << [kids |-> d, since |-> 0] >>
  BY DEF Init
<1>2. TypeOK
  BY <1>1 DEF Init, TypeOK, Stages, NotCalled, Pending, Failed, Results, None,
              Headers
<1>3. LockHeldToFetch /\ PastTimes /\ FreshWhenUsed
  BY <1>1 DEF Init, LockHeldToFetch, PastTimes, FreshWhenUsed, NotCalled
<1>4. AnswerIsNews /\ SnapshotOfOneDocument /\ SnapshotIsNews
  BY <1>1 DEF Init, AnswerIsNews, SnapshotOfOneDocument, SnapshotIsNews, Pending
<1> QED BY <1>2, <1>3, <1>4 DEF IInv

LEMMA StepPreserves == IInv /\ [Next]_vars => IInv'
<1> SUFFICES ASSUME IInv, [Next]_vars PROVE IInv'
  OBVIOUS
<1> USE NoCallerAssumption, TTLAssumption, BoundsAssumption, NoKidAssumption
<1> USE DEF IInv, NotCalled, Pending, Failed
<1>1. CASE Tick
  <2>1. TypeOK'
    BY <1>1 DEF Tick, TypeOK
  <2>2. LockHeldToFetch' /\ SnapshotOfOneDocument' /\ SnapshotIsNews' /\ FreshWhenUsed'
    BY <1>1 DEF Tick, LockHeldToFetch, SnapshotOfOneDocument, SnapshotIsNews,
                FreshWhenUsed
  <2>3. PastTimes'
    <3>1. /\ now \in Nat /\ now' = now + 1 /\ fetchedAt' = fetchedAt
          /\ docs' = docs /\ calledAt' = calledAt /\ pc' = pc
      BY <1>1 DEF Tick, TypeOK
    <3>2. fetchedAt \in Int /\ \A c \in Callers : calledAt[c] \in Int
      BY DEF TypeOK
    <3>3. \A i \in DOMAIN docs : docs[i].since \in Int
      BY DocumentType DEF TypeOK
    <3>4. PastTimes
      OBVIOUS
    <3> QED BY <3>1, <3>2, <3>3, <3>4 DEF PastTimes
  <2>4. AnswerIsNews'
    BY <1>1 DEF Tick, TypeOK, AnswerIsNews
  <2> QED BY <2>1, <2>2, <2>3, <2>4
<1>2. CASE Publish
  <2>1. PICK d \in Documents : docs' = Append(docs, [kids |-> d, since |-> now])
    BY <1>2 DEF Publish
  <2> DEFINE D == [kids : Documents, since : Nat]
             e == [kids |-> d, since |-> now]
  <2>2. docs \in Seq(D) /\ e \in D /\ docs' = Append(docs, e)
    BY <2>1 DEF TypeOK
  <2>3. /\ docs' \in Seq(D)
        /\ Len(docs') = Len(docs) + 1
        /\ \A i \in 1..Len(docs) : docs'[i] = docs[i]
        /\ docs'[Len(docs) + 1].since = now
        /\ DOMAIN docs' = 1..Len(docs')
        /\ DOMAIN docs = 1..Len(docs)
        /\ Len(docs) \in Nat
    <3>1. e.since = now
      OBVIOUS
    <3> HIDE DEF D, e
    <3> QED BY <2>2, <3>1, Appending
  <2>9. TypeOK'
    <3> HIDE DEF D
    <3>1. docs' \in Seq(D)
      BY <2>3
    <3> QED BY <1>2, <3>1 DEF Publish, TypeOK, D
  <2>4. LockHeldToFetch' /\ FreshWhenUsed'
    BY <1>2 DEF Publish, LockHeldToFetch, FreshWhenUsed
  <2>5. PastTimes'
    BY <1>2, <2>3 DEF Publish, TypeOK, PastTimes
  <2>6. AnswerIsNews'
    <3>1. Len(docs)' > 0
      BY <2>3
    <3>2. ASSUME NEW c \in Callers, answer[c] \notin {Pending, Failed}
          PROVE  /\ answer[c] \in 1..Len(docs')
                 /\ answer[c] < Len(docs') =>
                      docs'[answer[c] + 1].since >= sentAt
      <4> DEFINE i == answer[c]
                 n == Len(docs)
      <4>1. i \in 1..n /\ sentAt <= now
        BY <3>2 DEF AnswerIsNews
      <4>2. n \in Nat /\ now \in Nat /\ Len(docs') = n + 1
        BY <2>3 DEF TypeOK
      <4>3. i = n => docs'[i + 1].since >= sentAt
        BY <4>1, <2>3
      <4>4. i < n => docs'[i + 1].since >= sentAt
        <5> SUFFICES ASSUME i < n PROVE docs'[i + 1].since >= sentAt
          OBVIOUS
        <5>1. docs[i + 1].since >= sentAt
          BY <3>2 DEF AnswerIsNews
        <5> HIDE DEF i, n
        <5>2. i + 1 \in 1..n
          BY <4>1, <4>2
        <5>3. docs'[i + 1] = docs[i + 1]
          BY <5>2, <2>3 DEF n
        <5> QED BY <5>1, <5>3
      <4> HIDE DEF i, n
      <4>5. i \in 1..(n + 1) /\ (i < n + 1 => i = n \/ i < n)
        BY <4>1, <4>2
      <4> QED BY <4>2, <4>3, <4>4, <4>5 DEF i
    <3> QED BY <1>2, <2>3, <3>1, <3>2 DEF Publish, AnswerIsNews, TypeOK
  <2>7. SnapshotOfOneDocument'
    BY <1>2, <2>3 DEF Publish, TypeOK, SnapshotOfOneDocument
  <2>8. SnapshotIsNews'
    BY <1>2, <2>3 DEF Publish, TypeOK, PastTimes, SnapshotIsNews,
                      SnapshotOfOneDocument
  <2> QED BY <2>4, <2>5, <2>6, <2>7, <2>8, <2>9
<1>3. ASSUME NEW c \in Callers, Call(c) PROVE IInv'
  <2>1. TypeOK'
    BY <1>3 DEF Call, Goto, TypeOK, Stages, Results, None, Headers
  <2>2. LockHeldToFetch' /\ SnapshotOfOneDocument' /\ SnapshotIsNews' /\ FreshWhenUsed'
    BY <1>3 DEF Call, Goto, TypeOK, LockHeldToFetch, SnapshotOfOneDocument,
                SnapshotIsNews, FreshWhenUsed
  <2>3. PastTimes' /\ AnswerIsNews'
    BY <1>3 DEF Call, Goto, TypeOK, PastTimes, AnswerIsNews
  <2> QED BY <2>1, <2>2, <2>3
<1>4. ASSUME NEW c \in Callers, Check(c) \/ LockFresh(c) PROVE IInv'
  <2>1. PICK s \in {"keyfunc", "lock"} :
          /\ pc' = [pc EXCEPT ![c] = s]
          /\ s = "keyfunc" => Fresh
    BY <1>4 DEF Check, LockFresh, Goto, Fresh
  <2>2. /\ pc[c] \in {"check", "lock"}
        /\ UNCHANGED <<now, docs, keys, fetchedAt, ver, sentAt, took, writer,
                       calledAt, header, answer, result>>
    BY <1>4 DEF Check, LockFresh
  <2>3. TypeOK'
    BY <2>1, <2>2 DEF TypeOK, Stages
  <2>4. LockHeldToFetch' /\ SnapshotOfOneDocument' /\ SnapshotIsNews'
    BY <2>1, <2>2 DEF TypeOK, LockHeldToFetch, SnapshotOfOneDocument, SnapshotIsNews
  <2>5. FreshWhenUsed'
    BY <2>1, <2>2 DEF TypeOK, FreshWhenUsed, PastTimes, Fresh
  <2>6. PastTimes' /\ AnswerIsNews'
    BY <2>1, <2>2 DEF TypeOK, PastTimes, AnswerIsNews
  <2> QED BY <2>3, <2>4, <2>5, <2>6
<1>5. ASSUME NEW c \in Callers, LockFetch(c) PROVE IInv'
  <2>1. TypeOK'
    BY <1>5 DEF LockFetch, Goto, TypeOK, Stages
  <2>2. LockHeldToFetch'
    BY <1>5 DEF LockFetch, CanLock, Goto, TypeOK, LockHeldToFetch
  <2>3. SnapshotOfOneDocument' /\ SnapshotIsNews' /\ FreshWhenUsed'
    BY <1>5 DEF LockFetch, Goto, TypeOK, SnapshotOfOneDocument, SnapshotIsNews,
                FreshWhenUsed
  <2>4. PastTimes' /\ AnswerIsNews'
    BY <1>5 DEF LockFetch, CanLock, StillStale, Fresh, Goto, TypeOK, PastTimes,
                AnswerIsNews, LockHeldToFetch
  <2> QED BY <2>1, <2>2, <2>3, <2>4
<1>6. ASSUME NEW c \in Callers, Answer(c) PROVE IInv'
  <2>1. PICK a \in {Len(docs), Failed} : answer' = [answer EXCEPT ![c] = a]
    BY <1>6 DEF Answer
  <2>2. Len(docs) \in Nat /\ Len(docs) > 0
    BY DEF TypeOK, AnswerIsNews
  <2>3. TypeOK'
    BY <1>6, <2>1, <2>2 DEF Answer, TypeOK
  <2>4. /\ LockHeldToFetch' /\ SnapshotOfOneDocument' /\ SnapshotIsNews'
        /\ FreshWhenUsed' /\ PastTimes'
    BY <1>6 DEF Answer, LockHeldToFetch, SnapshotOfOneDocument, SnapshotIsNews,
                FreshWhenUsed, PastTimes
  <2>5. AnswerIsNews'
    BY <1>6, <2>1, <2>2 DEF Answer, TypeOK, AnswerIsNews, SnapshotOfOneDocument
  <2> QED BY <2>3, <2>4, <2>5
<1>7. ASSUME NEW c \in Callers, Install(c) PROVE IInv'
  <2>1. /\ answer[c] \in 1..Len(docs) /\ docs[answer[c]] \in [kids : Documents, since : Nat]
        /\ docs[answer[c]].since <= now
        /\ sentAt \in fetchedAt + TTL .. now /\ sentAt \in Nat
        /\ answer[c] < Len(docs) => docs[answer[c] + 1].since >= sentAt
        /\ pc[c] = "fetch"
    BY <1>7, DocumentType DEF Install, AnswerIsNews, PastTimes
  <2>2. NewKeys(c) \in SUBSET Kids
    BY <2>1 DEF NewKeys, Usable, Documents
  <2>3. TypeOK'
    BY <1>7, <2>1, <2>2 DEF Install, Goto, TypeOK, Stages
  <2>4. LockHeldToFetch'
    BY <1>7 DEF Install, Goto, TypeOK, LockHeldToFetch
  <2>5. SnapshotOfOneDocument'
    BY <1>7, <2>1 DEF Install, NewKeys, TypeOK, SnapshotOfOneDocument
  <2>6. FreshWhenUsed'
    BY <1>7, <2>1 DEF Install, Goto, TypeOK, FreshWhenUsed, PastTimes
  <2>7. PastTimes'
    BY <1>7, <2>1 DEF Install, Goto, TypeOK, PastTimes
  <2>8. ASSUME NEW d \in Callers, d # c
        PROVE  pc[d] # "fetch" /\ answer[d] = Pending
    BY <1>7, <2>8 DEF Install, AnswerIsNews, LockHeldToFetch
  <2>9. AnswerIsNews'
    BY <1>7, <2>1, <2>8 DEF Install, Goto, TypeOK, AnswerIsNews
  <2>10. SnapshotIsNews'
    BY <1>7, <2>1, DocumentType DEF Install, TypeOK, SnapshotIsNews
  <2> QED BY <2>3, <2>4, <2>5, <2>6, <2>7, <2>9, <2>10
<1>8. ASSUME NEW c \in Callers, FetchFailed(c) PROVE IInv'
  <2>1. TypeOK'
    BY <1>8 DEF FetchFailed, Return, Goto, TypeOK, Stages, Results, NoKeySet,
                Headers
  <2>2. LockHeldToFetch'
    BY <1>8 DEF FetchFailed, Return, Goto, TypeOK, LockHeldToFetch
  <2>3. SnapshotOfOneDocument' /\ SnapshotIsNews' /\ FreshWhenUsed'
    BY <1>8 DEF FetchFailed, Return, Goto, TypeOK, SnapshotOfOneDocument,
                SnapshotIsNews, FreshWhenUsed
  <2>4. PastTimes'
    BY <1>8 DEF FetchFailed, Return, Goto, TypeOK, PastTimes
  <2>5. ASSUME NEW d \in Callers, d # c
        PROVE  pc[d] # "fetch" /\ answer[d] = Pending
    BY <1>8, <2>5 DEF FetchFailed, AnswerIsNews, LockHeldToFetch
  <2>6. AnswerIsNews'
    BY <1>8, <2>5 DEF FetchFailed, Return, Goto, TypeOK, AnswerIsNews
  <2> QED BY <2>1, <2>2, <2>3, <2>4, <2>6
<1>9. ASSUME NEW c \in Callers, KeyFunc(c) PROVE IInv'
  <2>1. KeyFor(header[c], keys) \in Results
    BY KeyForType DEF TypeOK
  <2>2. TypeOK'
    BY <1>9, <2>1 DEF KeyFunc, Return, Goto, TypeOK, Stages, Headers
  <2>3. LockHeldToFetch' /\ SnapshotOfOneDocument' /\ SnapshotIsNews' /\ FreshWhenUsed'
    BY <1>9 DEF KeyFunc, Return, Goto, TypeOK, LockHeldToFetch,
                SnapshotOfOneDocument, SnapshotIsNews, FreshWhenUsed
  <2>4. PastTimes' /\ AnswerIsNews'
    BY <1>9 DEF KeyFunc, Return, Goto, TypeOK, PastTimes, AnswerIsNews
  <2> QED BY <2>2, <2>3, <2>4
<1>10. CASE UNCHANGED vars
  BY <1>10 DEF vars, TypeOK, LockHeldToFetch, PastTimes, AnswerIsNews,
               SnapshotOfOneDocument, SnapshotIsNews, FreshWhenUsed
<1> QED
  BY <1>1, <1>2, <1>3, <1>4, <1>5, <1>6, <1>7, <1>8, <1>9, <1>10 DEF Next

-----------------------------------------------------------------------------
(* The invariants of JWKSCache.                                            *)

\* The strengthened invariant holds in every reachable state.
THEOREM Invariance == Spec => []IInv
BY InitEstablishes, StepPreserves, PTL DEF Spec

\* Every variable keeps its type (jwks.go:13-19 and the local state of a call).
THEOREM TypeCorrect == Spec => []TypeOK
<1>1. IInv => TypeOK
  BY DEF IInv
<1> QED BY <1>1, Invariance, PTL

\* The cached keys are always those of exactly one published document
\* (fetch, jwks.go:95-106), whatever fetches, failures and publications
\* interleave.
THEOREM SnapshotCorrect == Spec => []SnapshotOfOneDocument
<1>1. IInv => SnapshotOfOneDocument
  BY DEF IInv
<1> QED BY <1>1, Invariance, PTL

\* No caller picks a key from a snapshot that had expired before its call
\* (refreshIfStale, jwks.go:56-73, and the closure, jwks.go:34-53).
THEOREM FreshnessCorrect == Spec => []FreshWhenUsed
<1>1. IInv => FreshWhenUsed
  BY DEF IInv
<1> QED BY <1>1, Invariance, PTL

\* A withdrawn key is used no longer than a TTL and the duration of its fetch
\* (the checks, jwks.go:57-70, and the installation, jwks.go:105-106), for any
\* callers and documents, however long a fetch takes.
THEOREM WithdrawnForgotten == Spec => []WithdrawnIsForgotten
<1>1. ASSUME IInv, NEW c \in Callers, NEW k \in keys, pc[c] = "keyfunc"
      PROVE  /\ ver \in DOMAIN docs
             /\ k \in Usable(docs[ver].kids)
             /\ ver = Len(docs) \/ docs[ver + 1].since >= calledAt[c] - TTL - took
  <2>1. /\ Len(docs) \in Nat /\ DOMAIN docs = 1..Len(docs)
        /\ \A i \in 1..Len(docs) : docs[i].since \in Nat
    BY <1>1, DocumentType DEF IInv
  <2>2. ver \in 1..Len(docs) /\ k \in Usable(docs[ver].kids)
    BY <1>1, <2>1 DEF IInv, TypeOK, SnapshotOfOneDocument
  <2>3. ASSUME ver # Len(docs)
        PROVE  docs[ver + 1].since >= calledAt[c] - TTL - took
    <3> DEFINE next == ver + 1
    <3>1. ver \in 1..(Len(docs) - 1) /\ next \in 1..Len(docs)
      <4>1. \A n \in Nat : ver \in 1..n /\ ver # n => ver \in 1..(n - 1) /\ next \in 1..n
        OBVIOUS
      <4> QED BY <2>1, <2>2, <2>3, <4>1
    <3>2. docs[next].since \in Nat
      <4> HIDE DEF next
      <4> QED BY <2>1, <3>1
    <3>3. docs[next].since >= fetchedAt - took
      BY <1>1, <3>1 DEF IInv, SnapshotIsNews
    <3>4. /\ fetchedAt >= calledAt[c] - TTL
          /\ fetchedAt \in Int /\ took \in Int /\ calledAt[c] \in Int
      BY <1>1, TTLAssumption DEF IInv, TypeOK, FreshWhenUsed, NotCalled
    <3> HIDE DEF next
    <3>5. docs[next].since >= calledAt[c] - TTL - took
      BY <3>2, <3>3, <3>4, TTLAssumption
    <3> QED BY <3>5 DEF next
  <2> QED BY <2>1, <2>2, <2>3
<1>2. IInv => WithdrawnIsForgotten
  BY <1>1 DEF WithdrawnIsForgotten
<1> QED BY <1>2, Invariance, PTL

\* What an installation knows about the answer it installs.
LEMMA InstallFacts ==
  ASSUME IInv, NEW c \in Callers, Install(c)
  PROVE  /\ answer[c] \in 1..Len(docs)
         /\ answer[c] >= ver
         /\ answer[c] < Len(docs) =>
              docs[answer[c] + 1].since >= fetchedAt + TTL
         /\ now - fetchedAt >= TTL
         /\ ver' = answer[c] /\ fetchedAt' = now
<1>1. /\ answer[c] \in 1..Len(docs)
      /\ answer[c] >= ver
      /\ sentAt \in fetchedAt + TTL .. now
      /\ answer[c] < Len(docs) => docs[answer[c] + 1].since >= sentAt
      /\ ver' = answer[c] /\ fetchedAt' = now
  BY DEF IInv, AnswerIsNews, Install, Pending, Failed
<1>2. /\ fetchedAt \in Int /\ now \in Int /\ TTL \in Int
      /\ answer[c] < Len(docs) => docs[answer[c] + 1].since \in Int
  BY <1>1, DocumentType, TTLAssumption DEF IInv, TypeOK
<1> QED BY <1>1, <1>2

\* Of all steps, only an installation changes the snapshot.
LEMMA OnlyInstallRefreshes ==
  ASSUME [Next]_vars, ~ \E c \in Callers : Install(c)
  PROVE  UNCHANGED <<keys, ver, fetchedAt>>
BY DEF Next, vars, Tick, Publish, Call, Check, LockFresh, LockFetch, Answer,
       FetchFailed, KeyFunc

\* A refresh never brings back a document older than the one it replaces
\* (the write lock is held across fetch, jwks.go:65-72).
THEOREM Monotone == Spec => NeverGoesBack
<1>1. ASSUME IInv, [Next]_vars PROVE ver' >= ver
  <2>1. CASE \E c \in Callers : Install(c)
    BY <1>1, <2>1, InstallFacts
  <2>2. CASE ~ \E c \in Callers : Install(c)
    BY <1>1, <2>2, OnlyInstallRefreshes DEF IInv, TypeOK
  <2> QED BY <2>1, <2>2
<1>2. ASSUME IInv, [Next]_vars PROVE [ver' >= ver]_vars
  BY <1>1, <1>2
<1> QED BY <1>2, Invariance, PTL DEF Spec, NeverGoesBack

\* Successful fetches are at least a TTL apart, however many callers find
\* the snapshot stale (the second check, jwks.go:68).
THEOREM Spaced == Spec => FetchesSpaced
<1>1. ASSUME IInv, [Next]_vars
      PROVE  [ver' # ver \/ fetchedAt' # fetchedAt
                => fetchedAt' - fetchedAt >= TTL]_vars
  <2>1. CASE \E c \in Callers : Install(c)
    BY <1>1, <2>1, InstallFacts
  <2>2. CASE ~ \E c \in Callers : Install(c)
    BY <1>1, <2>2, OnlyInstallRefreshes
  <2> QED BY <2>1, <2>2
<1> QED BY <1>1, Invariance, PTL DEF Spec, FetchesSpaced

\* Both, for every behaviour of the endpoint (jwks.go:65-72, 105-106).
THEOREM InOrder == Spec => RefreshesInOrder
BY Monotone, Spaced DEF RefreshesInOrder

-----------------------------------------------------------------------------
(* JWKSCache implements KeySetCache.                                       *)

\* The instance has its own copies of the operators of KeySet.
LEMMA SameOperators ==
  /\ Abstract!Documents = Documents
  /\ Abstract!Headers = Headers
  /\ Abstract!None = None
  /\ Abstract!NoKeySet = NoKeySet
  /\ \A d : Abstract!Usable(d) = Usable(d)
  /\ \A h, ks : Abstract!KeyFor(h, ks) = KeyFor(h, ks)
<1>1. \A h, ks : Abstract!KeyFor(h, ks) = KeyFor(h, ks)
  BY DEF Abstract!KeyFor, KeyFor, Abstract!KeyOf, KeyOf, Abstract!Unknown,
         Unknown, Abstract!Missing, Missing
<1> QED BY <1>1 DEF Abstract!Documents, Documents, Abstract!Headers, Headers,
        Abstract!None, None, Abstract!NoKeySet, NoKeySet, Abstract!Usable,
        Usable

LEMMA InitImplements == Init => Abstract!Init
BY SameOperators DEF Init, Abstract!Init, NotCalled, Abstract!Idle

LEMMA StepImplements ==
  ASSUME IInv, [Next]_vars
  PROVE  [Abstract!Next]_(Abstract!cacheVars)
<1> USE DEF Abstract!Next, Abstract!cacheVars, NotCalled, Abstract!Idle
<1>1. CASE Tick
  BY <1>1 DEF Tick, Abstract!Tick
<1>2. CASE Publish
  BY <1>2, SameOperators DEF Publish, Abstract!Publish
<1>3. ASSUME NEW c \in Callers, Call(c)
      PROVE  Abstract!Ask(c)
  BY <1>3, SameOperators DEF Call, Abstract!Ask, IInv, PastTimes
<1>4. ASSUME NEW c \in Callers,
             Check(c) \/ LockFresh(c) \/ LockFetch(c) \/ Answer(c)
      PROVE  UNCHANGED Abstract!cacheVars
  BY <1>4 DEF Check, LockFresh, LockFetch, Answer
<1>5. ASSUME NEW c \in Callers, Install(c)
      PROVE  Abstract!Refresh
  BY <1>5, InstallFacts, SameOperators
     DEF Install, NewKeys, Abstract!Refresh, Abstract!ServedSince
<1>6. ASSUME NEW c \in Callers, FetchFailed(c)
      PROVE  Abstract!Refuse(c)
  <2>1. now - fetchedAt >= TTL
    BY <1>6, TTLAssumption DEF FetchFailed, IInv, TypeOK, AnswerIsNews
  <2> QED BY <1>6, <2>1, SameOperators
         DEF FetchFailed, Return, Abstract!Refuse, IInv, PastTimes
<1>7. ASSUME NEW c \in Callers, KeyFunc(c)
      PROVE  Abstract!Reply(c)
  BY <1>7, SameOperators DEF KeyFunc, Return, Abstract!Reply, IInv, PastTimes, FreshWhenUsed
<1>8. CASE UNCHANGED vars
  BY <1>8 DEF vars
<1> QED BY <1>1, <1>2, <1>3, <1>4, <1>5, <1>6, <1>7, <1>8 DEF Next

\* The cache with its lock, its double check and its fetch is an
\* implementation of the cache that replaces its snapshot in one step.
THEOREM Refinement == Spec => ImplementsKeySetCache
BY Invariance, InitImplements, StepImplements, PTL
   DEF Spec, ImplementsKeySetCache, Abstract!Spec
=============================================================================
