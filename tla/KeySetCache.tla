---------------------------- MODULE KeySetCache ----------------------------
(***************************************************************************)
(* What the SDK's key cache promises, without its lock, its HTTP call or   *)
(* its double check.  An endpoint publishes one key document after         *)
(* another.  The cache holds a snapshot of one of them, replaced in one    *)
(* step and only when it has outlived its TTL, always by a document that   *)
(* is no older than the last one and that the endpoint was still serving   *)
(* when the old snapshot expired.  A call is answered from a snapshot that *)
(* was fresh when the call was made, or fetched since; it is refused for   *)
(* want of keys only while the snapshot is expired.                        *)
(***************************************************************************)
EXTENDS KeySet

CONSTANTS
  Callers,   \* goroutines that validate tokens
  TTL,       \* how long a snapshot counts as fresh
  MaxTime,   \* bound on the clock
  MaxDocs    \* bound on the number of documents published

VARIABLES
  now,       \* the clock
  docs,      \* docs[i] = [kids, since]: the i-th document and when it appeared
  ver,       \* which document the snapshot was taken from; 0: none yet
  keys,      \* the key ids of the snapshot
  fetchedAt, \* when the snapshot was installed
  askedAt,   \* when each caller's pending call was made, or Idle
  header,    \* the kid of the token of each caller's pending call
  result     \* the outcome of each caller's latest call

cacheVars == <<now, docs, ver, keys, fetchedAt, askedAt, header, result>>

Idle == -1

Init ==
  /\ now = 0
  /\ \E d \in Documents : docs = << [kids |-> d, since |-> 0] >>
  /\ ver = 0
  /\ keys = {}
  /\ fetchedAt = -TTL
  /\ askedAt = [c \in Callers |-> Idle]
  /\ header = [c \in Callers |-> NoKid]
  /\ result = [c \in Callers |-> None]

Tick ==
  /\ now < MaxTime
  /\ now' = now + 1
  /\ UNCHANGED <<docs, ver, keys, fetchedAt, askedAt, header, result>>

Publish ==
  /\ Len(docs) < MaxDocs
  /\ \E d \in Documents : docs' = Append(docs, [kids |-> d, since |-> now])
  /\ UNCHANGED <<now, ver, keys, fetchedAt, askedAt, header, result>>

\* Document v was served at some moment from t on.
ServedSince(v, t) == v < Len(docs) => docs[v + 1].since >= t

Refresh ==
  /\ now - fetchedAt >= TTL
  /\ \E v \in 1..Len(docs) :
       /\ v >= ver
       /\ ServedSince(v, fetchedAt + TTL)
       /\ ver' = v
       /\ keys' = Usable(docs[v].kids)
  /\ fetchedAt' = now
  /\ UNCHANGED <<now, docs, askedAt, header, result>>

Ask(c) ==
  /\ askedAt[c] = Idle
  /\ \E h \in Headers : header' = [header EXCEPT ![c] = h]
  /\ askedAt' = [askedAt EXCEPT ![c] = now]
  /\ result' = [result EXCEPT ![c] = None]
  /\ UNCHANGED <<now, docs, ver, keys, fetchedAt>>

Reply(c) ==
  /\ askedAt[c] # Idle
  /\ askedAt[c] - fetchedAt < TTL \/ askedAt[c] <= fetchedAt
  /\ result' = [result EXCEPT ![c] = KeyFor(header[c], keys)]
  /\ askedAt' = [askedAt EXCEPT ![c] = Idle]
  /\ header' = [header EXCEPT ![c] = NoKid]
  /\ UNCHANGED <<now, docs, ver, keys, fetchedAt>>

Refuse(c) ==
  /\ askedAt[c] # Idle
  /\ now - fetchedAt >= TTL
  /\ result' = [result EXCEPT ![c] = NoKeySet]
  /\ askedAt' = [askedAt EXCEPT ![c] = Idle]
  /\ header' = [header EXCEPT ![c] = NoKid]
  /\ UNCHANGED <<now, docs, ver, keys, fetchedAt>>

Next ==
  \/ Tick
  \/ Publish
  \/ Refresh
  \/ \E c \in Callers : Ask(c) \/ Reply(c) \/ Refuse(c)

Spec == Init /\ [][Next]_cacheVars
=============================================================================
