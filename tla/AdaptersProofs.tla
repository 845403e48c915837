--------------------------- MODULE AdaptersProofs ---------------------------
(***************************************************************************)
(* Proofs about HmacExchange and ClaimMapping, for any calls, services,    *)
(* secrets, pieces of text and bounds.                                     *)
(***************************************************************************)
EXTENDS HmacExchange, ClaimMapping, WellFoundedInduction, TLAPS

\* While a call is under way the store's entry is among those it has seen, and
\* so is the one that it was given.
Watches ==
  \A c \in Calls :
    /\ pc[c] \in {"lookup", "verify"} =>
         blob[c] \in Blobs /\ store[blob[c].payload.service] \in seen[c]
    /\ pc[c] = "verify" => found[c] \in Entries /\ found[c] \in seen[c] \ {NoSecret}

IInv == TypeOK /\ Watches /\ RestsOnOneEntry

\* A blob has the fields that the actions read.
LEMMA BlobFields ==
  ASSUME NEW b \in Blobs
  PROVE  /\ b.payload \in Payloads /\ b.payload.service \in Services
         /\ b.payload.roles \in Roles /\ b.decodes \in BOOLEAN
  BY DEF Blobs, Payloads

LEMMA InitInv == Init => IInv
  BY BoundAssumption DEF Init, IInv, TypeOK, Watches, RestsOnOneEntry

\* Type correctness, action by action.
LEMMA TypeStep == IInv /\ [Next]_vars => TypeOK'
<1> SUFFICES ASSUME IInv, [Next]_vars PROVE TypeOK'
  OBVIOUS
<1>1. CASE \E c \in Calls : Exchange(c)
  <2>1. PICK c \in Calls : Exchange(c) BY <1>1
  <2>2. PICK b \in Blobs : /\ blob' = [blob EXCEPT ![c] = b]
                           /\ seen' = [seen EXCEPT ![c] = {store[b.payload.service]}]
                           /\ Goto(c, IF b.decodes THEN "lookup" ELSE "refused")
    BY <2>1 DEF Exchange
  <2>3. store[b.payload.service] \in Entries \union {NoSecret}
    BY BlobFields DEF IInv, TypeOK
  <2> QED BY <2>1, <2>2, <2>3 DEF Exchange, Goto, IInv, TypeOK
<1>2. CASE \E c \in Calls : GetSecret(c)
  <2>1. PICK c \in Calls : GetSecret(c) BY <1>2
  <2>2. store[blob[c].payload.service] \in Entries \union {NoSecret}
    BY <2>1, BlobFields DEF GetSecret, IInv, TypeOK, Watches
  <2> QED BY <2>1, <2>2 DEF GetSecret, Goto, IInv, TypeOK
<1>3. CASE \E c \in Calls : LookupFails(c)
  BY <1>3 DEF LookupFails, Goto, IInv, TypeOK
<1>4. CASE \E c \in Calls : Verify(c)
  <2>1. PICK c \in Calls : Verify(c) BY <1>4
  <2>2. found[c] \in Entries /\ blob[c] \in Blobs
    BY <2>1 DEF Verify, IInv, Watches
  <2>3. [subject |-> blob[c].payload.service, roles |-> blob[c].payload.roles,
         name |-> found[c].name, trust |-> TrustLevel(found[c])] \in IdentityType
    BY <2>2, BlobFields DEF Entries, IdentityType, TrustLevel
  <2> QED BY <2>1, <2>3 DEF Verify, Goto, IInv, TypeOK
<1>5. CASE \E s \in Services : Change(s)
  <2>1. PICK s \in Services : Change(s) BY <1>5
  <2>2. PICK e \in Entries \union {NoSecret} : store' = [store EXCEPT ![s] = e]
    BY <2>1 DEF Change
  <2>3. store' \in [Services -> Entries \union {NoSecret}] /\ store'[s] = e
    BY <2>2 DEF IInv, TypeOK
  <2>4. seen' \in [Calls -> SUBSET (Entries \union {NoSecret})]
    BY <2>1, <2>3 DEF Change, IInv, TypeOK
  <2>5. changes' \in 0..MaxChanges
    BY <2>1, BoundAssumption DEF Change, IInv, TypeOK
  <2> QED BY <2>1, <2>3, <2>4, <2>5 DEF Change, IInv, TypeOK
<1>6. CASE UNCHANGED vars
  BY <1>6 DEF vars, IInv, TypeOK
<1> QED BY <1>1, <1>2, <1>3, <1>4, <1>5, <1>6 DEF Next

\* A call's own steps leave the others' alone; a change is seen by all it
\* concerns.
LEMMA WatchStep == IInv /\ [Next]_vars => Watches'
<1> SUFFICES ASSUME IInv, [Next]_vars, NEW d \in Calls
             PROVE  /\ pc'[d] \in {"lookup", "verify"} =>
                         blob'[d] \in Blobs /\ store'[blob'[d].payload.service] \in seen'[d]
                    /\ pc'[d] = "verify" =>
                         found'[d] \in Entries /\ found'[d] \in seen'[d] \ {NoSecret}
  BY DEF Watches
<1>1. CASE \E c \in Calls : Exchange(c)
  BY <1>1 DEF Exchange, Goto, IInv, TypeOK, Watches
<1>2. CASE \E c \in Calls : GetSecret(c)
  <2>1. PICK c \in Calls : GetSecret(c) BY <1>2
  <2>2. store[blob[c].payload.service] \in Entries \union {NoSecret}
    BY <2>1, BlobFields DEF GetSecret, IInv, TypeOK, Watches
  <2> QED BY <2>1, <2>2 DEF GetSecret, Goto, IInv, TypeOK, Watches
<1>3. CASE \E c \in Calls : LookupFails(c)
  BY <1>3 DEF LookupFails, Goto, IInv, TypeOK, Watches
<1>4. CASE \E c \in Calls : Verify(c)
  BY <1>4 DEF Verify, Goto, IInv, TypeOK, Watches
<1>5. CASE \E s \in Services : Change(s)
  <2>1. PICK s \in Services : Change(s) BY <1>5
  <2>2. seen'[d] = IF pc[d] \in {"lookup", "verify"} /\ blob[d].payload.service = s
                     THEN seen[d] \union {store'[s]} ELSE seen[d]
    BY <2>1 DEF Change
  <2>3. \A t \in Services : t # s => store'[t] = store[t]
    BY <2>1 DEF Change, IInv, TypeOK
  <2> QED BY <2>1, <2>2, <2>3, BlobFields DEF Change, IInv, TypeOK, Watches
<1>6. CASE UNCHANGED vars
  BY <1>6 DEF vars, IInv, Watches
<1> QED BY <1>1, <1>2, <1>3, <1>4, <1>5, <1>6 DEF Next

\* What has been granted stays as it is; a grant rests on the entry found.
LEMMA RestStep == IInv /\ [Next]_vars => RestsOnOneEntry'
<1> DEFINE Rests(b, i, e) ==
      /\ b.secret = e.secret /\ b.signed = b.payload
      /\ i = [subject |-> b.signed.service, roles |-> b.signed.roles,
              name |-> e.name, trust |-> "low"]
<1> SUFFICES ASSUME IInv, [Next]_vars, NEW d \in Calls, pc'[d] = "granted"
             PROVE  \E e \in seen'[d] \ {NoSecret} : Rests(blob'[d], identity'[d], e)
  BY DEF RestsOnOneEntry
<1>1. CASE pc[d] = "granted"
  <2>1. \E e \in seen[d] \ {NoSecret} : Rests(blob[d], identity[d], e)
    BY <1>1 DEF IInv, RestsOnOneEntry
  <2>2. blob'[d] = blob[d] /\ identity'[d] = identity[d]
    BY <1>1 DEF Next, Exchange, GetSecret, LookupFails, Verify, Change, Goto, vars, IInv, TypeOK
  <2>3. seen'[d] = seen[d]
    BY <1>1 DEF Next, Exchange, GetSecret, LookupFails, Verify, Change, Goto, vars, IInv, TypeOK
  <2> QED BY <2>1, <2>2, <2>3
<1>2. CASE pc[d] # "granted"
  <2>1. Verify(d) /\ Verifies(blob[d], found[d])
    BY <1>2 DEF Next, Exchange, GetSecret, LookupFails, Verify, Change, Goto, vars, IInv, TypeOK
  <2>2. found[d] \in seen[d] \ {NoSecret}
    BY <2>1 DEF Verify, IInv, Watches
  <2>3. Rests(blob[d], identity'[d], found[d])
    BY <2>1 DEF Verify, Verifies, TrustLevel, IInv, TypeOK
  <2>4. blob' = blob /\ seen' = seen
    BY <2>1 DEF Verify
  <2> QED BY <2>2, <2>3, <2>4
<1> QED BY <1>1, <1>2

LEMMA Inductive == Spec => []IInv
<1>1. IInv /\ [Next]_vars => IInv'
  BY TypeStep, WatchStep, RestStep DEF IInv
<1> QED BY <1>1, InitInv, PTL DEF Spec

\* Every reachable state has the types that TypeOK states.
THEOREM TypeCorrect == Spec => []TypeOK
<1>1. IInv => TypeOK
  BY DEF IInv
<1> QED BY <1>1, Inductive, PTL

\* Every identity the adapter returns rests on one entry of the store that was
\* in force during the call, for any number of calls and changes.
THEOREM Rests == Spec => []RestsOnOneEntry
<1>1. IInv => RestsOnOneEntry
  BY DEF IInv
<1> QED BY <1>1, Inductive, PTL

-----------------------------------------------------------------------------
(* The roles.  FlattenSeq and Texts are recursive: what they compute is     *)
(* shown by induction, with a set in the place of a predicate.              *)

\* Every set of naturals has a least member, hence induction.
LEMMA LeastNatural ==
  ASSUME NEW T \in SUBSET Nat, T # {}
  PROVE  \E n \in T : \A m \in T : n <= m
<1>1. OpToRel(<, Nat) = {p \in Nat \X Nat : p[1] < p[2]}
  BY DEF OpToRel
<1> DEFINE Less == {p \in Nat \X Nat : p[1] < p[2]}
<1>2. IsWellFoundedOn(Less, Nat)
  BY <1>1, NatLessThanWellFounded, Zenon
<1>3. \E n \in T : \A m \in T : <<m, n>> \notin Less
  BY <1>2, WFMin, Zenon
<1>4. PICK n \in T : \A m \in T : <<m, n>> \notin Less
  BY <1>3
<1>5. ASSUME NEW m \in T PROVE n <= m
  <2>1. <<m, n>> \in Nat \X Nat /\ ~(m < n)
    BY <1>4
  <2> QED BY <2>1
<1> QED BY <1>4, <1>5

\* Induction.
LEMMA SetInduction ==
  ASSUME NEW S, 0 \in S, \A n \in Nat : n \in S => n + 1 \in S
  PROVE  Nat \subseteq S
<1> SUFFICES ASSUME Nat \ S # {} PROVE FALSE
  OBVIOUS
<1>1. PICK n \in Nat \ S : \A m \in Nat \ S : n <= m
  BY LeastNatural
<1>2. n # 0 /\ n - 1 \in Nat
  BY <1>1
<1> QED BY <1>1, <1>2

\* g obeys the recurrence by which FlattenSeq is defined, or Texts.
Flattens(s, g) ==
  g = [i \in 1..Len(s) |-> IF i = 1 THEN s[i] ELSE g[i - 1] \o s[i]]
Collects(v, g) ==
  g = [i \in 0..Len(v) |-> IF i = 0 THEN <<>>
                           ELSE IF v[i] = Other THEN g[i - 1]
                           ELSE Append(g[i - 1], v[i])]

\* There is at most one such function, so that FlattenSeq has its value.
LEMMA FlattenIs ==
  ASSUME NEW s, NEW g, Len(s) \in Nat \ {0}, Flattens(s, g)
  PROVE  FlattenSeq(s) = g[Len(s)]
<1> DEFINE n == Len(s)
           f == CHOOSE h : Flattens(s, h)
<1>1. FlattenSeq(s) = f[n]
  BY DEF FlattenSeq, Flattens
<1>2. Flattens(s, f)
  OBVIOUS
<1> HIDE DEF f
<1> DEFINE T == {i \in Nat : i + 1 \in 1..n => f[i + 1] = g[i + 1]}
<1>3. 0 \in T
  BY <1>2 DEF Flattens
<1>4. \A i \in Nat : i \in T => i + 1 \in T
  <2> SUFFICES ASSUME NEW i \in Nat, i \in T, i + 2 \in 1..n PROVE f[i + 2] = g[i + 2]
    OBVIOUS
  <2>1. f[i + 1] = g[i + 1] /\ i + 1 \in 1..n /\ (i + 2) - 1 = i + 1 /\ i + 2 # 1
    OBVIOUS
  <2>2. f[i + 2] = f[i + 1] \o s[i + 2]
    BY <1>2, <2>1 DEF Flattens
  <2>3. g[i + 2] = g[i + 1] \o s[i + 2]
    BY <2>1 DEF Flattens
  <2> QED BY <2>1, <2>2, <2>3
<1> HIDE DEF T
<1>5. Nat \subseteq T
  BY <1>3, <1>4, SetInduction, Zenon
<1>6. f[n] = g[n]
  <2>1. n - 1 \in T /\ (n - 1) + 1 = n
    BY <1>5
  <2> QED BY <2>1 DEF T
<1> QED BY <1>1, <1>6

\* Likewise for Texts.
LEMMA TextsIs ==
  ASSUME NEW v, NEW g, Len(v) \in Nat, Collects(v, g)
  PROVE  Texts(v) = g[Len(v)]
<1> DEFINE n == Len(v)
           f == CHOOSE h : Collects(v, h)
<1>1. Texts(v) = f[n]
  BY DEF Texts, Collects
<1>2. Collects(v, f)
  OBVIOUS
<1> HIDE DEF f
<1> DEFINE T == {i \in Nat : i \in 0..n => f[i] = g[i]}
<1>3. 0 \in T
  BY <1>2 DEF Collects
<1>4. \A i \in Nat : i \in T => i + 1 \in T
  <2> SUFFICES ASSUME NEW i \in Nat, i \in T PROVE i + 1 \in T
    BY Zenon
  <2>1. ASSUME i + 1 \in 0..n PROVE f[i + 1] = g[i + 1]
    <3>1. f[i] = g[i] /\ (i + 1) - 1 = i /\ i + 1 # 0
      BY <2>1
    <3>2. f[i + 1] = IF v[i + 1] = Other THEN f[i] ELSE Append(f[i], v[i + 1])
      BY <1>2, <2>1, <3>1 DEF Collects
    <3>3. g[i + 1] = IF v[i + 1] = Other THEN g[i] ELSE Append(g[i], v[i + 1])
      BY <2>1, <3>1 DEF Collects
    <3> QED BY <3>1, <3>2, <3>3
  <2> QED BY <2>1
<1> HIDE DEF T
<1>5. Nat \subseteq T
  BY <1>3, <1>4, SetInduction, Zenon
<1>6. f[n] = g[n]
  <2>1. n \in T
    BY <1>5
  <2> QED BY <2>1 DEF T
<1> QED BY <1>1, <1>6

\* What Split makes of a text.
LEMMA SinglesAre ==
  ASSUME NEW S, NEW s \in Seq(S)
  PROVE  /\ Split(s) \in Seq({<<x>> : x \in S}) /\ Len(Split(s)) = Len(s) /\ Len(s) \in Nat
         /\ \A i \in 1..Len(s) : Split(s)[i] = <<s[i]>>
<1>1. Split(s) \in Seq({<<x>> : x \in S}) /\ Len(Split(s)) = Len(s) /\ Len(s) \in Nat
  BY DEF Split
<1> QED BY <1>1 DEF Split

\* What is appended one by one is the sequence itself.
LEMMA Growing ==
  ASSUME NEW S, NEW s \in Seq(S), NEW i \in 1..Len(s)
  PROVE  /\ SubSeq(s, 1, i) = Append(SubSeq(s, 1, i - 1), s[i])
         /\ SubSeq(s, 1, i) = SubSeq(s, 1, i - 1) \o <<s[i]>>
  OBVIOUS

\* The prefixes at either end.
LEMMA Whole ==
  ASSUME NEW S, NEW s \in Seq(S)
  PROVE  SubSeq(s, 1, Len(s)) = s /\ SubSeq(s, 1, 0) = <<>>
  OBVIOUS

\* Joining what a text was split into gives the text.
LEMMA FlattenSingles ==
  ASSUME NEW S, NEW s \in Seq(S), s # <<>>
  PROVE  FlattenSeq(Split(s)) = s
<1> DEFINE n == Len(s)
           g == [i \in 1..n |-> SubSeq(s, 1, i)]
<1>1. n \in Nat \ {0} /\ Len(Split(s)) = n /\ \A i \in 1..n : Split(s)[i] = <<s[i]>>
  <2>1. n # 0
    OBVIOUS
  <2> QED BY <2>1, SinglesAre
<1>2. Flattens(Split(s), g)
  <2> SUFFICES ASSUME NEW i \in 1..n
               PROVE  g[i] = IF i = 1 THEN Split(s)[i] ELSE g[i - 1] \o Split(s)[i]
    BY <1>1 DEF Flattens
  <2>1. CASE i = 1
    BY <1>1, <2>1
  <2>2. CASE i # 1
    <3>1. g[i - 1] = SubSeq(s, 1, i - 1)
      BY <2>2
    <3> QED BY <1>1, <2>2, <3>1, Growing
  <2> QED BY <2>1, <2>2
<1>3. g[n] = s
  BY <1>1, Whole
<1> HIDE DEF g
<1> QED BY <1>1, <1>2, <1>3, FlattenIs

\* Joining one text gives the text.
LEMMA FlattenOne ==
  ASSUME NEW s
  PROVE  FlattenSeq(<<s>>) = s
<1> DEFINE g == [i \in 1..1 |-> s]
           q == <<s>>
<1>1. Flattens(q, g) /\ Len(q) = 1 /\ g[1] = s
  BY DEF Flattens
<1> HIDE DEF g, q
<1>2. FlattenSeq(q) = s
  BY <1>1, FlattenIs
<1> QED BY <1>2 DEF q

\* A list of texts is taken as it is.
LEMMA TextsOfTexts ==
  ASSUME NEW S, NEW v \in Seq(S), Other \notin S
  PROVE  Texts(v) = v
<1> DEFINE g == [i \in 0..Len(v) |-> SubSeq(v, 1, i)]
<1>1. Len(v) \in Nat /\ \A i \in 1..Len(v) : v[i] # Other
  OBVIOUS
<1>2. Collects(v, g)
  <2> SUFFICES ASSUME NEW i \in 0..Len(v)
               PROVE  g[i] = IF i = 0 THEN <<>>
                             ELSE IF v[i] = Other THEN g[i - 1] ELSE Append(g[i - 1], v[i])
    BY DEF Collects
  <2>1. CASE i = 0
    BY <1>1, <2>1, Whole
  <2>2. CASE i # 0
    <3>1. i \in 1..Len(v) /\ g[i - 1] = SubSeq(v, 1, i - 1)
      BY <1>1, <2>2
    <3> QED BY <1>1, <2>2, <3>1, Growing
  <2> QED BY <2>1, <2>2
<1>3. g[Len(v)] = v
  BY <1>1, Whole
<1> HIDE DEF g
<1> QED BY <1>1, <1>2, <1>3, TextsIs

\* A sequence with an element inserted, place by place.
LEMMA InsertedAre ==
  ASSUME NEW S, NEW s \in Seq(S), NEW p \in 1..Len(s) + 1, NEW e
  PROVE  /\ Len(InsertAt(s, p, e)) = Len(s) + 1
         /\ \A i \in 1..Len(s) + 1 :
              InsertAt(s, p, e)[i] = IF i < p THEN s[i] ELSE IF i = p THEN e ELSE s[i - 1]
<1> DEFINE T == S \union {e}
           before == SubSeq(s, 1, p - 1)
           after == SubSeq(s, p, Len(s))
           front == before \o <<e>>
<1>1. /\ before \in Seq(T) /\ Len(before) = p - 1
      /\ \A i \in 1..p - 1 : before[i] = s[i]
  OBVIOUS
<1>2. /\ after \in Seq(T) /\ Len(after) = Len(s) - p + 1
      /\ \A i \in 1..Len(s) - p + 1 : after[i] = s[p + i - 1]
  OBVIOUS
<1>3. InsertAt(s, p, e) = front \o after
  BY DEF InsertAt
<1> HIDE DEF before, after
<1>4. /\ front \in Seq(T) /\ Len(front) = p
      /\ \A i \in 1..p : front[i] = IF i < p THEN before[i] ELSE e
  BY <1>1
<1> HIDE DEF front
<1>5. Len(front \o after) = Len(s) + 1
  BY <1>2, <1>4
<1>6. ASSUME NEW i \in 1..Len(s) + 1
      PROVE  (front \o after)[i] = IF i < p THEN s[i] ELSE IF i = p THEN e ELSE s[i - 1]
  <2> i \in Int /\ p \in Int
    OBVIOUS
  <2>1. CASE i <= p
    <3>1. (front \o after)[i] = front[i]
      BY <1>2, <1>4, <2>1
    <3>2. i \in 1..p /\ (i < p => i \in 1..p - 1)
      BY <2>1
    <3> QED BY <1>1, <1>4, <3>1, <3>2
  <2>2. CASE i > p
    <3>1. i - p \in 1..Len(s) - p + 1 /\ p + (i - p) - 1 = i - 1
      BY <2>2
    <3>2. (front \o after)[i] = after[i - p]
      BY <1>2, <1>4, <2>2
    <3> QED BY <1>2, <2>2, <3>1, <3>2
  <2>3. i <= p \/ i > p
    OBVIOUS
  <2> QED BY <2>1, <2>2, <2>3, Zenon
<1> QED BY <1>3, <1>5, <1>6

\* A value that is no text changes nothing, wherever it stands.
LEMMA TextsOfInserted ==
  ASSUME NEW S, NEW v \in Seq(S), Other \notin S, NEW p \in 1..Len(v) + 1
  PROVE  Texts(InsertAt(v, p, Other)) = v
<1> DEFINE n == Len(v)
           w == InsertAt(v, p, Other)
           g == [i \in 0..n + 1 |-> IF i < p THEN SubSeq(v, 1, i) ELSE SubSeq(v, 1, i - 1)]
<1>1. n \in Nat /\ \A i \in 1..n : v[i] # Other
  OBVIOUS
<1>2. /\ Len(w) = n + 1
      /\ \A i \in 1..n + 1 : w[i] = IF i < p THEN v[i] ELSE IF i = p THEN Other ELSE v[i - 1]
  BY InsertedAre
<1> HIDE DEF w
<1>3. Collects(w, g)
  <2> SUFFICES ASSUME NEW i \in 0..n + 1
               PROVE  g[i] = IF i = 0 THEN <<>>
                             ELSE IF w[i] = Other THEN g[i - 1] ELSE Append(g[i - 1], w[i])
    BY <1>2 DEF Collects
  <2>1. CASE i = 0
    BY <2>1, Whole
  <2>2. CASE i # 0
    <3>1. i \in 1..n + 1 /\ i - 1 \in 0..n + 1
      BY <1>1, <2>2
    <3>2. g[i - 1] = IF i - 1 < p THEN SubSeq(v, 1, i - 1) ELSE SubSeq(v, 1, (i - 1) - 1)
      BY <3>1
    <3>3. CASE i < p
      <4>1. i \in 1..n /\ SubSeq(v, 1, i) = Append(SubSeq(v, 1, i - 1), v[i])
        BY <1>1, <3>1, <3>3, Growing
      <4> QED BY <1>1, <1>2, <2>2, <3>1, <3>2, <3>3, <4>1
    <3>4. CASE i = p
      BY <1>1, <1>2, <2>2, <3>1, <3>2, <3>4
    <3>5. CASE i > p
      <4>1. i - 1 \in 1..n /\ ~(i - 1 < p)
        BY <1>1, <3>1, <3>5
      <4>2. SubSeq(v, 1, i - 1) = Append(SubSeq(v, 1, (i - 1) - 1), v[i - 1])
        BY <4>1, Growing
      <4>3. w[i] = v[i - 1] /\ v[i - 1] # Other
        BY <1>1, <1>2, <3>1, <3>5, <4>1
      <4>4. g[i] = SubSeq(v, 1, i - 1)
        BY <3>1, <3>5
      <4> QED BY <2>2, <3>2, <4>1, <4>2, <4>3, <4>4
    <3> QED BY <3>1, <3>3, <3>4, <3>5
  <2> QED BY <2>1, <2>2
<1>4. g[n + 1] = v
  <2>1. n + 1 \in 0..n + 1 /\ ~(n + 1 < p) /\ (n + 1) - 1 = n
    BY <1>1
  <2> QED BY <2>1, Whole
<1> HIDE DEF g
<1>5. Texts(w) = g[n + 1]
  BY <1>1, <1>2, <1>3, TextsIs
<1> QED BY <1>4, <1>5 DEF w

\* A function on 1..m is a sequence.
LEMMA FunctionIsSeq ==
  ASSUME NEW S, NEW m \in Nat, NEW s \in [1..m -> S]
  PROVE  s \in Seq(S)
  OBVIOUS

\* Induction over sequences.
LEMMA SeqInduction ==
  ASSUME NEW S, NEW P, <<>> \in P,
         \A s \in Seq(S), x \in S : s \in P => Append(s, x) \in P
  PROVE  Seq(S) \subseteq P
<1> DEFINE T == {n \in Nat : \A s \in Seq(S) : Len(s) = n => s \in P}
<1>1. 0 \in T
  <2>1. \A s \in Seq(S) : Len(s) = 0 => s = <<>>
    OBVIOUS
  <2> QED BY <2>1
<1>2. ASSUME NEW n \in Nat, n \in T, NEW s \in Seq(S), Len(s) = n + 1
      PROVE  s \in P
  <2>1. SubSeq(s, 1, n) \in Seq(S) /\ Len(SubSeq(s, 1, n)) = n /\ s[n + 1] \in S
    BY <1>2
  <2>2. s = Append(SubSeq(s, 1, n), s[n + 1])
    BY <1>2
  <2>3. SubSeq(s, 1, n) \in P
    BY <1>2, <2>1
  <2> QED BY <2>1, <2>2, <2>3
<1>3. \A n \in Nat : n \in T => n + 1 \in T
  BY <1>2
<1> HIDE DEF T
<1>4. Nat \subseteq T
  BY <1>1, <1>3, SetInduction, Zenon
<1> QED
  <2> SUFFICES ASSUME NEW s \in Seq(S) PROVE s \in P
    OBVIOUS
  <2>1. Len(s) \in T
    BY <1>4
  <2> QED BY <2>1 DEF T

\* The function that FlattenSeq chooses exists.
LEMMA FlattenExists ==
  ASSUME NEW s, NEW n \in Nat \ {0}, Len(s) = n
  PROVE  \E g : Flattens(s, g)
<1> DEFINE Upto(m, g) == g = [i \in 1..m |-> IF i = 1 THEN s[i] ELSE g[i - 1] \o s[i]]
           T == {m \in Nat : \E g : Upto(m + 1, g)}
<1>1. 0 \in T
  <2> DEFINE g == [i \in 1..1 |-> s[i]]
  <2>1. Upto(0 + 1, g)
    OBVIOUS
  <2> QED BY <2>1
<1>2. ASSUME NEW m \in Nat, NEW g, Upto(m + 1, g)
      PROVE  \E h : Upto((m + 1) + 1, h)
  <2> DEFINE h == [i \in 1..m + 2 |-> IF i = m + 2 THEN g[m + 1] \o s[m + 2] ELSE g[i]]
  <2>1. ASSUME NEW i \in 1..m + 2
        PROVE  h[i] = IF i = 1 THEN s[i] ELSE h[i - 1] \o s[i]
    <3>1. CASE i = m + 2
      <4>1. i # 1 /\ i - 1 = m + 1 /\ i - 1 \in 1..m + 2 /\ i - 1 # m + 2
        BY <3>1
      <4>2. h[i - 1] = g[m + 1]
        BY <4>1
      <4>3. h[i] = g[m + 1] \o s[m + 2]
        BY <3>1
      <4> QED BY <3>1, <4>1, <4>2, <4>3
    <3>2. CASE i # m + 2
      <4>1. i \in 1..m + 1 /\ h[i] = g[i]
        BY <3>2
      <4>2. g[i] = IF i = 1 THEN s[i] ELSE g[i - 1] \o s[i]
        BY <1>2, <4>1
      <4>3. i # 1 => h[i - 1] = g[i - 1]
        BY <4>1
      <4> QED BY <4>1, <4>2, <4>3
    <3> QED BY <3>1, <3>2
  <2>2. Upto(m + 2, h)
    BY <2>1
  <2>3. (m + 1) + 1 = m + 2
    OBVIOUS
  <2> HIDE DEF h
  <2> QED BY <2>2, <2>3
<1>3. \A m \in Nat : m \in T => m + 1 \in T
  <2> SUFFICES ASSUME NEW m \in Nat, m \in T PROVE m + 1 \in T
    BY Zenon
  <2>1. PICK g : Upto(m + 1, g)
    OBVIOUS
  <2>2. \E h : Upto((m + 1) + 1, h)
    BY <1>2, <2>1
  <2>3. m + 1 \in Nat
    OBVIOUS
  <2> QED BY <2>2, <2>3, Zenon
<1> HIDE DEF T
<1>4. Nat \subseteq T
  BY <1>1, <1>3, SetInduction, Zenon
<1>5. n - 1 \in T /\ (n - 1) + 1 = n
  BY <1>4
<1> QED BY <1>5 DEF T, Flattens

\* A sequence appended is joined at the end.
LEMMA FlattenAppend ==
  ASSUME NEW S, NEW s \in Seq(Seq(S)), NEW x \in Seq(S)
  PROVE  FlattenSeq(Append(s, x)) = FlattenSeq(s) \o x
<1> DEFINE n == Len(s)
           w == Append(s, x)
<1>1. n \in Nat /\ Len(w) = n + 1 /\ w[n + 1] = x /\ \A i \in 1..n : w[i] = s[i]
  OBVIOUS
<1>2. CASE n = 0
  <2>1. s = <<>> /\ w = <<x>>
    BY <1>2
  <2>2. FlattenSeq(s) = <<>>
    BY <2>1 DEF FlattenSeq
  <2>3. FlattenSeq(w) = x
    BY <2>1, FlattenOne
  <2> QED BY <2>2, <2>3
<1>3. CASE n # 0
  <2>1. PICK g : Flattens(s, g)
    BY <1>1, <1>3, FlattenExists
  <2> DEFINE h == [i \in 1..n + 1 |-> IF i = n + 1 THEN g[n] \o x ELSE g[i]]
  <2>2. ASSUME NEW i \in 1..n + 1
        PROVE  h[i] = IF i = 1 THEN w[i] ELSE h[i - 1] \o w[i]
    <3>1. CASE i = n + 1
      <4>1. i # 1 /\ i - 1 = n /\ h[i - 1] = g[n]
        BY <1>1, <1>3, <3>1
      <4>2. h[i] = g[n] \o x /\ w[i] = x
        BY <1>1, <3>1
      <4> QED BY <4>1, <4>2
    <3>2. CASE i # n + 1
      <4>1. i \in 1..n /\ h[i] = g[i] /\ w[i] = s[i]
        BY <1>1, <3>2
      <4>2. g[i] = IF i = 1 THEN s[i] ELSE g[i - 1] \o s[i]
        BY <2>1, <4>1 DEF Flattens
      <4>3. i # 1 => h[i - 1] = g[i - 1]
        BY <1>1, <4>1
      <4> QED BY <4>1, <4>2, <4>3
    <3> QED BY <3>1, <3>2
  <2>3. Flattens(w, h)
    BY <1>1, <2>2 DEF Flattens
  <2>4. h[n + 1] = g[n] \o x
    BY <1>1
  <2> HIDE DEF h, w
  <2>5. FlattenSeq(w) = g[n] \o x
    BY <1>1, <2>3, <2>4, FlattenIs
  <2>6. FlattenSeq(s) = g[n]
    BY <1>1, <1>3, <2>1, FlattenIs
  <2> QED BY <2>5, <2>6 DEF w
<1> QED BY <1>2, <1>3

\* Two sequences joined, place by place.
LEMMA Concatenated ==
  ASSUME NEW S, NEW f \in Seq(S), NEW x \in Seq(S)
  PROVE  /\ f \o x \in Seq(S) /\ Len(f \o x) = Len(f) + Len(x)
         /\ \A m \in 1..Len(f) : (f \o x)[m] = f[m]
         /\ \A m \in 1..Len(x) :
              Len(f) + m \in 1..Len(f \o x) /\ (f \o x)[Len(f) + m] = x[m]
         /\ x = <<>> => f \o x = f
         /\ f = <<>> => f \o x = x
         /\ Len(x) \in Nat /\ Len(f) \in Nat
         /\ Len(x) = 0 => x = <<>>
         /\ Len(f) = 0 => f = <<>>
<1>1. f \o x \in Seq(S) /\ Len(f \o x) = Len(f) + Len(x)
  OBVIOUS
<1>2. Len(x) \in Nat /\ Len(f) \in Nat
  OBVIOUS
<1>3. \A m \in 1..Len(f) : (f \o x)[m] = f[m]
  OBVIOUS
<1>4. ASSUME NEW m \in 1..Len(x)
      PROVE  Len(f) + m \in 1..Len(f \o x) /\ (f \o x)[Len(f) + m] = x[m]
  BY <1>1, <1>2
<1>5. x = <<>> => f \o x = f
  OBVIOUS
<1>6. f = <<>> => f \o x = x
  OBVIOUS
<1>7. (Len(x) = 0 => x = <<>>) /\ (Len(f) = 0 => f = <<>>)
  OBVIOUS
<1> QED BY <1>1, <1>2, <1>3, <1>4, <1>5, <1>6, <1>7

\* What joining does to the k-th of n sequences: it is part of the whole, and
\* it is the whole, and as long, just when the others are empty.
Part(s, whole, n, k) ==
  /\ Len(s[k]) <= Len(whole)
  /\ Len(s[k]) = Len(whole) => \A i \in 1..n \ {k} : s[i] = <<>>
  /\ (\A i \in 1..n \ {k} : s[i] = <<>>) => whole = s[k]
  /\ \A j \in 1..Len(s[k]) : \E m \in 1..Len(whole) : whole[m] = s[k][j]

Joined(s) == \A k \in 1..Len(s) : Part(s, FlattenSeq(s), Len(s), k)

LEMMA FlattenJoins ==
  ASSUME NEW S, NEW s \in Seq(Seq(S))
  PROVE  /\ FlattenSeq(s) \in Seq(S) /\ Joined(s)
         /\ (\A k \in 1..Len(s) : s[k] = <<>>) => FlattenSeq(s) = <<>>
<1> DEFINE P == {t \in Seq(Seq(S)) :
                   /\ FlattenSeq(t) \in Seq(S) /\ Joined(t)
                   /\ (\A k \in 1..Len(t) : t[k] = <<>>) => FlattenSeq(t) = <<>>}
<1>1. <<>> \in P
  <2>1. FlattenSeq(<<>>) = <<>>
    BY DEF FlattenSeq
  <2>2. <<>> \in Seq(Seq(S)) /\ <<>> \in Seq(S) /\ Len(<<>>) = 0
    OBVIOUS
  <2>3. Joined(<<>>)
    BY <2>2 DEF Joined
  <2> QED BY <2>1, <2>2, <2>3
<1>2. ASSUME NEW t \in Seq(Seq(S)), NEW x \in Seq(S), t \in P
      PROVE  Append(t, x) \in P
  <2> DEFINE n == Len(t)
             w == Append(t, x)
             f == FlattenSeq(t)
             h == FlattenSeq(w)
  <2>1. /\ n \in Nat /\ w \in Seq(Seq(S)) /\ Len(w) = n + 1 /\ w[n + 1] = x
        /\ \A i \in 1..n : w[i] = t[i] /\ t[i] \in Seq(S)
    OBVIOUS
  <2>2. h = f \o x
    BY FlattenAppend
  <2>3. /\ f \in Seq(S)
        /\ (\A k \in 1..n : t[k] = <<>>) => f = <<>>
        /\ \A k \in 1..n :
             /\ Len(t[k]) <= Len(f)
             /\ Len(t[k]) = Len(f) => \A i \in 1..n \ {k} : t[i] = <<>>
             /\ (\A i \in 1..n \ {k} : t[i] = <<>>) => f = t[k]
             /\ \A j \in 1..Len(t[k]) : \E m \in 1..Len(f) : f[m] = t[k][j]
    BY <1>2 DEF Joined, Part
  <2> HIDE DEF f, h, w, n
  <2>4. /\ h \in Seq(S) /\ Len(h) = Len(f) + Len(x)
        /\ \A m \in 1..Len(f) : h[m] = f[m]
        /\ \A m \in 1..Len(x) : Len(f) + m \in 1..Len(h) /\ h[Len(f) + m] = x[m]
        /\ x = <<>> => h = f
        /\ f = <<>> => h = x
        /\ Len(x) \in Nat /\ Len(f) \in Nat
        /\ Len(x) = 0 => x = <<>>
        /\ Len(f) = 0 => f = <<>>
    BY <2>2, <2>3, Concatenated
  <2>5. \A k \in 1..n : Len(t[k]) \in Nat /\ (Len(t[k]) = 0 => t[k] = <<>>)
    BY <2>1
  <2>6. ASSUME NEW k \in 1..n
        PROVE  Part(w, h, n + 1, k)
    <3>1. w[k] = t[k] /\ Len(t[k]) \in Nat
      BY <2>1, <2>5
    <3>2. Len(w[k]) <= Len(h)
      BY <2>3, <2>4, <3>1
    <3>3. ASSUME Len(w[k]) = Len(h) PROVE \A i \in 1..n + 1 \ {k} : w[i] = <<>>
      <4>1. Len(x) = 0 /\ Len(t[k]) = Len(f)
        BY <2>3, <2>4, <3>1, <3>3
      <4>2. x = <<>> /\ \A i \in 1..n \ {k} : t[i] = <<>>
        BY <2>3, <2>4, <4>1
      <4>3. \A i \in 1..n + 1 \ {k} : i = n + 1 \/ i \in 1..n \ {k}
        BY <2>1
      <4> QED BY <2>1, <4>2, <4>3
    <3>4. ASSUME \A i \in 1..n + 1 \ {k} : w[i] = <<>> PROVE h = w[k]
      <4>1. n + 1 \in 1..n + 1 \ {k} /\ \A i \in 1..n \ {k} : i \in 1..n + 1 \ {k}
        BY <2>1
      <4>2. x = <<>> /\ \A i \in 1..n \ {k} : t[i] = <<>>
        BY <2>1, <3>4, <4>1
      <4> QED BY <2>3, <2>4, <3>1, <4>2
    <3>5. ASSUME NEW j \in 1..Len(w[k]) PROVE \E m \in 1..Len(h) : h[m] = w[k][j]
      <4>1. PICK m \in 1..Len(f) : f[m] = t[k][j]
        BY <2>3, <3>1
      <4>2. m \in 1..Len(h) /\ h[m] = f[m]
        BY <2>4
      <4> QED BY <3>1, <4>1, <4>2
    <3> QED BY <3>2, <3>3, <3>4, <3>5 DEF Part
  <2>7. Part(w, h, n + 1, n + 1)
    <3>1. w[n + 1] = x /\ 1..n + 1 \ {n + 1} = 1..n
      BY <2>1
    <3>2. Len(x) <= Len(h)
      BY <2>4
    <3>3. ASSUME Len(x) = Len(h) PROVE \A i \in 1..n : w[i] = <<>>
      <4>1. Len(f) = 0
        BY <2>4, <3>3
      <4>2. \A i \in 1..n : Len(t[i]) = 0
        BY <2>3, <2>5, <4>1
      <4>3. \A i \in 1..n : t[i] = <<>>
        BY <2>5, <4>2
      <4> QED BY <2>1, <4>3
    <3>4. ASSUME \A i \in 1..n : w[i] = <<>> PROVE h = x
      <4>1. \A i \in 1..n : t[i] = <<>>
        BY <2>1, <3>4
      <4>2. f = <<>>
        BY <2>3, <4>1
      <4> QED BY <2>4, <4>2
    <3>5. \A j \in 1..Len(x) : \E m \in 1..Len(h) : h[m] = x[j]
      BY <2>4
    <3> QED BY <3>1, <3>2, <3>3, <3>4, <3>5 DEF Part
  <2>8. Joined(w)
    <3>1. \A k \in 1..n + 1 : k \in 1..n \/ k = n + 1
      BY <2>1
    <3>2. Len(w) = n + 1 /\ FlattenSeq(w) = h
      BY <2>1 DEF h
    <3>3. \A k \in 1..n + 1 : Part(w, h, n + 1, k)
      BY <2>6, <2>7, <3>1
    <3> QED BY <3>2, <3>3 DEF Joined
  <2>9. (\A k \in 1..n + 1 : w[k] = <<>>) => h = <<>>
    <3> SUFFICES ASSUME \A k \in 1..n + 1 : w[k] = <<>> PROVE h = <<>>
      OBVIOUS
    <3>1. n + 1 \in 1..n + 1 /\ \A k \in 1..n : k \in 1..n + 1
      BY <2>1
    <3>2. x = <<>> /\ \A k \in 1..n : t[k] = <<>>
      BY <2>1, <3>1
    <3> QED BY <2>3, <2>4, <3>2
  <2> QED BY <2>1, <2>4, <2>8, <2>9 DEF h, w
<1>3. Seq(Seq(S)) \subseteq P
  <2> HIDE DEF P
  <2> QED BY <1>1, <1>2, SeqInduction
<1> QED BY <1>3

-----------------------------------------------------------------------------
(* What assertions are made of.                                             *)

LEMMA BoundedAre ==
  ASSUME NEW S
  PROVE  BoundedSeq(S, MaxLen) \subseteq Seq(S)
<1> SUFFICES ASSUME NEW s \in BoundedSeq(S, MaxLen) PROVE s \in Seq(S)
  OBVIOUS
<1>1. PICK m \in 0..MaxLen : s \in [1..m -> S]
  BY DEF BoundedSeq, SeqOf
<1>2. m \in Nat
  BY LenAssumption
<1> QED BY <1>1, <1>2, FunctionIsSeq

LEMMA TextsAre ==
  AllTexts \subseteq Seq(Pieces) /\ <<>> \notin AllTexts /\ Other \notin AllTexts
BY BoundedAre, PiecesAssumption, Zenon DEF AllTexts

LEMMA ListsAre == ValueLists \subseteq Seq(AllTexts)
BY BoundedAre DEF ValueLists

LEMMA AssertionsAre ==
  ASSUME NEW a \in Assertions
  PROVE  /\ Len(a) \in Nat /\ DOMAIN a = 1..Len(a)
         /\ \A i \in 1..Len(a) : a[i].values \in Seq(AllTexts)
<1> DEFINE R == [name : RoleNames \union {"org"}, values : ValueLists]
<1>1. a \in Seq(R)
  BY BoundedAre DEF Assertions
<1>2. \A r \in R : r.values \in ValueLists
  OBVIOUS
<1> HIDE DEF R
<1>3. Len(a) \in Nat /\ DOMAIN a = 1..Len(a) /\ \A i \in 1..Len(a) : a[i] \in R
  BY <1>1
<1> QED BY <1>2, <1>3, ListsAre

\* The empty text is a text of one piece.
LEMMA EmptyIs == Empty \in Seq(Pieces) /\ Len(Empty) = 1
<1>1. ASSUME NEW S, NEW x \in S PROVE <<x>> \in Seq(S) /\ Len(<<x>>) = 1
  OBVIOUS
<1> QED BY <1>1, PiecesAssumption, Zenon DEF Empty

\* The greatest of some of the first places.
LEMMA MaxIs ==
  ASSUME NEW n \in Nat, NEW T \in SUBSET (1..n), T # {}
  PROVE  Max(T) \in T
<1> DEFINE D == {n - i : i \in T}
<1> DEFINE At(i) == n - i
<1>0. \A i \in T : i \in 1..n /\ At(i) \in Nat
  OBVIOUS
<1>1. D \in SUBSET Nat /\ D # {}
  <2>1. D = {At(i) : i \in T}
    OBVIOUS
  <2> HIDE DEF At, D
  <2> QED BY <1>0, <2>1
<1>2. PICK d \in D : \A e \in D : d <= e
  BY <1>1, LeastNatural
<1>3. PICK k \in T : d = n - k
  BY <1>2
<1>4. ASSUME NEW i \in T PROVE k >= i
  <2>1. n - i \in D
    OBVIOUS
  <2>2. n - k <= n - i
    BY <1>2, <1>3, <2>1
  <2> QED BY <1>0, <2>2
<1> QED BY <1>3, <1>4 DEF Max

\* The assertion's roles are the parts of the joined values of one attribute
\* that tells, whichever of them; of the empty text when none does.
LEMMA SAMLIs ==
  ASSUME NEW a \in Assertions
  PROVE  /\ Telling(a) = {} => SAMLRoles(a) = Split(Empty)
         /\ Telling(a) # {} =>
              \E k \in Telling(a) : SAMLRoles(a) = Split(FlattenSeq(a[k].values))
<1> DEFINE Many == Named(a, "roles")
           One  == Named(a, "role")
           t    == AttributeText(a, "roles")
           u    == AttributeText(a, "role")
<1>1. Telling(a) = Many \union One
  BY DEF Telling, Named, RoleNames
<1>2. Many \in SUBSET (1..Len(a)) /\ One \in SUBSET (1..Len(a)) /\ Len(a) \in Nat
  BY AssertionsAre DEF Named
<1>3. /\ Many = {} => t = Empty
      /\ Many # {} => t = FlattenSeq(a[Max(Many)].values)
      /\ One = {} => u = Empty
      /\ One # {} => u = FlattenSeq(a[Max(One)].values)
  BY DEF AttributeText
<1>4. (Many # {} => Max(Many) \in Many) /\ (One # {} => Max(One) \in One)
  BY <1>2, MaxIs
<1>5. SAMLRoles(a) = Split(IF t # Empty THEN t ELSE u)
  BY DEF SAMLRoles, Coalesce
<1> HIDE DEF Many, One, t, u
<1> QED BY <1>1, <1>3, <1>4, <1>5

\* Values without a comma are the parts of what they are joined to.
LEMMA SinglesJoin ==
  ASSUME NEW v \in Seq(AllTexts), v # <<>>, \A j \in 1..Len(v) : Len(v[j]) = 1
  PROVE  Split(FlattenSeq(v)) = v /\ Len(FlattenSeq(v)) = Len(v)
<1> DEFINE p == [j \in 1..Len(v) |-> v[j][1]]
<1>1. \A j \in 1..Len(v) : v[j] \in Seq(Pieces)
  BY TextsAre
<1>2. p \in Seq(Pieces) /\ Len(p) = Len(v) /\ Len(v) \in Nat
  BY <1>1
<1>3. p # <<>>
  BY <1>2
<1>4. \A j \in 1..Len(v) : v[j] = <<p[j]>>
  BY <1>1
<1>5. Split(p) = v
  BY <1>2, <1>4 DEF Split
<1> HIDE DEF p
<1> QED BY <1>2, <1>3, <1>5, FlattenSingles

\* A list of texts in a JWT is taken as it is.
LEMMA JWTListIs ==
  ASSUME NEW v \in Seq(AllTexts)
  PROVE  JWTList(v) = v
<1>1. JWTList(v) = Texts(v)
  BY DEF JWTList, ExtractStringSlice
<1> QED BY <1>1, TextsAre, TextsOfTexts

\* The values that the assertion states, attribute by attribute.
Values(a) == [i \in DOMAIN a |-> IF a[i].name \in RoleNames THEN a[i].values ELSE <<>>]

LEMMA ValuesAre ==
  ASSUME NEW a \in Assertions
  PROVE  /\ Stated(a) = FlattenSeq(Values(a))
         /\ Values(a) \in Seq(Seq(AllTexts)) /\ Len(Values(a)) = Len(a)
         /\ \A i \in 1..Len(a) : Values(a)[i] # <<>> <=> i \in Telling(a)
         /\ \A i \in Telling(a) : i \in 1..Len(a) /\ Values(a)[i] = a[i].values
<1>1. Len(a) \in Nat /\ DOMAIN a = 1..Len(a) /\ \A i \in 1..Len(a) : a[i].values \in Seq(AllTexts)
  BY AssertionsAre
<1>2. Values(a) \in Seq(Seq(AllTexts)) /\ Len(Values(a)) = Len(a)
  BY <1>1 DEF Values
<1>3. \A i \in 1..Len(a) :
        Values(a)[i] = IF a[i].name \in RoleNames THEN a[i].values ELSE <<>>
  BY <1>1 DEF Values
<1>4. \A i \in 1..Len(a) : i \in Telling(a) <=> a[i].name \in RoleNames /\ a[i].values # <<>>
  BY <1>1 DEF Telling
<1>5. Telling(a) \subseteq 1..Len(a)
  BY <1>1 DEF Telling
<1>6. Stated(a) = FlattenSeq(Values(a))
  BY DEF Stated, Values
<1> QED BY <1>2, <1>3, <1>4, <1>5, <1>6

\* What the JWT with the same values gives.
LEMMA StatedIs ==
  ASSUME NEW a \in Assertions
  PROVE  /\ Stated(a) \in Seq(AllTexts) /\ JWTList(Stated(a)) = Stated(a)
         /\ Joined(Values(a))
         /\ Telling(a) = {} => Stated(a) = <<>>
<1>1. Values(a) \in Seq(Seq(AllTexts)) /\ Len(Values(a)) = Len(a)
  BY ValuesAre
<1>2. FlattenSeq(Values(a)) \in Seq(AllTexts) /\ Joined(Values(a))
  BY <1>1, FlattenJoins
<1>3. Telling(a) = {} => FlattenSeq(Values(a)) = <<>>
  BY <1>1, ValuesAre, FlattenJoins
<1> QED BY <1>2, <1>3, ValuesAre, JWTListIs

\* One attribute alone tells, and no value of it has a comma.
Plain(a) ==
  \E i \in DOMAIN a :
    /\ Telling(a) = {i}
    /\ \A j \in DOMAIN a[i].values : Len(a[i].values[j]) = 1

\* Then the two give the same.
LEMMA PlainAgree ==
  ASSUME NEW a \in Assertions, Plain(a)
  PROVE  SAMLRoles(a) = JWTList(Stated(a))
<1>1. PICK i \in DOMAIN a : /\ Telling(a) = {i}
                            /\ \A j \in DOMAIN a[i].values : Len(a[i].values[j]) = 1
  BY DEF Plain
<1> DEFINE v == a[i].values
<1>2. i \in 1..Len(a) /\ v \in Seq(AllTexts)
  BY AssertionsAre
<1>3. Values(a)[i] = v /\ v # <<>>
  BY <1>1, <1>2, ValuesAre
<1>4. \A j \in 1..Len(v) : Len(v[j]) = 1
  BY <1>1, <1>2
<1>5. SAMLRoles(a) = Split(FlattenSeq(v))
  BY <1>1, SAMLIs
<1> HIDE DEF v
<1>6. SAMLRoles(a) = v
  BY <1>2, <1>3, <1>4, <1>5, SinglesJoin
<1>7. \A k \in 1..Len(a) \ {i} : Values(a)[k] = <<>>
  BY <1>1, ValuesAre
<1>8. Len(Values(a)) = Len(a) /\ Part(Values(a), Stated(a), Len(a), i)
  BY <1>2, StatedIs, ValuesAre DEF Joined
<1>9. Stated(a) = v
  BY <1>3, <1>7, <1>8 DEF Part
<1> QED BY <1>6, <1>9, StatedIs

\* Nothing else makes them give the same.
LEMMA AgreePlain ==
  ASSUME NEW a \in Assertions, SAMLRoles(a) = JWTList(Stated(a))
  PROVE  Plain(a)
<1> DEFINE w == Stated(a)
<1>1. SAMLRoles(a) = w /\ w \in Seq(AllTexts)
  BY StatedIs
<1>2. Telling(a) # {}
  <2> SUFFICES ASSUME Telling(a) = {} PROVE FALSE
    OBVIOUS
  <2>1. Split(Empty) = <<>>
    BY <1>1, SAMLIs, StatedIs
  <2>2. Len(Split(Empty)) = 1
    BY EmptyIs, SinglesAre
  <2> QED BY <2>1, <2>2
<1>3. PICK k \in Telling(a) : SAMLRoles(a) = Split(FlattenSeq(a[k].values))
  BY <1>2, SAMLIs
<1> DEFINE v == a[k].values
           t == FlattenSeq(v)
<1>4. k \in 1..Len(a) /\ Values(a)[k] = v /\ v # <<>>
  BY ValuesAre
<1>5. v \in Seq(AllTexts) /\ DOMAIN v = 1..Len(v)
  BY <1>4, AssertionsAre
<1>6. Len(Values(a)) = Len(a) /\ Part(Values(a), w, Len(a), k)
  BY <1>4, StatedIs, ValuesAre DEF Joined
<1>7. w = Split(t)
  BY <1>1, <1>3
<1> HIDE DEF v, t, w
<1>8. t \in Seq(Pieces)
  <2>1. v \in Seq(Seq(Pieces))
    BY <1>5, TextsAre
  <2> QED BY <2>1, FlattenJoins DEF t
<1>9. Len(w) = Len(t) /\ \A m \in 1..Len(w) : Len(w[m]) = 1
  <2>1. Len(w) = Len(t) /\ \A m \in 1..Len(t) : w[m] = <<t[m]>>
    BY <1>7, <1>8, SinglesAre
  <2>2. ASSUME NEW x PROVE Len(<<x>>) = 1
    OBVIOUS
  <2>3. \A m \in 1..Len(t) : Len(w[m]) = 1
    BY <2>1, <2>2, Zenon
  <2> QED BY <2>1, <2>3
<1>10. \A j \in 1..Len(v) : \E m \in 1..Len(w) : w[m] = v[j]
  BY <1>4, <1>6 DEF Part
<1>11. \A j \in 1..Len(v) : Len(v[j]) = 1
  BY <1>9, <1>10
<1>12. Len(v) = Len(w)
  BY <1>4, <1>5, <1>9, <1>11, SinglesJoin DEF t
<1>13. \A i \in 1..Len(a) \ {k} : Values(a)[i] = <<>>
  BY <1>4, <1>6, <1>12 DEF Part
<1>14. Telling(a) = {k}
  BY <1>4, <1>13, ValuesAre
<1>15. k \in DOMAIN a
  BY <1>4, AssertionsAre
<1> QED BY <1>5, <1>11, <1>14, <1>15 DEF Plain, v

\* As one text the two give the same.
LEMMA TextAgrees ==
  ASSUME NEW t \in AllTexts, NEW name \in RoleNames
  PROVE  SAMLRoles(<<[name |-> name, values |-> <<t>>]>>) = JWTText(t)
<1> DEFINE r == [name |-> name, values |-> <<t>>]
           a == <<r>>
<1>1. DOMAIN a = {1} /\ a[1] = r
  OBVIOUS
<1>2. r.name = name /\ r.values = <<t>> /\ <<t>> # <<>>
  OBVIOUS
<1> HIDE DEF r, a
<1>3. \A m : Named(a, m) = IF m = name THEN {1} ELSE {}
  BY <1>1, <1>2 DEF Named
<1>4. Max({1}) = 1
  <2>1. {1} \in SUBSET (1..1) /\ {1} # {}
    OBVIOUS
  <2>2. Max({1}) \in {1}
    BY <2>1, MaxIs
  <2> QED BY <2>2
<1>5. AttributeText(a, name) = t
  BY <1>1, <1>2, <1>3, <1>4, FlattenOne DEF AttributeText
<1>6. \A m : m # name => AttributeText(a, m) = Empty
  BY <1>3 DEF AttributeText
<1>7. name = "roles" \/ name = "role"
  BY DEF RoleNames
<1>8. SAMLRoles(a) = Split(t)
  <2>1. CASE name = "roles"
    BY <1>5, <1>6, <2>1 DEF SAMLRoles, Coalesce
  <2>2. CASE name = "role"
    BY <1>5, <1>6, <2>2 DEF SAMLRoles, Coalesce
  <2> QED BY <1>7, <2>1, <2>2
<1>9. JWTText(t) = Split(t)
  BY DEF JWTText, ExtractStringSlice
<1> QED BY <1>8, <1>9 DEF a, r

\* A value that is no text does not count, wherever it stands.
LEMMA OtherIgnored ==
  ASSUME NEW v \in ValueLists, NEW p \in 1..Len(v) + 1
  PROVE  JWTList(InsertAt(v, p, Other)) = v
<1>1. v \in Seq(AllTexts) /\ Other \notin AllTexts
  BY ListsAre, TextsAre
<1>2. JWTList(InsertAt(v, p, Other)) = Texts(InsertAt(v, p, Other))
  BY DEF JWTList, ExtractStringSlice
<1> QED BY <1>1, <1>2, TextsOfInserted

\* For any pieces, and any number of roles and attributes: an assertion and a
\* JWT with the same values give the same roles just when one attribute alone
\* states them and no value has a comma (saml_adapter.go:99-149,
\* jwt_adapter.go:108-131).
THEOREM Agreement == RolesAgree
<1>1. \A a \in Assertions : SAMLRoles(a) = JWTList(Stated(a)) <=> Plain(a)
  BY PlainAgree, AgreePlain
<1> QED BY <1>1, TextAgrees, OtherIgnored DEF RolesAgree, Plain
=============================================================================
