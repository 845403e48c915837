-------------------------- MODULE IssuerKeysProofs --------------------------
(***************************************************************************)
(* Proofs about IssuerKeys, for any configuration, documents and bounds.   *)
(***************************************************************************)
EXTENDS IssuerKeys, TLAPS

Raws == {RawEntries[i] : i \in DOMAIN RawEntries}

\* The requests made so far are those of the entries given up or done with,
\* and the attempts at the present one.
RequestsCounted ==
  /\ phase = "parsing" => requests = 0 /\ attempt = 1
  /\ phase # "parsing" =>
       /\ pos <= Len(entries) + 1
       /\ pos > Len(entries) => attempt = 1
       /\ requests <= MaxAttempts * (pos - 1) + attempt - 1

\* An issuer has a key exactly when it has been listed one, and that is one of
\* those it has been listed.
KeyIsListed ==
  \A n \in Names :
    /\ loaded[n] # NoKey => <<n, loaded[n]>> \in listed
    /\ (\E k \in Keys : <<n, k>> \in listed) => loaded[n] # NoKey

IInv == TypeOK /\ RequestsCounted /\ KeyIsListed

\* Facts about products, which the prover needs one by one.
LEMMA OneMore ==
  ASSUME NEW m \in Nat, NEW a \in Nat
  PROVE  m * a \in Nat /\ m * (a + 1) = m * a + m
  OBVIOUS

LEMMA Monotone ==
  ASSUME NEW m \in Nat, NEW a \in Nat, NEW b \in Nat, a <= b
  PROVE  m * a <= m * b
<1>1. PICK d \in Nat : b = a + d
  BY b - a \in Nat, b = a + (b - a)
<1>2. m * b = m * a + m * d /\ m * d >= 0
  BY <1>1
<1> QED BY <1>2

\* What the entries under consideration are.
LEMMA EntryFields ==
  ASSUME IInv, Fetching
  PROVE  /\ entries[pos].name \in Names
         /\ entries[pos].source \in Sources
         /\ Len(entries) \in Nat
<1>1. entries[pos] \in Raws
  BY DEF IInv, TypeOK, Fetching, Raws
<1>2. PICK i \in DOMAIN RawEntries : entries[pos] = RawEntries[i]
  BY <1>1 DEF Raws
<1>3. RawEntries[i] \in RawEntryType
  BY EntriesAssumption
<1> QED BY <1>2, <1>3 DEF RawEntryType, Names, IInv, TypeOK

\* An attempt without a result is counted, and the attempts are bounded.
LEMMA TryAgainCounts ==
  ASSUME IInv, Fetching, TryAgain, requests' = requests + 1,
         UNCHANGED <<phase, entries>>
  PROVE  /\ RequestsCounted'
         /\ attempt' \in 1..MaxAttempts /\ pos' \in Nat \ {0} /\ requests' \in Nat
<1>1. /\ MaxAttempts \in Nat \ {0} /\ attempt \in 1..MaxAttempts
      /\ pos \in Nat \ {0} /\ requests \in Nat /\ Len(entries) \in Nat
  BY BoundsAssumption, EntryFields DEF IInv, TypeOK
<1>2. MaxAttempts * ((pos - 1) + 1) = MaxAttempts * (pos - 1) + MaxAttempts
  BY <1>1, OneMore
<1>3. MaxAttempts * (pos - 1) \in Nat /\ MaxAttempts * pos \in Nat /\ (pos - 1) + 1 = pos
  BY <1>1, OneMore
<1> QED BY <1>1, <1>2, <1>3 DEF TryAgain, NextEntry, Fetching, IInv, RequestsCounted

LEMMA NextEntryCounts ==
  ASSUME IInv, Fetching, NextEntry, requests' = requests + 1,
         UNCHANGED <<phase, entries>>
  PROVE  /\ RequestsCounted'
         /\ attempt' \in 1..MaxAttempts /\ pos' \in Nat \ {0} /\ requests' \in Nat
<1>1. /\ MaxAttempts \in Nat \ {0} /\ attempt \in 1..MaxAttempts
      /\ pos \in Nat \ {0} /\ requests \in Nat /\ Len(entries) \in Nat
  BY BoundsAssumption, EntryFields DEF IInv, TypeOK
<1>2. MaxAttempts * ((pos - 1) + 1) = MaxAttempts * (pos - 1) + MaxAttempts
  BY <1>1, OneMore
<1>3. MaxAttempts * (pos - 1) \in Nat /\ MaxAttempts * pos \in Nat /\ (pos - 1) + 1 = pos
  BY <1>1, OneMore
<1> QED BY <1>1, <1>2, <1>3 DEF NextEntry, Fetching, IInv, RequestsCounted

LEMMA InitInv == Init => IInv
  BY BoundsAssumption, KeysAssumption
  DEF Init, IInv, TypeOK, RequestsCounted, KeyIsListed, NothingLoaded

\* One response, whatever its document.
LEMMA AnsweredInv ==
  ASSUME IInv, NEW doc \in Seq(Keys \union {Unusable}), Answered(doc)
  PROVE  IInv'
<1> DEFINE name == entries[pos].name
<1>1. Fetching /\ name \in Names
  BY EntryFields DEF Answered
<1>2. PICK k \in Keys \union {NoKey} : LastUsable(doc, k) /\ loaded' = Store(name, k)
  BY DEF Answered
<1>3. loaded' \in [Names -> Keys \union {NoKey}]
  BY <1>1, <1>2 DEF Store, IInv, TypeOK
<1>4. \A i \in Usable(doc) : doc[i] \in Keys
  BY DEF Usable
<1>5. listed' = listed \union {<<name, doc[i]>> : i \in Usable(doc)}
  BY DEF Answered
<1>6. listed' \in SUBSET (Names \X Keys)
  BY <1>1, <1>4, <1>5 DEF IInv, TypeOK
<1>7. /\ RequestsCounted'
      /\ attempt' \in 1..MaxAttempts /\ pos' \in Nat \ {0} /\ requests' \in Nat
  <2>1. NextEntry \/ TryAgain
    BY DEF Answered
  <2>2. requests' = requests + 1 /\ UNCHANGED <<phase, entries>>
    BY DEF Answered
  <2> QED BY <1>1, <2>1, <2>2, NextEntryCounts, TryAgainCounts
<1>8. TypeOK'
  BY <1>3, <1>6, <1>7 DEF Answered, IInv, TypeOK
<1>9. KeyIsListed'
  <2> SUFFICES ASSUME NEW n \in Names
               PROVE  /\ loaded'[n] # NoKey => <<n, loaded'[n]>> \in listed'
                      /\ (\E x \in Keys : <<n, x>> \in listed') => loaded'[n] # NoKey
    BY DEF KeyIsListed
  <2>1. CASE k = NoKey
    <3>1. Usable(doc) = {}
      <4>1. SUFFICES ASSUME Usable(doc) # {} PROVE FALSE
        OBVIOUS
      <4>2. \E i \in Usable(doc) : k = doc[i]
        BY <1>2, <4>1 DEF LastUsable
      <4> QED BY <2>1, <4>2, <1>4, KeysAssumption
    <3>2. loaded' = loaded /\ listed' = listed
      BY <2>1, <1>2, <1>5, <3>1 DEF Store
    <3> QED BY <3>2 DEF IInv, KeyIsListed
  <2>2. CASE k # NoKey
    <3>1. \E i \in Usable(doc) : k = doc[i]
      BY <2>2, <1>2 DEF LastUsable
    <3>2. <<name, k>> \in listed'
      BY <3>1, <1>5
    <3>3. loaded' = [loaded EXCEPT ![name] = k]
      BY <2>2, <1>2 DEF Store
    <3>4. CASE n = name
      BY <3>2, <3>3, <3>4, <1>1, <2>2 DEF IInv, TypeOK
    <3>5. CASE n # name
      <4>1. loaded'[n] = loaded[n]
        BY <3>3, <3>5 DEF IInv, TypeOK
      <4>2. \A x \in Keys : <<n, x>> \in listed' => <<n, x>> \in listed
        BY <1>5, <3>5
      <4> QED BY <4>1, <4>2, <1>5 DEF IInv, KeyIsListed
    <3> QED BY <3>4, <3>5
  <2> QED BY <2>1, <2>2
<1> QED BY <1>7, <1>8, <1>9 DEF IInv

LEMMA KeysKept ==
  ASSUME IInv, UNCHANGED <<loaded, listed>>
  PROVE  KeyIsListed'
  BY DEF IInv, KeyIsListed

\* One case for each action.
LEMMA StepInv == IInv /\ [Next]_vars => IInv'
<1> SUFFICES ASSUME IInv, [Next]_vars PROVE IInv'
  OBVIOUS
<1>1. CASE ParseEntry
  <2>1. entries' \in Seq(Raws)
    BY <1>1 DEF ParseEntry, IInv, TypeOK, Raws
  <2>2. TypeOK'
    BY <1>1, <2>1 DEF ParseEntry, IInv, TypeOK, Raws
  <2>3. RequestsCounted'
    BY <1>1 DEF ParseEntry, IInv, RequestsCounted
  <2> QED BY <1>1, <2>2, <2>3, KeysKept DEF ParseEntry, IInv
<1>2. CASE EndParse
  <2>1. MaxAttempts * 0 = 0 /\ 1 - 1 = 0 /\ Len(entries) \in Nat
    BY BoundsAssumption DEF IInv, TypeOK
  <2>2. RequestsCounted'
    BY <1>2, <2>1 DEF EndParse, IInv, TypeOK, RequestsCounted
  <2>3. TypeOK'
    BY <1>2 DEF EndParse, IInv, TypeOK
  <2> QED BY <1>2, <2>2, <2>3, KeysKept DEF EndParse, IInv
<1>3. CASE FetchFails
  <2>1. /\ RequestsCounted'
        /\ attempt' \in 1..MaxAttempts /\ pos' \in Nat \ {0} /\ requests' \in Nat
    BY <1>3, TryAgainCounts DEF FetchFails
  <2> QED BY <1>3, <2>1 DEF FetchFails, IInv, TypeOK, KeyIsListed
<1>4. CASE FetchAnswers
  <2>1. served[entries[pos].source] \in Seq(Keys \union {Unusable})
    BY <1>4, EntryFields, KeysAssumption DEF FetchAnswers, IInv, TypeOK
  <2> QED BY <1>4, <2>1, AnsweredInv DEF FetchAnswers
<1>5. CASE FetchGarbled
  <2>1. <<>> \in Seq(Keys \union {Unusable})
    OBVIOUS
  <2> QED BY <1>5, <2>1, AnsweredInv DEF FetchGarbled
<1>6. CASE Serve
  BY <1>6 DEF Serve, AllTried, IInv, TypeOK, RequestsCounted, KeyIsListed
<1>7. CASE Restart
  <2>1. KeyIsListed'
    BY <1>7 DEF Restart, NothingLoaded, KeyIsListed
  <2>2. RequestsCounted'
    BY <1>7 DEF Restart, RequestsCounted
  <2> QED
    BY <1>7, <2>1, <2>2, BoundsAssumption DEF Restart, NothingLoaded, IInv, TypeOK
<1>8. CASE \E s \in Sources : Rotate(s)
  <2>1. PICK s \in Sources : Rotate(s)
    BY <1>8
  <2>2. TypeOK'
    BY <2>1, BoundsAssumption DEF Rotate, IInv, TypeOK
  <2>3. RequestsCounted'
    BY <2>1 DEF Rotate, IInv, RequestsCounted
  <2> QED BY <2>1, <2>2, <2>3, KeysKept DEF Rotate, IInv
<1>9. CASE UNCHANGED vars
  BY <1>9 DEF vars, IInv, TypeOK, RequestsCounted, KeyIsListed
<1> QED
  BY <1>1, <1>2, <1>3, <1>4, <1>5, <1>6, <1>7, <1>8, <1>9 DEF Next

LEMMA Inductive == Spec => []IInv
  BY InitInv, StepInv, PTL DEF Spec

\* Every reachable state has the types that TypeOK states.
THEOREM TypeCorrect == Spec => []TypeOK
<1>1. IInv => TypeOK
  BY DEF IInv
<1> QED BY <1>1, Inductive, PTL

\* Only listed keys are accepted, for any configuration and any behaviour of
\* the endpoints.
THEOREM OnlyListed == Spec => []AcceptedWasListed
<1>1. IInv => AcceptedWasListed
  BY KeysAssumption DEF IInv, TypeOK, KeyIsListed, AcceptedWasListed, Accepts
<1> QED BY <1>1, Inductive, PTL

\* No key that has been listed is lost.
THEOREM NoneLost == Spec => []ListedIsServed
<1>1. IInv => ListedIsServed
  BY DEF IInv, KeyIsListed, ListedIsServed
<1> QED BY <1>1, Inductive, PTL

\* A replica serves an issuer exactly when a usable key of it was listed, and
\* with such a key (main.go:196-229, 250-262).
THEOREM Exact == Spec => []ServedIsListed
<1>1. AcceptedWasListed /\ ListedIsServed => ServedIsListed
  BY DEF ServedIsListed
<1> QED BY <1>1, OnlyListed, NoneLost, PTL

\* A start makes no more requests than the attempts at each entry allow.
THEOREM Bounded == Spec => []StartIsBounded
<1>1. IInv => StartIsBounded
  <2> SUFFICES ASSUME IInv PROVE requests <= MaxAttempts * Len(entries)
    BY DEF StartIsBounded
  <2>1. /\ MaxAttempts \in Nat \ {0} /\ attempt \in 1..MaxAttempts
        /\ pos \in Nat \ {0} /\ requests \in Nat /\ Len(entries) \in Nat
    BY BoundsAssumption DEF IInv, TypeOK
  <2>2. MaxAttempts * Len(entries) \in Nat /\ MaxAttempts * (pos - 1) \in Nat
    BY <2>1, OneMore
  <2>3. CASE phase = "parsing"
    BY <2>2, <2>3 DEF IInv, RequestsCounted
  <2>4. CASE phase # "parsing" /\ pos > Len(entries)
    <3>1. pos - 1 = Len(entries) /\ attempt = 1
      BY <2>1, <2>4 DEF IInv, RequestsCounted
    <3> QED BY <2>1, <2>2, <2>4, <3>1 DEF IInv, RequestsCounted
  <2>5. CASE phase # "parsing" /\ pos <= Len(entries)
    <3>1. MaxAttempts * ((pos - 1) + 1) = MaxAttempts * (pos - 1) + MaxAttempts
      BY <2>1, OneMore
    <3>2. MaxAttempts * pos <= MaxAttempts * Len(entries) /\ (pos - 1) + 1 = pos
      BY <2>1, <2>5, Monotone
    <3>3. MaxAttempts * pos \in Nat
      BY <2>1, OneMore
    <3> QED BY <2>1, <2>2, <2>5, <3>1, <3>2, <3>3 DEF IInv, RequestsCounted
  <2> QED BY <2>1, <2>3, <2>4, <2>5
<1> QED BY <1>1, Inductive, PTL

-----------------------------------------------------------------------------
(* Where the keys come from.                                               *)

\* What has been parsed is configured.
OnlyConfigured == \A j \in DOMAIN entries : \E i \in Configured : entries[j] = RawEntries[i]

LEMMA ConfiguredStep ==
  ASSUME IInv, OnlyConfigured, [Next]_vars PROVE OnlyConfigured'
<1>0. entries \in Seq(Raws)
  BY DEF IInv, TypeOK, Raws
<1>1. CASE ParseEntry
  <2>1. pos \in DOMAIN RawEntries
    BY <1>1, EntriesAssumption DEF ParseEntry, IInv, TypeOK
  <2>2. CASE entries' = entries
    BY <2>2 DEF OnlyConfigured
  <2>3. CASE entries' # entries
    <3>1. entries' = Append(entries, RawEntries[pos]) /\ pos \in Configured
      BY <1>1, <2>1, <2>3 DEF ParseEntry, Configured
    <3> SUFFICES ASSUME NEW j \in DOMAIN entries'
                 PROVE  \E i \in Configured : entries'[j] = RawEntries[i]
      BY DEF OnlyConfigured
    <3>2. CASE j \in DOMAIN entries
      BY <1>0, <3>1, <3>2 DEF OnlyConfigured
    <3>3. CASE j \notin DOMAIN entries
      <4>1. j = Len(entries) + 1 /\ entries'[j] = RawEntries[pos]
        BY <1>0, <3>1, <3>3, <2>1 DEF Raws
      <4> QED BY <3>1, <4>1
    <3> QED BY <3>2, <3>3
  <2> QED BY <2>2, <2>3
<1>2. CASE Restart
  BY <1>2 DEF Restart, OnlyConfigured
<1>3. CASE entries' = entries
  BY <1>3 DEF OnlyConfigured
<1> QED
  BY <1>1, <1>2, <1>3
     DEF Next, EndParse, FetchFails, FetchAnswers, FetchGarbled, Answered, Serve,
         Rotate, vars

\* A response changes the key of its entry's issuer only, and to its last
\* usable one.
LEMMA AnswerChanges ==
  ASSUME IInv, NEW doc, Answered(doc), NEW n \in Names, loaded'[n] # loaded[n]
  PROVE  /\ n = entries[pos].name /\ loaded'[n] # NoKey
         /\ LastUsable(doc, loaded'[n])
<1>1. PICK k \in Keys \union {NoKey} :
        LastUsable(doc, k) /\ loaded' = Store(entries[pos].name, k)
  BY DEF Answered
<1>2. k # NoKey /\ loaded' = [loaded EXCEPT ![entries[pos].name] = k]
  BY <1>1 DEF Store
<1>3. n = entries[pos].name /\ loaded'[n] = k
  BY <1>2 DEF IInv, TypeOK
<1> QED BY <1>1, <1>2, <1>3

\* An empty document has no usable key.
LEMMA NoneInEmpty == \A k : LastUsable(<<>>, k) => k = NoKey
  BY DEF LastUsable, Usable

\* Each change of a key is one that its own issuer's endpoints account for.
THEOREM Sourced == Spec => KeyIsItsIssuers
<1> DEFINE Accounted(n) ==
      loaded'[n] # loaded[n] =>
        \/ \E i \in Configured :
             /\ RawEntries[i].name = n
             /\ LastUsable(served[RawEntries[i].source], loaded'[n])
             /\ loaded'[n] # NoKey
        \/ loaded' = NothingLoaded /\ restarts' = restarts + 1
<1>1. Init => OnlyConfigured
  BY DEF Init, OnlyConfigured
<1>2. IInv /\ OnlyConfigured /\ [Next]_vars => [\A n \in Names : Accounted(n)]_vars
  <2> SUFFICES ASSUME IInv, OnlyConfigured, Next, NEW n \in Names,
                      loaded'[n] # loaded[n]
               PROVE  \/ \E i \in Configured :
                           /\ RawEntries[i].name = n
                           /\ LastUsable(served[RawEntries[i].source], loaded'[n])
                           /\ loaded'[n] # NoKey
                      \/ loaded' = NothingLoaded /\ restarts' = restarts + 1
    BY DEF vars
  <2>1. CASE FetchAnswers
    <3>1. pos \in DOMAIN entries
      BY <2>1 DEF FetchAnswers, Fetching, IInv, TypeOK
    <3>2. PICK i \in Configured : entries[pos] = RawEntries[i]
      BY <3>1 DEF OnlyConfigured
    <3> QED BY <2>1, <3>2, AnswerChanges DEF FetchAnswers
  <2>2. CASE FetchGarbled
    BY <2>2, AnswerChanges, NoneInEmpty DEF FetchGarbled
  <2>3. CASE Restart
    BY <2>3 DEF Restart
  <2> QED
    BY <2>1, <2>2, <2>3 DEF Next, ParseEntry, EndParse, FetchFails, Serve, Rotate
<1> QED BY <1>1, <1>2, ConfiguredStep, Inductive, PTL DEF Spec, KeyIsItsIssuers
=============================================================================
