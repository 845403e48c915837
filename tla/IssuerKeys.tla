----------------------------- MODULE IssuerKeys -----------------------------
(***************************************************************************)
(* How a replica of the token exchange comes by the keys of the issuers it *)
(* trusts: main parses TRUSTED_ISSUERS, fetches the key document of one    *)
(* entry after another, with retries, and then serves with what it has     *)
(* until it is restarted.  The key endpoints are the environment: they may *)
(* fail any request, and change their document at any moment.              *)
(***************************************************************************)
EXTENDS Integers, Sequences

CONSTANTS
  Sources,       \* key endpoints
  Reliable,      \* the endpoints that answer every request
  Keys,          \* EC public keys
  Unusable,      \* a listed key of another type, or one that does not decode
  Documents,     \* the documents the endpoints may serve: sequences of keys
  NoKey,         \* an issuer without a key
  RawEntries,    \* TRUSTED_ISSUERS, split at the semicolons
  MaxAttempts,   \* attempts at an entry
  MaxRotations,  \* bound on the changes of documents
  MaxRestarts    \* bound on the restarts of the replica

\* An entry as written may be blank, or lack its "=".
RawEntryType ==
  [blank : BOOLEAN, assigns : BOOLEAN, name : STRING, source : Sources]

ASSUME SourcesAssumption == Reliable \subseteq Sources
ASSUME EntriesAssumption == RawEntries \in Seq(RawEntryType)
ASSUME KeysAssumption ==
  /\ NoKey \notin Keys /\ Unusable \notin Keys
  /\ Documents \subseteq Seq(Keys \union {Unusable})
ASSUME BoundsAssumption ==
  MaxAttempts \in Nat \ {0} /\ MaxRotations \in Nat /\ MaxRestarts \in Nat

-----------------------------------------------------------------------------
(* Configuration.                                                          *)

\* What trusted issuers there may be.
Names == {RawEntries[i].name : i \in DOMAIN RawEntries}

VARIABLES
  served,    \* the document each endpoint serves
  rotations, \* how many documents have been replaced
  restarts,  \* how often the replica has been restarted
  phase,     \* "parsing", then "fetching", then "serving"
  entries,   \* parseTrustedIssuers's result
  pos,       \* the entry main is parsing, or fetching for
  attempt,   \* which attempt at it, from 1
  loaded,    \* fetchAllJWKS's keys: the key of each issuer
  listed,    \* history: the keys seen listed for each issuer since the start
  requests   \* history: how many requests main has made since the start

vars == <<served, rotations, restarts, phase, entries, pos, attempt, loaded,
          listed, requests>>

TypeOK ==
  /\ served \in [Sources -> Documents]
  /\ rotations \in 0..MaxRotations
  /\ restarts \in 0..MaxRestarts
  /\ phase \in {"parsing", "fetching", "serving"}
  /\ entries \in Seq({RawEntries[i] : i \in DOMAIN RawEntries})
  /\ pos \in Nat \ {0}
  /\ attempt \in 1..MaxAttempts
  /\ loaded \in [Names -> Keys \union {NoKey}]
  /\ listed \in SUBSET (Names \X Keys)
  /\ requests \in Nat

NothingLoaded == [n \in Names |-> NoKey]

Init ==
  /\ served \in [Sources -> Documents]
  /\ rotations = 0
  /\ restarts = 0
  /\ phase = "parsing"
  /\ entries = <<>>
  /\ pos = 1
  /\ attempt = 1
  /\ loaded = NothingLoaded
  /\ listed = {}
  /\ requests = 0

-----------------------------------------------------------------------------
(* parseTrustedIssuers, one entry at a time.                               *)

ParseEntry ==
  /\ phase = "parsing"
  /\ pos <= Len(RawEntries)
  /\ LET raw == RawEntries[pos]
     IN entries' = IF raw.blank \/ ~raw.assigns THEN entries
                                                ELSE Append(entries, raw)
  /\ pos' = pos + 1
  /\ UNCHANGED <<served, rotations, restarts, phase, attempt, loaded, listed,
                 requests>>

EndParse ==
  /\ phase = "parsing"
  /\ pos > Len(RawEntries)
  /\ phase' = "fetching"
  /\ pos' = 1
  /\ UNCHANGED <<served, rotations, restarts, entries, attempt, loaded, listed,
                 requests>>

-----------------------------------------------------------------------------
(* fetchAllJWKS, one attempt at a time.                                    *)

\* Variant with a fault: the last entry is left out.
FetchingButLast == phase = "fetching" /\ pos < Len(entries)

Fetching == phase = "fetching" /\ pos <= Len(entries)

NextEntry == pos' = pos + 1 /\ attempt' = 1

\* Variant with a fault: the attempts without a result are not counted.
TryForever == UNCHANGED <<pos, attempt>>

\* Variant with a fault: one attempt too many.
TryOnceMore ==
  IF attempt <= MaxAttempts THEN attempt' = attempt + 1 /\ UNCHANGED pos
                            ELSE NextEntry

\* The attempt brought nothing: try again, or give the entry up.
TryAgain ==
  IF attempt < MaxAttempts THEN attempt' = attempt + 1 /\ UNCHANGED pos
                           ELSE NextEntry

MayFail == entries[pos].source \notin Reliable

\* No response: refused, or timed out.
FetchFails ==
  /\ Fetching
  /\ MayFail
  /\ TryAgain
  /\ requests' = requests + 1
  /\ UNCHANGED <<served, rotations, restarts, phase, entries, loaded, listed>>

\* Where a document has keys that are EC keys and decode.
Usable(doc) == {i \in DOMAIN doc : doc[i] # Unusable}

\* Each usable key replaces the one before, so that the last one stays.
LastUsable(doc, k) ==
  IF Usable(doc) = {} THEN k = NoKey
  ELSE \E i \in Usable(doc) : k = doc[i] /\ \A j \in Usable(doc) : j <= i

\* Variant with a fault: a key is taken for every issuer that has none yet.
StoreForAll(name, k) ==
  [n \in Names |->
     IF k # NoKey /\ (n = name \/ loaded[n] = NoKey) THEN k ELSE loaded[n]]

\* Variant with a fault: a document without a usable key takes the key away.
StoreAlways(name, k) == [loaded EXCEPT ![name] = k]

Store(name, k) == IF k = NoKey THEN loaded ELSE [loaded EXCEPT ![name] = k]

\* A response, of whatever status, with the key document doc.  An entry is
\* done with once its issuer has a key, be it from an entry before.
Answered(doc) ==
  /\ Fetching
  /\ LET name == entries[pos].name
     IN /\ \E k \in Keys \union {NoKey} :
             LastUsable(doc, k) /\ loaded' = Store(name, k)
        /\ listed' = listed \union {<<name, doc[i]>> : i \in Usable(doc)}
        /\ IF loaded'[name] # NoKey THEN NextEntry ELSE TryAgain
  /\ requests' = requests + 1
  /\ UNCHANGED <<served, rotations, restarts, phase, entries>>

\* Variant with a fault: the endpoint of the first entry is asked every time.
FetchFirstAnswers == Fetching /\ Answered(served[entries[1].source])

FetchAnswers == Fetching /\ Answered(served[entries[pos].source])

\* An error page, or a body that is cut off: it decodes to no keys.
FetchGarbled == Fetching /\ MayFail /\ Answered(<<>>)

\* Variant with a fault: main waits for a key of every issuer.
AllLoaded == pos > Len(entries) /\ \A n \in Names : loaded[n] # NoKey

\* Every entry has been tried, with or without success.
AllTried == pos > Len(entries)

\* main goes on to register its adapters and to listen.
Serve ==
  /\ phase = "fetching"
  /\ AllTried
  /\ phase' = "serving"
  /\ UNCHANGED <<served, rotations, restarts, entries, pos, attempt, loaded,
                 listed, requests>>

\* buildKeyFunc: what a token of issuer n signed with key k is checked with.
Accepts(n, k) == phase = "serving" /\ loaded[n] = k

-----------------------------------------------------------------------------
(* The environment.                                                        *)

\* An endpoint changes its document: legacy-jwt-app makes a new key at each start
\* and lists that alone.
Rotate(s) ==
  /\ rotations < MaxRotations
  /\ \E d \in Documents : served' = [served EXCEPT ![s] = d]
  /\ rotations' = rotations + 1
  /\ UNCHANGED <<restarts, phase, entries, pos, attempt, loaded, listed, requests>>

\* The replica is stopped, during its start too, and started again.
Restart ==
  /\ restarts < MaxRestarts
  /\ restarts' = restarts + 1
  /\ phase' = "parsing"
  /\ entries' = <<>>
  /\ pos' = 1
  /\ attempt' = 1
  /\ loaded' = NothingLoaded
  /\ listed' = {}
  /\ requests' = 0
  /\ UNCHANGED <<served, rotations>>

Next ==
  \/ ParseEntry \/ EndParse
  \/ FetchFails \/ FetchAnswers \/ FetchGarbled
  \/ Serve \/ Restart
  \/ \E s \in Sources : Rotate(s)

Spec == Init /\ [][Next]_vars

\* main keeps going: a request ends, if only by the client's timeout, and so
\* does a sleep.  Which endpoints answer is Reliable's word.
FairSpec ==
  /\ Spec
  /\ WF_vars(ParseEntry \/ EndParse)
  /\ WF_vars(FetchFails \/ FetchAnswers \/ FetchGarbled)
  /\ WF_vars(Serve)

-----------------------------------------------------------------------------
(* Properties.                                                             *)

\* A replica accepts only keys that an endpoint configured for the issuer
\* has listed to it since its own start, although attempts at one issuer's
\* endpoint come between changes of documents, failures and restarts
\* (main.go:196-229, 250-262).
AcceptedWasListed ==
  \A n \in Names, k \in Keys : Accepts(n, k) => <<n, k>> \in listed

\* An issuer of which an endpoint has listed a usable key is served with a
\* key: no later failure or document, of its second entry or of another
\* issuer's, loses it (main.go:211-226).
ListedIsServed ==
  phase = "serving" =>
    \A n \in Names : (\E k \in Keys : <<n, k>> \in listed) => loaded[n] # NoKey

\* What is served is what was listed, and all of it.
ServedIsListed == AcceptedWasListed /\ ListedIsServed

\* The entries that configure an issuer.
Configured == {i \in DOMAIN RawEntries : ~RawEntries[i].blank /\ RawEntries[i].assigns}

\* The key of an issuer changes only to the last usable one that an endpoint
\* configured for this issuer lists at that moment, and is lost only by a
\* restart: no failure, retry or rotation, and no other issuer's entry, gives
\* or takes it (main.go:192-231, 250-262).
KeyIsItsIssuers ==
  [][\A n \in Names :
       loaded'[n] # loaded[n] =>
         \/ \E i \in Configured :
              /\ RawEntries[i].name = n
              /\ LastUsable(served[RawEntries[i].source], loaded'[n])
              /\ loaded'[n] # NoKey
         \/ loaded' = NothingLoaded /\ restarts' = restarts + 1]_vars

\* A start makes a bounded number of requests, so that it is over in bounded
\* time whatever the endpoints do (main.go:194-197).
StartIsBounded == requests <= MaxAttempts * Len(entries)

\* A replica that is started comes to serve, whatever the endpoints do: no
\* entry, however often its endpoint fails, holds up the ones after it
\* (main.go:196-229).
StartEnds == phase = "parsing" ~> phase = "serving"

\* An issuer that is configured once, at this endpoint.
Sole(n, s) ==
  /\ \E i \in DOMAIN RawEntries : RawEntries[i] =
        [blank |-> FALSE, assigns |-> TRUE, name |-> n, source |-> s]
  /\ \A i, j \in DOMAIN RawEntries :
       RawEntries[i].name = n /\ RawEntries[j].name = n => i = j

\* A start learns the key that an issuer lists by then and goes on to list
\* at an endpoint that answers, whatever the replica knew before it was
\* stopped, and whatever the other entries bring (main.go:52, 192-231).
RestartLearns ==
  \A n \in Names, s \in Reliable, k \in Keys :
    Sole(n, s) =>
      [](phase = "parsing" /\ [](served[s] = <<k>>) => <>[]Accepts(n, k))

\* A key that its issuer lists alone, from some time on, is accepted from
\* some time on, without a restart (main.go:52, 192-231).
RotationIsLearned ==
  \A n \in Names, s \in Reliable, k \in Keys :
    Sole(n, s) => (<>[](served[s] = <<k>>) => <>[]Accepts(n, k))
=============================================================================
