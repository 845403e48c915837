---------------------------- MODULE HmacExchange ----------------------------
(***************************************************************************)
(* The HMAC adapter's exchange.  It trusts nothing of a blob but the name  *)
(* of its service until that service's secret, as the secret store had it  *)
(* at some moment of the call, confirms the whole of it.  Secrets change   *)
(* and are revoked meanwhile.  A secret stands for its own MAC key: two    *)
(* MACs are equal when secret and payload are.                             *)
(***************************************************************************)
EXTENDS Integers

CONSTANTS
  Calls,
  Services,    \* values of service_id
  Roles,       \* values of roles
  Secrets,
  NoSecret,    \* the store knows no secret for the service
  NoBlob,
  MaxChanges   \* bound on the changes in the store

ASSUME SecretsAssumption == NoSecret \notin Secrets
ASSUME BoundAssumption == MaxChanges \in Nat

Payloads == [service : Services, roles : Roles]
\* A blob's payload, or what is behind its dot, may not decode.
Blobs == [decodes : BOOLEAN, payload : Payloads, sigDecodes : BOOLEAN,
          secret : Secrets, signed : Payloads]
\* HMACSecret; every one is deprecated or not, which changes nothing.
Entries == [secret : Secrets, name : Services, deprecated : BOOLEAN]

VARIABLES
  store,     \* the secret store
  changes,   \* how often it has changed
  pc,        \* of each call: "idle", "lookup", "verify", "granted", "refused"
  blob,      \* what it was called with
  found,     \* what GetSecret returned to it
  identity,  \* what it returns
  seen       \* history: the entries its service has had since the call

vars == <<store, changes, pc, blob, found, identity, seen>>

NoIdentity == [subject |-> NoBlob]
IdentityType == [subject : Services, roles : Roles, name : Services, trust : {"low"}]

TypeOK ==
  /\ store \in [Services -> Entries \union {NoSecret}]
  /\ changes \in 0..MaxChanges
  /\ pc \in [Calls -> {"idle", "lookup", "verify", "granted", "refused"}]
  /\ blob \in [Calls -> Blobs \union {NoBlob}]
  /\ found \in [Calls -> Entries \union {NoSecret}]
  /\ identity \in [Calls -> IdentityType \union {NoIdentity}]
  /\ seen \in [Calls -> SUBSET (Entries \union {NoSecret})]

Init ==
  /\ store \in [Services -> Entries \union {NoSecret}]
  /\ changes = 0
  /\ pc = [c \in Calls |-> "idle"]
  /\ blob = [c \in Calls |-> NoBlob]
  /\ found = [c \in Calls |-> NoSecret]
  /\ identity = [c \in Calls |-> NoIdentity]
  /\ seen = [c \in Calls |-> {}]

Goto(c, step) == pc' = [pc EXCEPT ![c] = step]

\* The payload is decoded, without a check as yet.
Exchange(c) ==
  /\ pc[c] = "idle"
  /\ \E b \in Blobs :
       /\ blob' = [blob EXCEPT ![c] = b]
       /\ seen' = [seen EXCEPT ![c] = {store[b.payload.service]}]
       /\ Goto(c, IF b.decodes THEN "lookup" ELSE "refused")
  /\ UNCHANGED <<store, changes, found, identity>>

\* The store answers: with its entry, or an error.
GetSecret(c) ==
  /\ pc[c] = "lookup"
  /\ LET e == store[blob[c].payload.service]
     IN /\ found' = [found EXCEPT ![c] = e]
        /\ Goto(c, IF e = NoSecret THEN "refused" ELSE "verify")
  /\ UNCHANGED <<store, changes, blob, identity, seen>>

LookupFails(c) ==
  /\ pc[c] = "lookup"
  /\ Goto(c, "refused")
  /\ UNCHANGED <<store, changes, blob, found, identity, seen>>

\* Variant with a fault: the MAC of the service's name alone.
VerifiesService(b, e) ==
  b.sigDecodes /\ b.secret = e.secret /\ b.signed.service = b.payload.service

\* hmac.Equal of the signature and the MAC of the payload.
Verifies(b, e) == b.sigDecodes /\ b.secret = e.secret /\ b.signed = b.payload

\* Variant with a fault: the trust falls with the deprecation only.
TrustByAge(e) == IF e.deprecated THEN "low" ELSE "medium"

TrustLevel(e) == "low"

Verify(c) ==
  /\ pc[c] = "verify"
  /\ IF Verifies(blob[c], found[c])
       THEN /\ Goto(c, "granted")
            /\ identity' = [identity EXCEPT ![c] =
                 [subject |-> blob[c].payload.service,
                  roles |-> blob[c].payload.roles,
                  name |-> found[c].name,
                  trust |-> TrustLevel(found[c])]]
       ELSE Goto(c, "refused") /\ UNCHANGED identity
  /\ UNCHANGED <<store, changes, blob, found, seen>>

\* A secret is issued, rotated, deprecated or revoked.
Change(s) ==
  /\ changes < MaxChanges
  /\ \E e \in Entries \union {NoSecret} : store' = [store EXCEPT ![s] = e]
  /\ changes' = changes + 1
  /\ seen' = [c \in Calls |->
       IF pc[c] \in {"lookup", "verify"} /\ blob[c].payload.service = s
         THEN seen[c] \union {store'[s]} ELSE seen[c]]
  /\ UNCHANGED <<pc, blob, found, identity>>

Next ==
  \/ \E c \in Calls : Exchange(c) \/ GetSecret(c) \/ LookupFails(c) \/ Verify(c)
  \/ \E s \in Services : Change(s)

Spec == Init /\ [][Next]_vars

-----------------------------------------------------------------------------
(* Properties.                                                             *)

\* An identity rests on one entry that its service had at some moment of the
\* call: with its secret the whole of the blob was signed, and from it comes the
\* name.  A secret revoked before the call is of no use, however the store
\* changes between the lookup and the check (hmac_adapter.go:77-110).
RestsOnOneEntry ==
  \A c \in Calls :
    pc[c] = "granted" =>
      \E e \in seen[c] \ {NoSecret} :
        /\ blob[c].secret = e.secret /\ blob[c].signed = blob[c].payload
        /\ identity[c] = [subject |-> blob[c].signed.service,
                          roles |-> blob[c].signed.roles,
                          name |-> e.name, trust |-> "low"]
=============================================================================
