# Formal model of the identity fabric

TLA+ modules, TLC configurations and TLAPS proofs for the Go code of this
repository: the SDK (its client, key cache, middleware, policy query and exchange
call), the policies, the token exchange service with its adapters, and the way
that service comes by its issuers' keys.

## The system

A service that uses the SDK receives a request with a token. A token that is
not canonical is sent to the **token exchange**, which finds the adapter for
its type, has it checked, and mints a canonical token: an ES256 JWT with the
caller's roles, trust level and authentication method. The **SDK** validates
canonical tokens with keys from a JWKS endpoint that it caches, and asks the
**policy engine** (OPA with the rego policies) about each access.

| Part | State it keeps | Operations | What makes it hard |
|---|---|---|---|
| SDK key cache `sdk/go/jwks.go` | `keys`, `fetchedAt` behind a `RWMutex` | `KeyFunc`, `refreshIfStale`, `fetch` | double-checked refresh by concurrent callers, HTTP under the write lock, keys read after the lock was released, failing fetches |
| SDK client `sdk/go/identity.go`, `helpers.go` | the global client, a `sync.Once` | `Init`, `GetClient`, `ValidateToken`, `CheckPolicy`, `ExchangeToken` | `Init` replaces its own `Once` and the global without a lock; a 2 s timeout against a service that takes up to 5 s; answers of gateways, cut answers |
| SDK middleware `sdk/go/middleware.go` | none | `AuthMiddlewareWithOptions`, `RequireRole`, `meetsMinTrust` | the order of its checks; clocks that differ; a policy query that may not return |
| Token exchange handler `exchange/handler.go` | one goroutine per request | `ServeHTTP`, `exchange` | many exits; a deadline of 5 s inside the server's 10 s |
| HTTP server and shutdown `cmd/server/main.go` | connections, timers | serve, signal, `Shutdown` | read, write, lookup and shutdown timers that fire in any order |
| Metrics middleware `observability/middleware.go`, `metrics.go` | a gauge and counters | `MetricsMiddleware`, `SetAdapter` | metrics written by separate steps of concurrent handlers, read one after another |
| Adapters and registry `adapter/*.go` | a map that is fixed at the start | `Register`, `Get`, `Detect`, `Exchange` | detection over a Go map, whose order changes; four ways to roles and subjects; secrets that change during a call |
| Canonical tokens `canonical/token.go` | the signing key, in memory | `Mint`, `Validate` | lifetime by scope, times in whole seconds, clocks of two hosts |
| Issuer keys `cmd/server/main.go` | a map issuer → key, built at the start | `parseTrustedIssuers`, `fetchAllJWKS`, `buildKeyFunc` | endpoints that fail or rotate during and after the start, restarts |
| Session store `local-dev/mock-services/opaque-token-app` | sessions behind a `RWMutex` | `/login`, `/validate` | its verdict is old when it is used |
| Policies `policies/**/*.rego` | none | `allow`, `deny` | which of the rules the SDK reads |

`RequireRole` does not compile as it stands (`middleware.go:86-93`: the loop
variable hides the request), and with it the SDK's package; the other parts of the
SDK are modelled as if it did.

How they interact: the SDK's cache and the service's start-up fetch key
documents over HTTP; the SDK's client asks OPA and the token exchange over HTTP
with a timeout of its own; the opaque adapter asks the session store over HTTP with
the handler's context; the handler tells the metrics middleware the adapter's
name through the response writer; the signal handler and the request
goroutines meet in `Shutdown`.

What makes each part correct: of the cache, that a key comes from one published document
that was fresh when it was asked for; of the service, that every request ends, is
answered if it was prompt, is counted once and under its adapter, and gets a token that
does not outlive its grounds; of the start, that it ends and accepts only listed keys;
of the adapters, that an HMAC identity rests on one secret that was in force, and that
it is known when roles depend on the adapter and on an issuer's way of writing them (the
SAML adapter checks no signature: its identities rest on the assertion's text); of
policies and middleware, that they fail closed, in time, and that a deny rule counts; of
`Init`, that a call takes effect whatever others have left behind.

## Modules

| Module | Models | Used by |
|---|---|---|
| `KeySet` | key documents, which keys of one are kept, which key a header selects | `KeySetCache`, `JWKSCache` |
| `KeySetCache` | what the key cache promises: a snapshot replaced in one step (abstract specification) | refinement in `JWKSCache` |
| `JWKSCache` | `sdk/go/jwks.go`, with its lock, both checks and the fetch | `MCJWKSCache`, `JWKSCacheProofs` |
| `TokenAdapters` | the adapters: detection, local exchange | `TokenExchange` |
| `TokenService` | what the token exchange promises: a request is decided once, on a recent verdict (abstract specification) | refinement in `TokenExchange`; the service in `SdkExchange` |
| `TokenExchange` | server, handler, metrics, lookup, shutdown, time | `MCTokenExchange`, `TokenExchangeProofs`, `TokenExchangeRefines` |
| `ClaimMapping` | roles from claims and assertions, and what an assertion states | `MCAdapters`, `AdaptersProofs` |
| `HmacExchange` | the HMAC adapter's exchange against a changing secret store | `MCAdapters`, `AdaptersProofs` |
| `IssuerKeys` | configuration and key loading at the start, restarts | `MCIssuerKeys`, `IssuerKeysProofs` |
| `Policies` | the rego rules as operators on a query's input | `SdkAccess` |
| `AccessMonitor` | what access control promises: one decision about each request, under the rights of one moment (abstract specification) | refinement in `SdkAccess` |
| `SdkAccess` | middleware, `ValidateToken` by a clock of its own, `CheckPolicy` and its query | `MCSdkAccess`, `SdkAccessProofs` |
| `SdkClient` | `Init` and the `sync.Once` that it replaces | `MCSdkClient`, `SdkClientProofs` |
| `SdkExchange` | `ExchangeToken`, composed with `TokenService` and a network | `MCSdkExchange`, `SdkExchangeProofs` |
| `MC*` | the small instances TLC checks | the configurations |
| `*Proofs`, `TokenExchangeRefines` | the inductive invariants and the theorems | |

Definitions whose comment says *variant with a fault* are not part of a model:
each is a plausible mistake at one place of the code, and replacing the
definition it is a variant of makes one of the properties fail. They document
what the properties can tell.

### JWKSCache

`keys`, `fetchedAt` and `writer` are the cache's fields and its mutex; `pc[c]`
is where goroutine `c` is in `ValidateToken`. `Check` is the first freshness
check (`jwks.go:57-63`), `LockFresh` and `LockFetch` the two outcomes of the
second one (65-72), `Answer` the endpoint's side of `http.Get`, `Install` and
`FetchFailed` the two ways out of `fetch` (84-107, 80-93), `KeyFunc` the closure
(34-53). A section under the read lock makes no call that blocks: it is one step,
which needs that there is no writer. The zero time of a new cache is `-TTL`,
which is stale at every clock. Key material is left out: a document is the set of
its key ids, an id that is missing is `NoKid`. `docs` is the endpoint's history;
`ver`, `calledAt`, `sentAt` and `took` are history variables: which document the snapshot
is, when the pending calls were made and the request under way was sent, and how long
the fetch of the snapshot took.

### TokenExchange

`stage[r]` follows a request: `connected` (no header yet), `body` (in the handler,
before or in `Decode`), `lookup` (in the opaque adapter's HTTP call), `respond` (the
handler has decided), `counted` (the middleware has counted it), `left` (the middleware
has returned), then `done`, or `closed` (no request came), or `cut` (the process
exited). The actions are, in the order of a request: `Connect`; `Header`
(`middleware.go:77`, `handler.go:55-58`); `CloseUnused` (the server closes a connection
without request); `BodyLost` (61-64); `Reject` (66-75, 106-119); `ExchangeLocally` (the
JWT and SAML adapters, 125-177); `StartLookup`, `StoreReplies`, `Grant` and
`LookupFails` (the opaque adapter, `main.go:269-291` and the store's `handleValidate`);
`Count`, `Leave` and `Flush` (the middleware's counter, `middleware.go:99`, its deferred
`Dec`, 78, and then the server's flush, three steps with others' between them). `Signal`
and `Exit` are `main.go:125-133`.

Time is in countdowns. `Tick` decrements all of them together, and is held back
while a timer is due or a goroutine can run: local computation takes no time
compared with the timers, waiting takes as long as they allow. `readLeft` starts
at the accept and `writeLeft` at the end of the header, as `net/http` sets its
deadlines; `lookupLeft` is the handler's context; `drainLeft` the shutdown's.
`net/http` ends the request's context when it finds the connection closed, or its
read deadline past, while it reads ahead; it reads ahead only behind the end of
the body, so that this may happen but need not: `LookupFails` allows it and no
fairness relies on it. An answer is written at the end of the handler; at
the very instant of the write deadline either outcome is possible. The two floors
of `Tick` keep `life` and `writeLeft` finite; they lie beyond every value that an
action or a property tells apart.

In `TokenAdapters`, a token is a record of what the code tells apart about its text
(`TokenShape`), and `IsText` says which records are texts. `Candidates` is the set of
adapters that `Registry.Get` or `Registry.Detect` may return. `Ambiguous` names the one
overlap of what they detect: an assertion whose base64 is also a session id.

`TokenService` knows requests, their subject tokens and one decision each: `Ask`,
then `Grant`, `Refuse` or `Drop`, with time as `Age`. A grant needs a subject token
that was alive no longer than `MaxStale` ago. `TokenExchange` maps to it by
`Decision`: a request is granted from the moment that the handler has decided on
200, refused from any other status on, dropped when its connection is closed or the
process ends first; `MaxStale` is the lookup's deadline, and tokens without an
expiry are not `Mortal`.

### IssuerKeys

`pos` and `attempt` are the loop variables of `parseTrustedIssuers` and
`fetchAllJWKS`, `entries` the former's result and `loaded` the latter's map.
`ParseEntry` drops blank entries and those without a `=` (`main.go:144-163`). One
attempt is one step: `FetchFails` (`client.Get` returns an error),
`FetchAnswers` (the document the endpoint serves), or `FetchGarbled` (a body that
does not decode, which the code takes for a document without keys); the endpoints in
`Reliable` do only the second. Of the usable
keys of a document the last one stays (`LastUsable`). `Serve` is `main` going on to
listen; `Restart` may come at any moment. `listed` and `requests` are history
variables. `Configured` is what remains of the configuration after parsing, as the
properties read it. The sleeps between attempts and the client's
timeout take no part: no property depends on how long an attempt takes. `Rotate`
is what `legacy-jwt-app` does at each of its starts: a new key, listed alone.

### Policies and SdkAccess

`Policies` states each rule of the rego files on a record, the query's input. A rule
that looks at a member that is missing is undefined and does not hold, which matters
for `pci_scope`. A name such as `order.read` is a pair.

In `SdkAccess`, `Arrive` is the middleware up to the bearer token
(`middleware.go:38-48`), `KeysFail` and `Validate` are `ValidateToken` and the two
options (50-67), and the service's handler asks `CheckPolicy` at once, if the service
asks it at all (`config.policy`), and refuses what is not allowed. No code of the
repository calls `CheckPolicy`, and the playbook's example leaves the policy to the
middleware, which does not query it either (see *Observations*); a handler that asks is
what the client's interface is for, so that *served* means, where `config.policy` holds,
that `CheckPolicy` has answered `allow`. `Decide` is OPA's part, `ReadAnswer` and
`QueryFails` are `evaluatePolicy` (`helpers.go:56-71`). `ChangeGrants` replaces
`data.permissions`, at any moment; `seen` records which grants a query met while it was
undecided. Times count from the token's minting, on its minter's clock; the service's
clock is off by up to `MaxSkew` either way, chosen anew for each validation. `frac` is
how far into its second a token was minted, and `IssuedAt` and `ExpiresAt` are cut to
seconds as `NumericDate` is. `CachedKeyType` is what the cache holds (`jwks.go:101`) and
`KeyTypesTaken` what the JWT library verifies with. golang-jwt's ES256 takes ECDSA keys
only, so that in the program as it stands every token is refused there: that is the
theorem `NoneIsAccepted`. The instances suppose that the library takes what the cache
holds, so that what comes after the verification is looked at; the safety properties
that they check are proved for either case. What the cache does until it has a key is
`JWKSCache`'s.

`AccessMonitor` decides each request in one step, under the rights of that moment, and
serves only what it has approved. `SdkAccess` maps to it by `Entitled`, what a guarded
ask needs to be served under the grants as they are, and by `Verdict`: a request is asked
from its arrival on, approved once OPA has answered "allow" under those grants, served
when the handler has read that, and refused in all other ends, with an answer that
cannot be read and an answer that comes too late among them. Without a policy,
validation and approval are one step.

### SdkClient

The steps of `Init` are `Reset` (`identity.go:46`), those of `Once.Do` (`Check`,
`Lock`, `Recheck`, `Store`, `Unlock`), and in between `Create` (48-54). `Reset` writes
the whole `Once`: flag, mutex and count of waiters. A sleeper that the mutex no
longer knows of is never woken, and an unlock of a mutex that a `Reset` has freed
ends the process (`crashed`); both are reachable in the model, and so is a call that
returns no error and installs nothing. `alone` is a history variable: no other call
has run while this one did.

The order of memory writes is that of the steps. The data race on the `Once` allows
more; `AloneTakesEffect` is about calls that run alone.

### SdkExchange

The service is an instance of `TokenService`, whose `Ask`, `Grant`, `Refuse` and `Drop`
are combined with the sending of an answer; the network may deliver late, cut a body
(`Garble`), or something else may answer in the service's place, with an error, with a
page, or with a 200 and a body that decodes (`Intercept`); that it makes up an
`access_token` is left out. `Decoded` and `Result` are `helpers.go:96-112`. A request
whose caller has given up may still arrive and be granted. `timer` is the client's
timeout.

### ClaimMapping

A text is the sequence of its pieces between commas, so that joining and splitting can
be stated without characters: `Split` makes one role of each piece, and the text of an
attribute with several values is the concatenation of their pieces. A claim is a text, a
list, or of another kind. `Assertions` are all lists of attributes, with attributes of
one name repeated, without values, and of other names; `Stated` is the list of all the
values that an assertion has for roles, whatever the adapter makes of them. `RolesAgree`
compares the two adapters over all of these. It has no state: TLC evaluates it before
the run, as the assumption `RolesAgreeHere` of `MCAdapters`, and `Agreement` proves it.

### HmacExchange

`Exchange` decodes the payload (`hmac_adapter.go:56-75`), `GetSecret` and `LookupFails`
are the secret store's answer (77-80), `Verify` the rest (82-110). `Change` issues,
rotates, deprecates or revokes a secret at any moment. Two MACs are equal when their
secret and their payload are. `seen` is a history variable. `main` does not register
this adapter; it is modelled as the package offers it. The store hands out entries that
it does not change in place: `GetSecret` returns a pointer, and what an implementation
does behind it is not in the repository.

## Runs

Two of the properties are conjunctions of parts that are stated and proved on their own:
`RefreshesInOrder` of `NeverGoesBack` and `FetchesSpaced`, `ServedIsListed` of
`AcceptedWasListed` and `ListedIsServed`.

| Run | Bounds | Shows |
|---|---|---|
| `JWKSCache_calls` | 2 callers, 1 key id, 2 documents, TTL 1, clock to 2 | `TypeOK`, `SnapshotOfOneDocument`, `FreshWhenUsed`, `WithdrawnIsForgotten`, `RefreshesInOrder`, `ImplementsKeySetCache`; `CallsReturn` if the endpoint answers |
| `JWKSCache_silent` | the same, 1 document | `CallsReturn` is **violated** if it does not |
| `TokenExchange_timing` | 2 requests with a session each, timeouts 2/2/1/2, grace 1 | `TypeOK`, `OverhangBounded`, `PromptIsAnswered`, `HandlerTimeBounded`, `KeptRequestsFinish`, `RequestsEnd` |
| `TokenExchange_requests` | 2 requests of 9 kinds, the same timeouts | `MetricsAddUp`, `AdapterIsDetermined`, `ImplementsTokenService` |
| `TokenExchange_detect` | 2 requests with one ambiguous token | `SameInputSameAdapter` is **violated** |
| `IssuerKeys_starts` | 2 issuers, one with an endpoint that may fail and one that answers, entries to be dropped; 3 attempts, 2 rotations, 2 restarts | `TypeOK`, `ServedIsListed`, `StartIsBounded`, `KeyIsItsIssuers`, `StartEnds`, `RestartLearns` |
| `IssuerKeys_rotation` | 2 issuers, an answering endpoint each, 3 rotations, no restart | `RotationIsLearned` is **violated** |
| `SdkAccess_access` | 1 request of 23 kinds, 7 services; skew 1, lifetimes 4 and 3, 2 moments a second, query timeout 2 | `TypeOK`, `ServedHasGrounds`, `ServedIsTimely`, `QueriesEnd`, `ImplementsAccessMonitor` |
| `SdkAccess_deny` | a service that queries `identity/authz` | `DenyCounts` is **violated** |
| `SdkClient_calls` | 3 calls, 3 configurations, one without a name | `TypeOK`, `AloneTakesEffect` |
| `SdkExchange_calls` | 2 calls, 1 session, SDK timeout 2 | `TypeOK`, `SuccessIsGrant`, `ReceivedIsTimely`, `CallsReturn` |
| `Adapters_exchange` | 1 call, 2 services, 2 secrets, 2 changes; 3 pieces, up to 2 attributes of 2 values of 2 pieces | `TypeOK`, `RestsOnOneEntry`; as an assumption `RolesAgree` |

Why the bounds are enough. Two callers show every race of the cache's lock with one
other party: one fetches, and the other has found the snapshot stale too and queues at
the lock behind it. The theorems say the same of any number of callers, key ids and
documents. The clock runs until a snapshot that was fetched has expired and been
fetched again, and the endpoint publishes during a fetch. The timeouts keep the order
and the ratios of the code (read, write and shutdown 10 s, lookup 5 s); what is
asked of them holds for all values in this order by the theorems. Two requests are
enough for the drain, where one has to wait for another, and for the metrics, where
one is counted while another is under way. An instance with three attempts has a
first, a last and one between them; two restarts interrupt a start that follows an
interrupted one. `TokenExchange` and `IssuerKeys` come to rest, since a server exits
and a replica that serves has nothing more to load, and so do instances with finitely
many calls, so that deadlock is not checked there; the liveness properties say that
nothing stops early. A run with a liveness property declares no symmetry.

In `SdkAccess` the requests meet only in the grants, so that one request shows what can
become of it while the grants change; the lifetimes leave a token room to be fresh, near
either end and expired, with every `frac` and skew. Of three calls of `Init` two can
leave the `Once` in any state that the third, alone, can find. Two exchange calls with
one session share its expiry and the count of grants. One HMAC call suffices because
calls share nothing but the store, which changes on its own; two changes rotate a secret
and revoke it within the call. Two attributes and two values tell a join from a last
value, and two pieces a role from a text with commas.

`MetricsAddUp` holds between the steps of the process. A Prometheus scrape is no such
moment: it reads the collectors one after another, with steps in between, and its
figures may be out of the relation by the requests that moved meanwhile.
`ServedIsListed` says what a replica serves after its start; that a key withdrawn later
stays in use until the next restart is the other side of `RotationIsLearned`, and no
property bounds it, for the code does not. `QueriesEnd` presumes a `RequestTimeout`
above 0, which `DefaultConfig` has.

The violated runs record where code and documentation disagree:

* `JWKSCache_silent`: the fetch uses `http.Get`, without a timeout, under the write lock
  (`jwks.go:65-80`). One request that is never answered makes every later
  `ValidateToken` of the process wait, although the client is configured with
  `RequestTimeout: 2 * time.Second` (`identity.go:28`).
* `TokenExchange_detect`: without a type the adapter is the first of a map iteration
  that detects the token (`adapter.go:62`). A short base64 assertion without `+`, `/` or
  `=` is also a session id, and the same input is exchanged or refused by chance; the
  design document promises "same input → same output" (`identity-fabric-design.md:143`).
  `AdapterIsDetermined` has the other side: nowhere else is the choice left to chance.
* `IssuerKeys_rotation`: keys are fetched once (`main.go:52`), so that a key rotated in
  later is refused until the next restart; the helm values configure `jwksCacheTTL: 60s`
  for this service (`values.yaml:28`).
* `SdkAccess_deny`: `evaluatePolicy` reads `result.allow` only (`helpers.go:63`), and
  queries one document: what that document denies, and what the baselines deny, is
  served if its `allow` says so. ADR 003 has the baselines "enforced automatically —
  teams can't accidentally weaken security" (line 43). The trace needs the supposition
  above, that the library takes the cached keys, and shows what `CheckPolicy` answers.

### Observations

Seen in the code while it was modelled. No run shows them as violations, either
because they concern a library or a service outside the repository or because they can be
read off one line:

* The cache keeps keys as `json.RawMessage` (`jwks.go:101`), which is no key that
  golang-jwt's ES256 takes: every token is refused, so that in the program as it stands
  nothing guarded is served and no policy is queried. `SdkAccess` keeps this in
  `CachedKeyType` and `KeyTypesTaken`, and `NoneIsAccepted` proves it for every
  configuration.
* The middleware never calls `CheckPolicy` (`middleware.go:50-67`), while the playbook
  says that it "handles token validation + policy enforcement"
  (`gold-tier-playbook.md:55`). One of the services of `SdkAccess_access` has no call of
  its own either (`config.policy`), and is served without one.
* The input of the query has no `pci_scope` (`identity.go:111-120`), so that
  `identity.pci.allow` is never true and the payment service's policy denies everybody
  (`PciServesNobody`). That is not what is meant: the policy allows callers with a
  payment role and PCI clearance (`policies/examples/payment-service/authz.rego:9-13`),
  ADR 001 has PCI services require `trust_level: high` and `pci_scope: true` (line 57),
  and the design document has the flag for access to the cardholder data environment
  (`identity-fabric-design.md:138`).
* A 200 from something else, with a body that decodes and has no `access_token`, is
  returned as the empty text without an error (`helpers.go:105-112`). `SuccessIsGrant`
  says that this is the only way to it, and that no answer of the service's own leads
  there.
* Roles depend on the adapter (`RolesAgree`). Without any, the SAML adapter gives one
  role, the empty one, where the JWT adapter gives none (`saml_adapter.go:105`,
  `jwt_adapter.go:113-116`); of several attributes of one name the last one with values
  overwrites the others (`saml_adapter.go:144`), and `roles`, unless empty, wins over
  `role`; a comma in one listed value makes two roles of it through SAML and one through
  a JWT.
* The age of a snapshot of keys counts from its installation (`jwks.go:106`), and the
  fetch has no timeout: `WithdrawnIsForgotten` needs the time that the fetch took beside
  the TTL, and fails without it.
* Of two overlapping calls of `Init` one may return without an error before there is a
  client (`identity.go:46`).
* A JWT's `sub` is the subject as it is (`jwt_adapter.go:79`); the playbook promises
  "user:uuid" or "service:name" (`gold-tier-playbook.md:67`).

### Fairness

`JWKSCache`: a goroutine that can run does, and one that waits for the lock gets it
in the end. That is strong fairness of each caller's next step (`Run`), for the lock
may be taken by others in between: `sync.RWMutex` lets readers in after the writer they
waited for and hands the lock to waiting writers in turn. That the endpoint answers is
assumed only by `FairSpec`; `SilentEndpointSpec` is what the code itself provides
for. `TokenExchange`: the clock runs, timers fire and runnable goroutines run;
clients and the store owe nothing, and a lookup is only sure to end at its own
deadline. `IssuerKeys`: an attempt ends, if only by
the client's timeout of 5 s, parsing and `main` go on; which endpoints answer, the
constant `Reliable` says, and what `RestartLearns` and `RotationIsLearned` ask is asked
of those only. `SdkAccess` and `SdkExchange`: the clock runs and the client's timer fires;
neither OPA nor the service nor the network owes an answer.

## Proofs

`JWKSCacheProofs`, for every set of callers and key ids, every TTL and all bounds. The
inductive invariant adds to the properties what the lock protects: whoever is fetching
is the writer and conversely, so that there is one fetch at a time; while it lasts the
snapshot is stale, and the answer it has received is a document no older than the
snapshot's that was still served when the request went out; so was the snapshot's own.
It yields `TypeCorrect`, `SnapshotCorrect`, `FreshnessCorrect`, `WithdrawnForgotten`,
the action properties `Monotone` and `Spaced`, together `InOrder`, and `Refinement`:
each step of the locked cache is a step of `KeySetCache` or leaves its variables alone.
`Install` is the refresh, `KeyFunc` and `FetchFailed` are the reply and the refusal; the
locking steps stutter.

`TokenExchangeProofs`, for every set of requests and bodies, with the timeouts in the
order that `TimeoutsOrdered` states and main and the handler configure: the
lookup's deadline is shorter than the write and the shutdown deadline. The invariant
ties the countdowns together: a body that is still being read has used as much
of its write deadline as of its read deadline, at most; a lookup that was started
promptly has more of the write deadline than of its own left; a session that the
store has confirmed has lost no more life than the lookup has lost time; a request
that was under way at the signal will be over before the drain. The properties
follow: `TypeCorrect`, `Overhang`, `Answered`, `TimeBounded` and `KeptFinish`.

`Metrics` needs that the requests are finitely many. Its invariant, `MetricsInv`, says
that a success is decided once and by an adapter with a name, and that the counters are
the sizes of the sets of requests that are running, granted and counted; `Counting`
says how the size of such a set changes when one request moves. `Determined` needs no
more than that a request's adapter is one of the `Candidates` of its body (`ChosenInv`),
and that for all texts but the ambiguous ones at most one adapter detects (`OneDetects`),
which is proved from the adapters' own tests of segments, base64, marker, size and
characters.

`TokenExchangeRefines` proves `Implements`: every step of the service is a step of
`TokenService` or leaves its variables alone. The invariant above bounds the age of
the store's word at `Grant`; `Exit` and `CloseUnused` are `Drop`, `Tick` is `Age`.

`IssuerKeysProofs`, for every configuration, set of documents and all bounds. The
invariant adds that the requests made are at most the attempts used up to `pos`, and
that what is loaded for an issuer is a key that was listed for it, and is there once one
was listed. It yields `TypeCorrect`, `OnlyListed` and `NoneLost`, together `Exact`, and
`Bounded`. `Sourced` rests on `OnlyConfigured`, that every parsed entry is a configured
one. `OnlyListed` speaks of what was listed in answer to an issuer's attempts, `Sourced`
of the endpoints that are configured for the issuer: an attempt made at another issuer's
endpoint breaks only the latter. It also excludes the loss of a key other than by a
restart.

`SdkAccessProofs`, for every set of requests, configurations, grants, lifetimes and
skews. The invariant `OnRecord` keeps for each stage what was established on the way to
it: who is in the query has a signed token that was in time and an admitted identity; an
answer of "allow" is backed by grants in `seen`; and age and time left of a query add
up. It yields `GroundsHold` and `TimelyHolds`. `NoneIsAccepted` has the assumption that
the library does not take the cached keys (`CachedKeyType \notin KeyTypesTaken`), which
is the case of the code: then `Validate` ends in a refusal always. The other theorems
need no assumption about the library.

`PciServesNobody` rests on `Scopeless`: no query has a `pci_scope`. `GroundsHold` states
the levels that a required trust admits one by one; `MoreThanLow` has what
`meetsMinTrust` makes of the order, with made-up levels. `Implements` maps each step to
`AccessMonitor`: `Arrive` is its `Ask`, `Decide` with "allow" its `Approve`, the reading
of that answer its `Serve`, every other end its `Refuse`, `ChangeGrants` its
`ChangeRights`; time stutters.

`SdkClientProofs`, for any number of calls: `Effective`, whose invariant
`AloneIsOnItsOwn` says what a call that runs alone finds and keeps of the `Once`
from its own `Reset` on.

`SdkExchangeProofs`: `Success` and `Timely`. The invariant ties an answer with a token
to a grant, and a 200 that has none to something other than the service; it bounds by
the time used of the caller's timer how long the subject token of a grant that it waits
for has been dead. `Composed` says that the composition is faithful to the service:
whatever callers and network do, the service's variables behave as `TokenService`
allows. With `TokenExchangeRefines` the two halves meet in `TokenService`: the detailed
service implements it, and the SDK's call is correct against it.

`AdaptersProofs`: `Rests`. The invariant `Watches` says that `seen` holds the store's
entry for the service as long as the call runs, and that what was found is in it.
`Agreement` is about the mappings alone, for any pieces and any number of attributes and
values. If the roles agree, each has one piece, so that the joined values of the one
attribute that counts are as long as all the stated values together, and no other
attribute has any (`FlattenJoins`, `AgreePlain`); the converse is `PlainAgree`:
splitting gives back what was joined. `Texts` drops what is no text. These are recursive
functions over sequences; the library's induction theorems have a predicate for a
parameter, so that the induction is made with a set in its place (`SetInduction`, from
the least member of a set of naturals, and `SeqInduction`).

The assumptions are those the modules name, and `IsFiniteSet(Requests)` and
`CachedKeyType \notin KeyTypesTaken` in the two theorems that state them; TLC evaluates
the modules' in the runs.

Only model-checked: the liveness properties (`CallsReturn` of both modules,
`RequestsEnd`, `StartEnds`, `RestartLearns`, `QueriesEnd`), which need fairness, beyond
the prover. What bounds them is proved where it is a safety property:
`HandlerTimeBounded` for the requests, `StartIsBounded` for the start. The definitions
that the violated runs refute are not theorems, and cannot be.

## Not modelled

Tracing, logging and correlation ids (output only); `saml-app` and `keycloak-app`,
which sign fixed claims; deployment and dashboards; the control plane, the
credential manager and the sidecar of the documentation, which are not in the
repository. Cryptography is abstracted to which key signed a token.

`RequireRole`, which does not compile; the HMAC adapter's `Detect`, which no
registry calls; `canonical.Validator`, which nothing calls; logins at the session
store: sessions exist from the start.

The token exchange's signing key (`main.go:40`) beyond the signature it makes. It
lives as long as its process and differs from replica to replica, `Mint` sets no key
id, and no path of the service's mux (`main.go:81-103`) serves it, although the SDK's
default configuration asks for it there (`identity.go:26`): there is no way from
minter to verifier in the code that a model of rotation could follow.

## Plan

Left to prove:

1. That the HMAC exchange is atomic: an abstract exchange that looks up and checks in
   one step, implemented by `HmacExchange` with the lookup as that step.
2. The safety half of the liveness properties as far as it is not proved: that a caller of
   the key cache waits for a fetch under way and for nothing else, and that an
   exchange call and a policy query are over when their timer is.
3. `SdkClient` against an abstract installation of clients, for calls that do not overlap.

Left to model, when the code changes:

1. When the service gets a key endpoint: replicas with a key each, their restarts, and
   the SDK's cache in front (`KeySetCache`), for the question how long a token minted
   before a restart verifies.
2. When the cache decodes its keys: drop `KeyTypesTaken`.
3. `RequireRole`, when it compiles, as a stage of `SdkAccess` after the options.
4. Logins at the session store, with the sessions' own clock.
