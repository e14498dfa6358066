# A formal model of domainry-identity-sdk

TLA+ specifications of the parts of this SDK that are hard to test, their TLC
configurations, and theorems about them checked by TLAPS. The modules are
translated from the code in this repository; where the code calls something
outside it (the Identity service, clocks, a host's own cache), the module says so
and models only what the code relies on.

## The system

| Component | State | Operations | Interacts with |
|---|---|---|---|
| `authorization/principal` resolver and memory cache | cache entries by (workspace, subject, revision, jti); one clock reading per request | `Authenticate`, `Invalidate`; `Get`, `Set`, `Delete`, `Invalidate`, `Close` | token verifier, `CurrentSession`, `ResolveAccess`; every request goroutine shares the cache |
| `remote` transport | breaker: failures, openedUntil, probeActive | `doWithHeaders`, `execute`, `Allow`, `Observe`, `waitForRetry`, `completeFederatedLogin` | all calls of one client share the breaker |
| `remote` JWKS verifier | keys, expiresAt, two mutexes | `Verify`, `refresh` | fetches through the transport |
| `browsergateway` | none of its own; the browser's refresh cookie | `Login`, `Refresh`, `Logout`, `Session`, `ChangePassword`, provider handlers | the binding; host callbacks that find a credential's workspace |
| `browser` client | access token, refresh in flight, a lock shared by tabs | `refresh`, `logout`, `authorizedFetch`, login methods | the gateway, other tabs of one browser |
| `authorization/evaluator` | none (pure) | `EvaluateWithContext`, `EvaluateField`, `CompileRecordFilter`, `CompileSQL` | access bundles of the resolver |
| `authorization` bundles, principals, restrictions, execution | none (pure); a bundle is narrowed and derived from during a request | `Validate`, `CanonicalJSON`, `HasPermission`, `RestrictAccess`, `DeriveExecutionAccess` | the evaluator |
| `authorization` permissions, roles, navigation, bootstrap catalog | the snapshot hash a host read; receipts | canonicalisation, digests, compare-and-swap reconciliation | the Identity service, through the transport |
| `application` binding | the application's scope | wraps every contract; verifies the sessions it is handed | any `Binding` |
| `httpmiddleware` | request context | `Authenticate`, `RequirePasswordChanged`, `RequirePermission`, `RequireReauthorization` | the resolver, `Authorization.Reauthorize` |
| `remote` adapters, factory, capability | none | one request each; start-up checks | the transport |
| `identity`, `authentication`, `organizationunit`, `modulehost`, `contracttest`, `httpapi`, `sdk.go` | none | contracts, data types, test suite | - |

What is hard here is concurrency: requests interleave with each other and with
changes at the Identity service between a remote call and the use of its answer
(the resolver), between an admission and its report (the breaker), between two
critical sections (the verifier, `memoryCache.Get`), between two requests of one browser
(the cookie), and between the check of a scope and the call it is for (the binding,
the middleware). In the pure parts it is agreement: an access bundle has several
readings (evaluator, permission check, SQL filter, field listings, canonical form), and
may be restricted and derived from in any order. `PROJECT.json` lists each hazard at its line.

What makes each component correct:

- resolver: no grant after the session ended, none for another account or revision,
  none beyond the window or the bundle, and authorization changes visible at once
  (README.md:18-20 of the repository);
- transport: only replay-safe requests repeat (README.md:92-94), the circuit opens
  only on a streak, probes are paced and single, no call and no circuit is stuck;
- verifier: accepted keys were listed by a fresh document, one fetch serves all
  waiters, no waiter is left behind;
- gateway and client: one presentation per credential, logout final, the cookie's
  lifecycle of browsergateway/README.md;
- bundles and evaluator: what is allowed passed every layer, the SQL filter returns no
  row the evaluator refuses, the canonical form forgets nothing that decides, and no
  restriction or derivation widens what it does not declare;
- binding and middleware: answers belong to the workspace and application the operation
  was scoped to, a workspace that was closed is left alone, and a reauthorized handler
  runs only behind access that is granted;
- catalogs: one digest for one content where a catalog has one reading, a retry is no
  conflict, and a compiled data policy means what the policy says.

## Modules

### PrincipalResolver (core)

`Authenticate` of authorization/principal/resolver.go, the memory cache of
cache.go, and the external source they consult. A request's program counter
`pc[c]` stands between the points where another goroutine or the source can
act: `Verify` (lines 66-73) - `ReadClock` (74) - `SessionAccepted` or
`SessionRejected` then `Invalidate` (78-90) - `Lookup` (the first critical section
of `Get`) then `Evict` (its second) or `Delete` - `Resolve` - `Store`. Each
cache operation is one lock region of `memoryCache`; `Set` stores and sweeps in
one step, as the code does under its lock. `HostInvalidate` and `Close` are the
calls a host may make at any time.

A principal is reduced to what distinguishes a right grant from a wrong one:
account (workspace and subject), revision, the bundle's expiry, and `asOf`, the
moment the source stated the session facts in it. `asOf` and the two
`...AtStart` variables are history: no guard reads them.

`EndSession`, `ChangeAccess`, `Tick` and `SessionViews` are the external source: a
live session may be stated with or without its subject and revision, because the
code accepts empty fields, or for another account, because the code checks.
`CacheFaults` turns on what `Options.Cache` admits: an injected cache whose calls
fail, or whose `Get` returns an expired or another key's entry.

### RemoteClient

`doWithHeaders`, `execute` and the retry loop (client.go, retry.go), the breaker
(circuit_breaker.go), and `completeFederatedLogin`, which passes the breaker by
itself. `Allow` and `Observe` are the breaker's critical sections. `Execute` is
the service carrying the request out, which may happen whether or not its answer
arrives; `Answer` is `execute` returning in one of seven ways; `Settle` is the
report to the breaker and the decision to retry or return, in the code's order.
`Expire` ends a request's context at any moment.

`cooldown` is the time left until `openedUntil` (None for the zero time), so that no
clock value grows. `Abandon` is the path between `Allow` and `Observe` that reports
nothing: the early return at federated_callback.go:26-28, which a validated endpoint
makes nearly unreachable, and a panic in a host's `ContextHeaders`, which net/http
recovers in a handler. When the call that leaves is the probe, the circuit stays closed
to all traffic; the history variable `lost` says so, and the two properties about
probes name it as the only exception.

### TokenVerifier

`Verify` and `refresh` of jwks.go over one key document. `ReadKey` and `CheckExpiry`
are separate steps because `key` and `cacheExpired` lock separately; `Lock`,
`Recheck`, `Fetch` or `FetchFails`, and `Install` are `refresh` under `refreshMu`.
`Rotate` changes the document the issuer publishes, to any nonempty set of keys.
Signatures are genuine, a key id always names the same key, and what the claims
say is a free choice at `CheckClaims`.

### BrowserSession

The composition of three parts over one browser's refresh cookie: the
`IdentityClient` of each tab (browser/src/client.ts), the gateway's session handlers
(browsergateway/session.go, credentials.go, federated_login.go), and, external, the
Identity service, which rotates a refresh credential when it is used, revokes its
family when a rotated one is presented again, and continues or replaces the session
when a password is changed (browsergateway/README.md:48-57). A refresh credential and
the access token issued with it are one number.

`call[c]` is a caller's operation: `Begin`; for a refresh `JoinOrLead` (line 130 of
client.ts) and `Acquire` (the Web Lock); then an exchange, `Leave` - a `Serve`
action - `Deliver` - a `Receive` action. Another party can act between any two of
them, `NetworkFails` and `Reload` can cut an exchange short, and a request that
nobody waits for any more may reach Identity late (`ServeOrphan`). `ReceiveRefresh` is
the end of the operation under the lock, `Settle` the moment its promise settles for
all who share it: the lock manager lets other events come between. When a
body is lost after its headers, `request` reads an empty object (client.ts:187), which
`Deliver` models as a session without an access token. `excused` is history.

The token's lifetime is not modelled: a refusal is always possible.
`ServeInvalidRefresh` is a refresh that is answered 400, 401 or 403: Identity refuses the
credential, the host's resolver does not know it, the binding cannot find its workspace
(application/binding.go:102-105, 152-155, before Identity is asked), or the binding refuses
the new session after the credential was rotated. Each of them clears the cookie, the
credential being in force or not (session.go:71, 166-172). Requests that are
not replay-safe change nothing and are left out. The gateway's workspace scope checks
refuse before anything changes and are left out, except the host's resolver
(`HostResolves`), which can fail or not know a credential.

### PolicyLanguage, AccessBundle, AccessEvaluator, AccessPolicy

The pure core of `authorization`, in three layers of operators and one module of
behaviour over them.

- PolicyLanguage: predicates and their two readings. `ValidPredicate`,
  `CanonicalPredicate`, `ResolveValue` and `EvaluatePredicate` (true, false or an error,
  with the code's short-circuit order) are policy.go, context.go and evaluator.go;
  `Compiles` and `SQLTruth` are the SQL compiler of filter.go and, external, what a
  database makes of its clause: three-valued logic, an absent fact being a NULL.
- AccessBundle: `ValidBundle`, `Canonical`, `Restricted` (RestrictAccess) and `Derived`
  (DeriveExecutionAccess, with the projection of data policies). A list is a function
  from positions, so that dropping entries is domain restriction.
- AccessEvaluator: `Layers`, in the order of `EvaluateWithContext`; `EvaluateField`;
  `RecordFilter` and `SelectedRows`; the listings of fields and references; the
  permission view of a principal.
- AccessPolicy: the life of a bundle. It is issued, restricted to scopes and derived
  from, in any order, while its expiry passes. `origin` and `admitted` are history:
  whose policies now govern a pair, and what every restriction let through.

Recursion over predicates is by recursive functions on the constant set `Predicate`,
which is closed under taking parts, so that the modules stay provable. `Depth` and
`PredicateAssumption` say that a predicate is a finite tree, as every value of the Go type
is; `BundleShape` says what the slices and structs of contract.go are.

### ApplicationBinding

The binding of package application. `Begin` checks the scope an operation names (or its
request's context), `Verify` its access token (token.go), `Serve` or `Fail` is the
delegate, external, and `Settle` what the binding makes of its answer (`verifySession`
and the comparisons beside it). The methods fall into six classes by how they are
scoped; the constant sets at the top of the module (`Resolving`, `Scoped`, `Ambient`,
`ByToken`, `ByTokenAndScope`, `Unscoped`) say which is in which, and a class shares its
actions. `Bind` and `BindWithWorkspaceResolver` are the two initial values of
`resolving`. Between any two steps sessions end, access is withdrawn, keys come and go
and the host closes workspaces; with `Misanswers` the delegate may answer out of scope.

### HTTPMiddleware and RequestGate

HTTPMiddleware composes the middleware with the binding: it EXTENDS ApplicationBinding
and gives a request one of the binding's calls. `guards` is what a route is wrapped in. A
request may arrive with an identity in its context, which `Authenticate` then passes on
(`KeepIdentity`), and a route may not be wrapped in `Authenticate` at all (`Unauthenticated`).
The authenticator gives a principal of a session that is in force, with access that may
be cached; `Reauthorize` begins a call of the binding and `Decide` takes its result.

RequestGate is the abstract specification: a high-risk request waits, may be seen to be
allowed (`Clear`), and runs only if it was. It knows neither calls nor tokens. `Gate` in
HTTPMiddleware is its instance under the mapping `allowed` - the request's session is in
force and access is granted; `phase` - the stage, for routes that require
reauthorization; `cleared` - the binding's call has an answer or a result that allows.
`GateHolds` is the refinement, model-checked and proved.

### ProjectCatalog and CatalogPublication

ProjectCatalog has the pure part: which permission definitions, role catalogs, data
policies and navigation catalogs are accepted, their normal forms, and what is hashed
of them. A digest is its input, so that equal digests are equal inputs. Texts are
opaque; `Bare` and `LowerCase` give the trimmed and lower-case form of those that have
another. `Json` gives for each text that is JSON the encoding of the value it decodes to, so
that key order, repeated keys and the spelling of numbers are gone where the code loses them
(`CanonicalJSON`). The labels of a menu are a map: of locales that trim to one text the code
keeps the one its iteration meets last, any of them (`KeptLabels`), so that such a menu has
several readings (`MenuReadings`), and each digest is of one. `Compiled` is compileProjectDataPolicy, over the predicates of PolicyLanguage. A list
that the code sorts by key or by encoding is `Ordered` (PolicyLanguage): one and the same list
for every arrangement of its elements. The roles that workspaces get are listed in an order
left open (`Provisioned`), because the hash sorts them.

CatalogPublication has the behaviour: hosts read the baseline of a permission snapshot
and reconcile it by compare-and-swap, the transport repeats a PUT, deliveries are lost,
delayed or unanswered, and a receipt is validated (`ReceiptAccepted`). `Bootstrap` is
the comparison of digests in a workspace bootstrap's receipt, of a reading on each side. Identity's registry is
external and does what the comment at permissions.go:83-86 relies on. `CatalogShapes` says
what the structs and slices of a catalog are, `PoliciesClosed` that the instance of `Policy`
and `Predicate` has what a policy compiles to.

## Runs

| Run | Module | What it shows | Bounds |
|---|---|---|---|
| principal | MCPrincipalResolver | `TypeOK`, `EndedSessionNeverGranted`, `GrantsOwnPrincipal`, `GrantsBoundedSnapshot`, `CacheWithinLimits`, `AuthorizationChangeTakesEffect` | 2 requests, 1 account, 2 tokens of two revisions with one jti, window 1, clock to 2, 1 access change, a cache that fails and misreads |
| breaker | MCRemoteClient | `TypeOK`, `ReplayOnlySafeRequests`, `OpensOnlyOnStreak`, `ProbeIsRunning`, `ProbesArePaced`, `OffersProbe`, `CallsReturn` | 2 calls, 2 attempts, 4 outcomes, threshold 2, open for 1 tick |
| one_probe | MCRemoteClient | `OneRecoveryProbe` is violated | 2 calls, 1 attempt, threshold 1 |
| verifier | MCTokenVerifier | `TypeOK`, `UnlistedKeyOnlyBesideRefresh`, `FetchesOnlyWhenStale`, `VerifyReturns` | 2 calls, 2 keys, lifetime 1, clock to 2 |
| tabs | MCBrowserSession | `OneRefreshInFlight`, `CallsFinish` | 2 tabs with the lock, 2 calls, logins and refreshes, 2 credentials, 1 late request |
| requests | MCBrowserSession | `TypeOK`, `ReuseOnlyAfterLoss`, `SpentCookieAwaitsAnswer`, `LiveCookieDroppedForCause` | 1 tab without the lock, 2 calls, every operation, 2 credentials, 1 late request |
| logout_cookie | MCBrowserSession | `LogoutExpiresCookie` is violated | 1 tab, 1 call, 1 credential |
| access_policy | MCAccessPolicy | `TypeOK`, `AllowedPassesEveryLayer`, `PermissionIsNecessary`, `SelectedOnlyIfAllowed`, `ExactOnCompleteRecords`, `StaticFieldIsStatic`, `OrderDecidesNothing`, `VisibleOnlyThroughScopes`, `ExecutionWidensOnlyDeclared`, `RestrictionNarrowsRecords` | bundles of at most 2 entries of a kind (3 function grants) from pools of 2 to 10, 4 records, 2 claim sets, 2 restrictions or derivations; one has policies issued under keys that a derivation makes |
| restrict_fields | MCAccessPolicy | `RestrictionNarrowsFields` is violated | field policies of a readable order |
| missing_facts | MCAccessPolicy | `MissingFactsFailClosed` is violated | one allow, one deny |
| middleware | MCHTTPMiddleware | `RequestsTyped`, `AnswersInScope`, `ClosedWorkspacesUntouched`, `GateHolds` | 1 call, a request's or another caller's in turn, 2 workspaces, 1 alias, 2 sessions, every operation, 4 routes, an identity in the context or none |
| catalog | MCCatalogPublication | `ReceiptsProveContent`, `RetriesAcknowledged`, `PoliciesMeanWhatTheySay` | 2 hosts, 2 attempts, 6 permission lists, role and navigation catalogs of up to 2 entries, one menu with 2 readings, JSON in 2 spellings, policies to depth 4, more than is accepted |

Two requests suffice for each race listed, since each is between one request and one
other actor; the theorems cover any number. In principal the token and the window each
give an entry its expiry in some state; that a bundle's own expiry may be tighter than
both is proved only (`CacheLimits`). Its tokens share their jti so that only the revision
tells their cache keys apart. In middleware one call is enough, because the races of
that component are with the world - a session that ends, a workspace that closes, keys
that go - whose steps come between any two of the call's. The pools of access_policy
hold, for each kind of entry, the shapes its code branches on: allow and deny, operators
and connectives, a predicate that cannot be evaluated, one that needs a business claim,
wildcards in fields, references, exports and guardrails; two entries of a kind are what
precedence and order are about. The catalogs of catalog are written in several spellings
each, so that both equal and unequal digests occur, with cycles, unknown parents and
duplicates among those refused; `MaxDepth` and `MaxNodes` stand for 8 and 64 and some
policies exceed them.

`MaxTime`, `MaxRevision`, `MaxSteps`, `MaxIssued`, `MaxOrphans` and CatalogPublication's
`MaxAttempts` bound clocks, changes, sessions and sends, each in the guard of the action
concerned. Three systems stop, and their runs do not check for deadlock: principal once
the tokens have expired, access_policy (with its two violations) once the bundle has,
catalog once every host is answered. The other runs check it.

Symmetry is used in the safety runs principal and requests only, over calls and tabs,
which no definition chooses among.

Fairness. `RemoteClient!Fairness`: the Go scheduler runs a goroutine that can go
on, timers fire, a context ends by its deadline (`context.WithTimeout`,
client.go:129 and federated_callback.go:18) and the transport then gives up. No fairness is
assumed of the service or of callers. `TokenVerifier!Fairness`: a call that can go on
does, the fetch returning by the transport's deadline, and `sync.Mutex` does not
starve a waiter (strong fairness of `Lock`). `BrowserSession!Fairness`: an exchange ends by an
answer or a failure, continuations run, and the lock manager grants a lock in the order
of the requests (strong fairness of `Acquire`); nothing obliges Identity or the network to
deliver. The other modules state safety only.

## What is proved

TLAPS checks, for all values of the constants that satisfy the modules' named
assumptions, and with no bound on requests, tokens, keys, predicates or time:

- PrincipalResolverProofs: `TypeCorrect`, `NeverAfterSessionEnd`, `OwnPrincipal`,
  `BoundedSnapshot`, `AccessChangeVisible`, `CacheLimits`. The invariant says of each
  request what its `pc` implies: once past the session check its session was live
  when it began and its view does not contradict its token; a resolved principal
  belongs to the token, and its `asOf` is no earlier than the clock reading `now`;
  every cache entry keeps within its limits. The step that matters is `Store`: expiry
  is counted from `now`, which precedes `asOf`, so that a late `Set` cannot stretch
  the window.
- RemoteClientProofs: `TypeCorrect`, `SafeReplay`, `OpeningJustified`, `ProbePacing`,
  `ProbeRuns`. `BreakerInv` ties the breaker's three fields to the history (cooldown
  plus time since the last probe is at least the open duration while no probe runs; an
  active probe is a call in flight or was `lost`); `CallInv` bounds executions by where
  a call stands.
- TokenVerifierProofs: `TypeCorrect`, `UnlistedKeysNeedARace`, `NoRepeatedFetch`. The
  invariant says that `refreshMu` is held by exactly the call that is refreshing, that
  the cache is the document installed last, and what each step knows of its key.

- BrowserSessionProofs: `TypeCorrect`, `RefreshesShareOneExchange`,
  `RefreshReusesOnlyAfterLoss`, `SpentCookieIsReplaced` and `LiveCookieGoesForCause`. The invariant
  `FlightInv` says that a call that leads a refresh is the one its tab's promise stands
  for, and that with navigator.locks a refresh on the wire holds the lock;
  `OneRefreshInFlight` alone does not say who the lock or the promise belongs to and is
  not inductive. `CookieOK` adds what is on the wire: a credential on its way into the cookie is
  nobody's yet (`NewOK`), an answer that clears the cookie has a cause (`ClearOK`), no
  refresh presents a credential that was rotated away, and the cookie is one only while the
  answer that replaces it is on its way (`RetiredOK`). `ReuseOnlyAfterLoss` alone does not
  exclude that such an answer puts a spent credential back for the next refresh.
- PolicyLanguageProofs: the two readings of predicates, over finite trees of any depth.
  The library's induction cannot be instantiated here, so the lemmas argue by a minimal
  counterexample: of the depths of the predicates that fail there would be a least one,
  and its parts do not fail. SQL's answer is the evaluator's or "unknown" where a
  predicate compiles, and the evaluator's on a record without absent facts if nothing is
  compared with a null. The module also holds what both proofs about canonical forms need of
  lists: sorting gives one list for all arrangements of a list (`OrderedArranged`).
- AccessPolicyProofs: `TypeCorrect`, `DecisionsPassEveryLayer`, `PermissionCheckIsNecessary`,
  `RestrictionsNarrow`, `FiltersSelectNothingMore`, `FiltersSelectAllOfCompleteRecords`,
  `ClearedFieldsAreStatic`, `ExecutionNarrows`, `VisibilityStaysScoped`, `OrderIsForgotten`.
  What is said of
  decisions, filters and fields holds of any bundle whatever of the right shape (lemmas over
  the operators). RestrictionsNarrow is an action property: a decision on
  records reads the function effects, the guardrails and the data policies of its pair
  (`LayersRead`), which a restriction leaves alone for the pairs in its scopes
  (`UnchangedWithinScopes`), and no other pair is granted (`GrantedWithinScopes`).
  ExecutionNarrows compares a derived bundle entry by entry: `FieldPolicies` are changed in
  their write access alone, and the fresh ones open writes. VisibilityStaysScoped needs an
  invariant of its own, `Governed`, about the policies themselves (`Stems`): each is an issued one
  or was projected, in which case its key ends in its pair and a deny stands beside the one it was
  projected from (`Projected`), and each says what an issued one says whose key begins its own;
  every deny issued is still there; an allow of a pair comes from the pair's origin and proves the
  pair admitted; and each policy of the origin is there for the pair, the allows while the pair is
  admitted, unless its key was taken (`Taken`). That a key is found taken only where an issued
  policy took it is what the shapes of keys are for: a projection's key cannot collide with
  another projection's unless one of the two was issued so. The property speaks of decisions only: a step could keep it and yet lose a deny
  that the next derivation would have projected.

  `OrderIsForgotten` compares a bundle with its mirror image, every list reversed down to
  the parts of predicates. The image and the canonical form of a predicate are unfolded one
  level (`MirrorEquation`, `CanonicalEquation`); by a minimal counterexample, a mirrored
  predicate is valid if the original is (`MirrorValid`), has its canonical form
  (`MirrorCanonical`), and answers the same unless one of the two answers is an error
  (`MirrorAgrees`: a loop that stops at an answer may stop before it meets the error).
  A mirrored list rearranges the list (`Rearranges`), and what validation, the canonical form
  and each stage compute from a list depends on its elements alone: `MirroredValid`,
  `MirroredBundleCanonical`, `GuardedAlike`, `VerdictsAlike`. Two stages need more: the rules
  of a field have unique priorities, so that the first of them is the same one
  (`RulesAlike`), and the score of a field policy tells apart the candidates that fit a field
  (`BestAlike`).
- HTTPMiddlewareProofs: `RequestsStayTyped`, `BindingAnswersInScope`,
  `BindingLeavesClosedWorkspaces` and the refinement
  `MiddlewareImplementsGate`. `Inv` adds to the types that a call past its scope check is
  scoped to a workspace that was open when it began (`CallsAdmitted`), what a call in
  each stage presents and was answered (`CallsFormed`), and that a request which is
  reauthorizing owns its call and presents its own credential (`RequestsWait`): without
  the last, the answer to another caller's call could let a request in. The refinement
  goes action by action: a decision that allows is made at a moment when the session is
  in force and access granted (`Clear`), every other step of the binding changes access
  or nothing, and `Decide` maps to `Run` or `Refuse`.
- CatalogPublicationProofs: `RetriesAreAcknowledged`. `IInv` says that the request a host
  waits for carries the baseline it read, and that an undisturbed host finds that
  baseline, or its own snapshot, in force; the property alone says nothing of what is on
  the wire.

  `PoliciesAreMeant` compares functions that recurse over policies: the predicate a
  policy compiles to, its canonical form, and what it says of a record (`Says`). Each is
  unfolded one level by a lemma of its own (`SaysEquation`, `CompiledEquation`,
  `CanonicalEquation`), from a solution built on the trees of up to n nodes; `CompiledMeans` and
  `CanonicalMeans` then argue by a policy of the fewest nodes that fails.

  `ReceiptsAreProofs` needs what sorting does: `Ordered` gives one list for all arrangements
  (`OrderedArranged`), and two lists are arrangements of each other exactly when they have each
  element equally often (`CountArranged`). From these, the canonical form of a well-formed policy
  tells what its content tells (`CanonicalContent`), so do the normal forms of grants and roles,
  and digests of accepted catalogs are equal exactly if their contents are (`DigestContent`). The
  invariant `RInv` adds that the registry holds only accepted permissions, that every baseline and
  every request says so while it holds none, and that only accepted permissions are sent.

The modules proved about contain no RECURSIVE operator and rest only on the assumptions
named in them, which TLC evaluates in the runs. Most are types and shapes
(`BindingAssumption`, `CatalogAssumption` and the like). These say more:

- predicates and data policies are finite trees (`PredicateAssumption`, `PolicyAssumption`), as
  values decoded from JSON are;
- a text that is trimmed or in lower case stays so when it is trimmed again
  (`TextAssumption`);
- the instance has the mirror image of each of its predicates (`MirrorAssumption`): what
  the JSON of a bundle can spell, it can spell in reverse;
- the instance has the canonical and compiled forms of its policies, and the subject has
  every claim that a policy may name (`CatalogAssumption`);
- the key of a data policy is a sequence of texts, `key.execution.resource.action` being
  <<key, resource, action>> (`RequestAssumption`): any key can be issued, the ones a derivation
  makes too, but the texts are taken to fall apart in one way, as names without dots do.

Only model-checked: liveness (`OffersProbe`, `CallsReturn`, `VerifyReturns`,
`CallsFinish`): fairness and ENABLED are outside what the prover handles. Every invariant and
every action property that a passing run checks is stated by a theorem.

## Findings

- one_probe. The breaker does not know which call is its probe. A failure of a call
  admitted before the circuit opened, reported while a probe runs, takes the branch
  at circuit_breaker.go:52, clears `probeActive` and restarts the cooldown; after
  `OpenDuration` another probe is admitted beside the first. The test
  `TestRemoteClientCircuitBreakerUsesOneRecoveryProbe` (remote/resilience_test.go:54)
  exercises sequential calls. What still holds is `ProbesArePaced`.
- The verifier may accept a token by a key that no fresh document listed, but only
  when another call's refresh lands between the two reads at jwks.go:59-60
  (`UnlistedKeyOnlyBesideRefresh` states the exception; with `raced` dropped from it
  TLC finds the trace). No document in the repository promises otherwise.

- logout_cookie. `Logout` returns when the workspace of the credential cannot be resolved
  (session.go:88-91); after an error of the host's resolver (request.go:104-107) the
  cookie stays and nothing is revoked, where browsergateway/README.md:53-54 says that
  logout always expires it.
- A refresh refused for an earlier session clears the token, and the cookie, of a login
  that succeeded meanwhile (client.ts:145, session.go:71); and the answer to a refresh
  that arrives after a logout puts a token and a cookie back, both of a revoked session.
  `LiveCookieDroppedForCause` admits the first: the refusal of any refresh is a cause. No
  document promises otherwise.
- restrict_fields. `RestrictAccess` drops a field policy whose read, write and export are
  all false after the restriction (restriction.go:36-41). If it is what hid the field,
  the next best policy decides, such as one for every field of the resource, and the
  restricted bundle reads what the whole one did not; the comment at restriction.go:5-6
  says that denies are always retained. Decisions on records are not concerned
  (`RestrictionNarrowsRecords`, proved).
- missing_facts. README.md:89 of the repository says that missing facts fail closed. An
  absent fact makes an allow fail and equally makes a deny not match
  (evaluator.go:99-112): the record is allowed without the fact and denied with it.

Three more disagreements with the documents have no run of their own; the passing
properties state what holds in spite of them:

- browsergateway/README.md:55-56 says that transient downstream failures leave the cookie
  intact. A failure of the binding's workspace resolver is answered 403
  (application/binding.go:102-105, 152-155) and `Refresh` clears the cookie on it
  (session.go:71, 166-172), the credential being in force or rotated a moment before.
  `LiveCookieDroppedForCause` therefore counts every refresh answered 400, 401 or 403 among
  the causes.
- project_navigation.go:130-131 says that the digest of a navigation proves which template was
  materialized. Two locales of a label that trim to the same text overwrite each other in the
  order of a map's iteration (lines 66-72), so that one catalog has two digests and can be in
  conflict with itself; `ReceiptsProveContent` admits that for such menus only.
- The comment at execution.go:96-100 says that broader authority cannot widen the scope of the
  source action. A derivation drops a projection whose key is taken (lines 104-122), and
  `Validate` does not refuse keys of that form: a policy issued under `k.execution.r.a` takes
  the place of the projection of `k`, a deny included. `VisibleOnlyThroughScopes` names it
  (`KeyTaken`) as the only way in which a policy of the source is left behind.

Met while modelling, with no document that says otherwise:

- A guardrail of one field hides whole records from a compiled filter (filter.go:40-48)
  and not from the evaluator; `ExactOnCompleteRecords` names it as the only difference.
- An unrestricted filter does not compile the other allows, so that a list may show rows
  on which the evaluator returns an error; `SelectedOnlyIfAllowed` names it.
- A comparison with a null hides in SQL, where it is unknown, what the evaluator allows,
  whose `neq` is true of every fact that is there; `ExactOnCompleteRecords` excludes
  predicates that make one (`ComparesNull`).
- `RestrictAccess` does not validate, and may turn an invalid bundle, which allows
  nothing, into a valid one.
- The operator of a data policy's leaf is trimmed when it is validated and not when it is
  compiled (project_roles.go:231): `" in "` passes and becomes an equality with a
  collection claim. Digests and canonical forms trim, so that only the predicate of a
  policy as it was written is concerned; `PoliciesMeanWhatTheySay` excludes it by `Plain`.
- The JSON collections of a role are hashed as decoded and encoded again
  (workspace_bootstrap_catalog.go:170-183): documents that differ in repeated keys, or in
  numbers beyond 64 bits, are one content to a digest, and to `ReceiptsProveContent`.
- Reconciliation compares content hashes: a delayed duplicate of an older request applies
  again when the snapshot has returned to the one it names.

## Not modelled

- The length of retry delays (retry.go:45-76): `RemoteClient` lets a wait last any time.
  Whatever the product of a Retry-After header wraps to, the delay stays between the
  backoff and its maximum.
- Body limits, header filtering, wire formats, copying of values, logging.
- Decoding of tokens and documents and the cryptography of jwks.go: their outcome is a
  choice.
- The gateway's provider start and callback, administrative credential handlers and
  routing: they do not change the refresh cookie otherwise than the login modelled.
- Application registration, redirect URLs, and the helpers of single roles: sequential
  validation without state.
- The remote adapters other than the permission registry: one request each.
- The factory and capability discovery: start-up checks on one document.
- The contracts of `identity`, `authentication`, `organizationunit` and `modulehost`:
  interfaces and data types, whose implementations are not in this repository.
- `httpapi`, `sdk.go` and `contracttest`: a pass-through handler, type aliases and test
  helpers.

## What could follow

The resolver as a refinement of the authenticator that HTTPMiddleware assumes.
