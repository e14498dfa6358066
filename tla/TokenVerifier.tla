--------------------------- MODULE TokenVerifier ---------------------------
(***************************************************************************)
(* The JWKS token verifier of remote/jwks.go: concurrent Verify calls over *)
(* one cached key document, refreshed under a mutex of its own.            *)
(*                                                                         *)
(* key and cacheExpired take the read lock separately, so a refresh by     *)
(* another call may fall between them.  A key is its kid: a kid is never   *)
(* given to other key material, and the token's signature is genuine.      *)
(* What the claims say is checked last and may refuse any token.           *)
(***************************************************************************)
EXTENDS Integers

CONSTANTS
  KeyId,    \* key identifiers of the issuer, past and present
  Call,     \* concurrent Verify calls
  TTL,      \* jwksVerifierConfig.CacheTTL
  MaxTime,  \* bound on the clock
  None      \* nobody, or an absent result

ASSUME VerifierAssumption ==
  /\ KeyId # {}
  /\ TTL \in Nat \ {0}
  /\ MaxTime \in Nat

Result == {"accepted", "token_invalid", "unavailable"}

ASSUME NoneAssumption == None \notin Call \union Result

VARIABLES
  clock,
  published,  \* kids in the document Identity serves
  keys,       \* jwksVerifier.keys
  expiresAt,  \* jwksVerifier.expiresAt
  refreshMu,  \* the call that holds refreshMu, or None
  pc,         \* where each call stands in Verify or refresh
  kid,        \* the kid of its token
  document,   \* the document its fetch returned
  result,     \* its last result
  lastDocument,  \* history: the document installed last
  installedAt,   \* history: when it was installed
  sawListed,  \* history: at some moment of the call, the document installed last
              \* listed its kid and was younger than TTL
  raced       \* history: another call's refresh was installed after this call
              \* found its key and before it asked whether the cache expired

cached == <<keys, expiresAt>>
installed == <<lastDocument, installedAt>>
history == <<installed, sawListed, raced>>
vars == <<clock, published, cached, refreshMu, pc, kid, document, result, history>>

Refreshing == {"recheck", "fetch", "install"}
Running == {"key", "expiry", "lock", "reread", "claims"} \union Refreshing

Init ==
  /\ clock = 0
  /\ published \in SUBSET KeyId \ {{}}
  /\ keys = {}
  /\ expiresAt = 0
  /\ refreshMu = None
  /\ pc = [c \in Call |-> "idle"]
  /\ \E k \in KeyId : kid = [c \in Call |-> k]
  /\ document = [c \in Call |-> {}]
  /\ result = [c \in Call |-> None]
  /\ lastDocument = {}
  /\ installedAt = 0
  /\ sawListed = [c \in Call |-> FALSE]
  /\ raced = [c \in Call |-> FALSE]

----------------------------------------------------------------------------
CacheExpired == expiresAt <= clock

Listed(k) == k \in keys /\ ~CacheExpired

GoTo(c, phase) == pc' = [pc EXCEPT ![c] = phase]

Return(c, r) ==
  /\ GoTo(c, "idle")
  /\ result' = [result EXCEPT ![c] = r]
  /\ document' = [document EXCEPT ![c] = {}]

\* A token with this kid arrives.
Begin(c, k) ==
  /\ pc[c] = "idle"
  /\ GoTo(c, "key")
  /\ kid' = [kid EXCEPT ![c] = k]
  /\ result' = [result EXCEPT ![c] = None]
  /\ sawListed' = [sawListed EXCEPT ![c] =
                     k \in lastDocument /\ clock < installedAt + TTL]
  /\ raced' = [raced EXCEPT ![c] = FALSE]
  /\ UNCHANGED <<clock, published, cached, refreshMu, document, installed>>

\* The first critical section: is the key known?
ReadKey(c) ==
  /\ pc[c] = "key"
  /\ GoTo(c, IF kid[c] \in keys THEN "expiry" ELSE "lock")
  /\ UNCHANGED <<clock, published, cached, refreshMu, kid, document, result, history>>

\* The second: has the cache, as it is now, expired?
CheckExpiry(c) ==
  /\ pc[c] = "expiry"
  /\ GoTo(c, IF CacheExpired THEN "lock" ELSE "claims")
  /\ UNCHANGED <<clock, published, cached, refreshMu, kid, document, result, history>>

Lock(c) ==
  /\ pc[c] = "lock"
  /\ refreshMu = None
  /\ refreshMu' = c
  /\ GoTo(c, "recheck")
  /\ UNCHANGED <<clock, published, cached, kid, document, result, history>>

\* Mutant: refresh does not look again once it holds the mutex.
RecheckSkipped(c) ==
  /\ pc[c] = "recheck"
  /\ GoTo(c, "fetch")
  /\ UNCHANGED <<clock, published, cached, refreshMu, kid, document, result, history>>

\* Whoever held the mutex before may have refreshed already.
Recheck(c) ==
  /\ pc[c] = "recheck"
  /\ IF Listed(kid[c])
       THEN GoTo(c, "reread") /\ refreshMu' = None
       ELSE GoTo(c, "fetch") /\ UNCHANGED refreshMu
  /\ UNCHANGED <<clock, published, cached, kid, document, result, history>>

Fetch(c) ==
  /\ pc[c] = "fetch"
  /\ document' = [document EXCEPT ![c] = published]
  /\ GoTo(c, "install")
  /\ UNCHANGED <<clock, published, cached, refreshMu, kid, result, history>>

\* Mutant: a failed fetch returns without releasing the mutex.
FetchFailsHoldingMutex(c) ==
  /\ pc[c] = "fetch"
  /\ Return(c, "unavailable")
  /\ UNCHANGED <<clock, published, cached, refreshMu, kid, history>>

\* The fetch failed, or its document is malformed, ambiguous or empty.
FetchFails(c) ==
  /\ pc[c] = "fetch"
  /\ Return(c, "unavailable")
  /\ refreshMu' = None
  /\ UNCHANGED <<clock, published, cached, kid, history>>

\* What the history remembers of an installation.
RecordInstall(c) ==
  /\ lastDocument' = document[c]
  /\ installedAt' = clock
  /\ sawListed' = [d \in Call |-> sawListed[d] \/ kid[d] \in document[c]]
  /\ raced' = [d \in Call |-> raced[d] \/ (d # c /\ pc[d] = "expiry")]

\* Mutant: the fetched keys are added to those known before.
InstallMerging(c) ==
  /\ pc[c] = "install"
  /\ keys' = keys \union document[c]
  /\ expiresAt' = clock + TTL
  /\ refreshMu' = None
  /\ GoTo(c, "reread")
  /\ RecordInstall(c)
  /\ UNCHANGED <<clock, published, kid, document, result>>

\* Mutant: the window is taken from the clock instead of added to it.
InstallBackdated(c) ==
  /\ pc[c] = "install"
  /\ keys' = document[c]
  /\ expiresAt' = clock - TTL
  /\ refreshMu' = None
  /\ GoTo(c, "reread")
  /\ RecordInstall(c)
  /\ UNCHANGED <<clock, published, kid, document, result>>

Install(c) ==
  /\ pc[c] = "install"
  /\ keys' = document[c]
  /\ expiresAt' = clock + TTL
  /\ refreshMu' = None
  /\ GoTo(c, "reread")
  /\ RecordInstall(c)
  /\ UNCHANGED <<clock, published, kid, document, result>>

Reread(c) ==
  /\ pc[c] = "reread"
  /\ IF kid[c] \in keys
       THEN GoTo(c, "claims") /\ UNCHANGED <<result, document>>
       ELSE Return(c, "token_invalid")
  /\ UNCHANGED <<clock, published, cached, refreshMu, kid, history>>

\* The signature is good; issuer, audience, workspace and times decide.
CheckClaims(c) ==
  /\ pc[c] = "claims"
  /\ \E r \in {"accepted", "token_invalid"} : Return(c, r)
  /\ UNCHANGED <<clock, published, cached, refreshMu, kid, history>>

----------------------------------------------------------------------------
\* Identity rotates its keys.
Rotate ==
  /\ \E ks \in SUBSET KeyId \ {{}, published} : published' = ks
  /\ UNCHANGED <<clock, cached, refreshMu, pc, kid, document, result, history>>

Tick ==
  /\ clock < MaxTime
  /\ clock' = clock + 1
  /\ UNCHANGED <<published, cached, refreshMu, pc, kid, document, result, history>>

Step(c) ==
  \/ ReadKey(c) \/ CheckExpiry(c) \/ Lock(c) \/ Recheck(c)
  \/ Fetch(c) \/ FetchFails(c) \/ Install(c)
  \/ Reread(c) \/ CheckClaims(c)

Next ==
  \/ Rotate \/ Tick
  \/ \E c \in Call : Step(c) \/ \E k \in KeyId : Begin(c, k)

Spec == Init /\ [][Next]_vars

\* A call that can go on does.  The fetch is a call through RemoteClient, which
\* returns by its deadline.  sync.Mutex hands the lock to a waiter that has waited
\* for a millisecond, so no waiter starves.
Fairness ==
  \A c \in Call : WF_vars(Step(c)) /\ SF_vars(Lock(c))

FairSpec == Spec /\ Fairness

----------------------------------------------------------------------------
\* The cache and the calls keep their types: the cached keys are key ids, the expiry a
\* moment that is not negative, and the mutex a call's or nobody's (refresh).
TypeOK ==
  /\ clock \in Nat
  /\ published \in SUBSET KeyId \ {{}}
  /\ keys \subseteq KeyId
  /\ expiresAt \in Nat
  /\ refreshMu \in Call \union {None}
  /\ pc \in [Call -> Running \union {"idle"}]
  /\ kid \in [Call -> KeyId]
  /\ document \in [Call -> SUBSET KeyId]
  /\ result \in [Call -> Result \union {None}]
  /\ lastDocument \subseteq KeyId
  /\ installedAt \in Nat
  /\ sawListed \in [Call -> BOOLEAN]
  /\ raced \in [Call -> BOOLEAN]

\* A token is accepted by a key that no document younger than TTL listed at any
\* moment of the call only when another call's refresh came between the two reads
\* of the cache.
UnlistedKeyOnlyBesideRefresh ==
  \A c \in Call : result[c] = "accepted" => sawListed[c] \/ raced[c]

\* JWKS is fetched for a key only while the cache lacks it or has expired: calls
\* that waited for another's refresh do not repeat it.
FetchesOnlyWhenStale ==
  \A c \in Call : pc[c] = "fetch" => ~Listed(kid[c])

\* Every Verify call returns, whatever other calls hold or wait for the mutex.
VerifyReturns == \A c \in Call : (pc[c] # "idle") ~> (pc[c] = "idle")

=============================================================================
