------------------------- MODULE PrincipalResolver -------------------------
(***************************************************************************)
(* Request authentication in authorization/principal: the Resolver that    *)
(* turns an access token into a Runtime principal, the memory cache it     *)
(* keeps, and the part of the Identity service it consults.                *)
(*                                                                         *)
(* Authenticate runs concurrently in every request goroutine.  It takes    *)
(* one clock reading, then makes remote calls and takes the cache lock     *)
(* several times; each of those is a step here, so that a revocation, an   *)
(* authorization change or another request can fall between any two.       *)
(*                                                                         *)
(* An account stands for a (workspace, subject) pair, the granularity of   *)
(* every comparison in the code.  A principal is what the properties tell  *)
(* apart of it: whose it is, at which authorization revision, how long its *)
(* bundle lasts, and when its session facts were read from the source.     *)
(***************************************************************************)
EXTENDS Integers, Functions

CONSTANTS
  Account,      \* (workspace, subject) pairs
  Token,        \* access tokens in circulation
  TokenId,      \* values of the jti claim
  Claims,       \* what each token's signature vouches for
  Issued,       \* each account's authorization revision at the start
  Call,         \* request goroutines
  MaxTTL,       \* Options.MaxCacheTTL
  Lifetime,     \* how far ahead of the source's clock a bundle may expire
  CacheFaults,  \* what may go wrong in an injected Cache implementation
  MaxTime,      \* bound on the clock
  MaxRevision,  \* bound on the authorization changes of each account
  None          \* an empty field or an absent principal

Key == [account : Account, revision : Nat, id : TokenId]

Principal == [account : Account, revision : Nat, bundleExpires : Nat, asOf : Nat]

Entry == [principal : Principal, expires : Nat]

\* What a request keeps of the source's answer: the revision it states, if any,
\* and when the source stated it.
SessionView == [revision : Nat \union {None}, asOf : Nat]

Fault == {"unavailable", "misread"}

ASSUME ClaimsAssumption ==
  /\ Token # {}
  /\ Claims \in [Token -> [account : Account, revision : Nat, id : TokenId, expires : Nat]]

ASSUME IssuedAssumption == Issued \in [Account -> Nat]

ASSUME CacheAssumption ==
  /\ MaxTTL \in Nat \ {0}
  /\ Lifetime \subseteq Nat
  /\ CacheFaults \subseteq Fault

ASSUME BoundAssumption == MaxTime \in Nat /\ MaxRevision \in [Account -> Nat]

ASSUME NoneAssumption ==
  /\ None \notin Principal /\ None \notin Nat /\ None \notin Account
  /\ None \notin SessionView

VARIABLES
  clock,      \* the wall clock, read by resolvers and by the source
  live,       \* tokens whose source session is active
  revision,   \* current authorization revision of each account, at the source
  cache,      \* memoryCache.entries
  pc,         \* where each request stands in Authenticate
  token,      \* its access token
  now,        \* its single clock reading
  view,       \* the source's SessionView, or None
  pending,    \* the resolved principal on its way to the cache
  granted,    \* the principal Authenticate returned, or None
  liveAtStart,     \* history: was the session active when the request began
  revisionAtStart  \* history: the account's revision when the request began

source == <<live, revision>>
history == <<liveAtStart, revisionAtStart>>
vars == <<clock, live, revision, cache, pc, token, now, view, pending,
          granted, liveAtStart, revisionAtStart>>

AnyToken == CHOOSE t \in Token : TRUE

Waiting == {"clock", "session", "invalidate", "lookup", "evict", "delete",
            "resolve", "store"}
Done == {"idle", "ok"}

Init ==
  /\ clock = 0
  /\ live = Token
  /\ revision = Issued
  /\ cache = [k \in {} |-> None]
  /\ pc = [c \in Call |-> "idle"]
  /\ token = [c \in Call |-> AnyToken]
  /\ now = [c \in Call |-> 0]
  /\ view = [c \in Call |-> None]
  /\ pending = [c \in Call |-> None]
  /\ granted = [c \in Call |-> None]
  /\ liveAtStart = [c \in Call |-> TRUE]
  /\ revisionAtStart = [c \in Call |-> 0]

----------------------------------------------------------------------------
(* The cache: each operator is one critical section of memoryCache.        *)

\* Mutant: the cache key leaves out the token's jti.
KeyWithoutTokenId(t) == [account |-> Claims[t].account, revision |-> Claims[t].revision]

KeyOf(t) == [account |-> Claims[t].account, revision |-> Claims[t].revision,
             id |-> Claims[t].id]

AccountOf(c) == Claims[token[c]].account

Fresh(entry, time) == time < entry.expires

Without(keys) == Restrict(cache, DOMAIN cache \ keys)

\* Get's second critical section: the entry may have been replaced meanwhile.
Evicted(key, time) ==
  Without({k \in DOMAIN cache : k = key /\ ~Fresh(cache[k], time)})

Invalidated(account) == Without({k \in DOMAIN cache : k.account = account})

\* Set stores, then sweeps every entry that has expired, its own included.
Stored(key, entry, time) ==
  LET filled == [k \in DOMAIN cache \union {key} |->
                   IF k = key THEN entry ELSE cache[k]]
  IN  Restrict(filled, {k \in DOMAIN filled : Fresh(filled[k], time)})

\* Mutant: a cached principal is trusted to be its key's.
CachedPrincipalTrusted(entry, t, time) ==
  Fresh(entry, time) /\ time < entry.principal.bundleExpires

CachedPrincipalValid(entry, t, time) ==
  /\ Fresh(entry, time)
  /\ entry.principal.account = Claims[t].account
  /\ entry.principal.revision = Claims[t].revision
  /\ time < entry.principal.bundleExpires

Earliest(times) == CHOOSE t \in times : \A u \in times : t <= u

\* Mutant: the window is counted from the time of storing.
ExpiryFromStore(p, t, time) ==
  Earliest({clock + MaxTTL, Claims[t].expires, p.bundleExpires})

ExpiryOf(p, t, time) ==
  Earliest({time + MaxTTL, Claims[t].expires, p.bundleExpires})

----------------------------------------------------------------------------
(* The Identity service and time.                                          *)

EndSession(t) ==
  /\ t \in live
  /\ live' = live \ {t}
  /\ UNCHANGED <<clock, revision, cache, pc, token, now, view, pending,
                 granted, history>>

ChangeAccess(a) ==
  /\ revision[a] < MaxRevision[a]
  /\ revision' = [revision EXCEPT ![a] = @ + 1]
  /\ UNCHANGED <<clock, live, cache, pc, token, now, view, pending,
                 granted, history>>

Tick ==
  /\ clock < MaxTime
  /\ clock' = clock + 1
  /\ UNCHANGED <<source, cache, pc, token, now, view, pending, granted,
                 history>>

\* SessionViews the source may answer for a token: the session must be active;
\* the subject and the revision may be left empty, and a misrouted answer may
\* describe another account.
SessionViews(t) ==
  IF t \in live
    THEN [account : Account \union {None},
          revision : {revision[Claims[t].account], None}]
    ELSE {}

\* Mutant: the revision the source states is not compared with the token's.
SessionMatchesAccount(v, t) == v.account \in {None, Claims[t].account}

SessionMatches(v, t) ==
  /\ v.account \in {None, Claims[t].account}
  /\ v.revision \in {None, Claims[t].revision}

----------------------------------------------------------------------------
(* Authenticate.                                                           *)

GoTo(c, phase) == pc' = [pc EXCEPT ![c] = phase]

\* Authenticate returns an error; the request's locals die with it.
Fail(c) ==
  /\ GoTo(c, "idle")
  /\ token' = [token EXCEPT ![c] = AnyToken]
  /\ now' = [now EXCEPT ![c] = 0]
  /\ view' = [view EXCEPT ![c] = None]
  /\ liveAtStart' = [liveAtStart EXCEPT ![c] = TRUE]
  /\ revisionAtStart' = [revisionAtStart EXCEPT ![c] = 0]

\* The token verifies: its signature is good and it has not expired.
Verify(c, t) ==
  /\ pc[c] \in Done
  /\ clock < Claims[t].expires
  /\ GoTo(c, "clock")
  /\ token' = [token EXCEPT ![c] = t]
  /\ granted' = [granted EXCEPT ![c] = None]
  /\ view' = [view EXCEPT ![c] = None]
  /\ now' = [now EXCEPT ![c] = 0]
  /\ liveAtStart' = [liveAtStart EXCEPT ![c] = t \in live]
  /\ revisionAtStart' = [revisionAtStart EXCEPT ![c] = revision[Claims[t].account]]
  /\ UNCHANGED <<clock, source, cache, pending>>

\* Mutant: the cache is consulted without revalidating the session.
ReadClockThenLookup(c) ==
  /\ pc[c] = "clock"
  /\ now' = [now EXCEPT ![c] = clock]
  /\ view' = [view EXCEPT ![c] = [revision |-> None, asOf |-> clock]]
  /\ GoTo(c, "lookup")
  /\ UNCHANGED <<clock, source, cache, token, pending, granted, history>>

ReadClock(c) ==
  /\ pc[c] = "clock"
  /\ now' = [now EXCEPT ![c] = clock]
  /\ GoTo(c, "session")
  /\ UNCHANGED <<clock, source, cache, token, view, pending, granted,
                 history>>

SessionAccepted(c) ==
  /\ pc[c] = "session"
  /\ \E v \in SessionViews(token[c]) :
       /\ SessionMatches(v, token[c])
       /\ view' = [view EXCEPT ![c] = [revision |-> v.revision, asOf |-> clock]]
  /\ GoTo(c, "lookup")
  /\ UNCHANGED <<clock, source, cache, token, now, pending, granted, history>>

\* The source refused or could not answer, or its view contradicts the token.
SessionRejected(c) ==
  /\ pc[c] = "session"
  /\ GoTo(c, "invalidate")
  /\ UNCHANGED <<clock, source, cache, token, now, view, pending,
                 granted, history>>

Invalidate(c) ==
  /\ pc[c] = "invalidate"
  /\ \/ cache' = Invalidated(AccountOf(c))
     \/ "unavailable" \in CacheFaults /\ UNCHANGED cache
  /\ Fail(c)
  /\ UNCHANGED <<clock, source, pending, granted>>

Grant(c, p) ==
  /\ granted' = [granted EXCEPT ![c] = p]
  /\ GoTo(c, "ok")

\* What Authenticate does with an entry the cache says it found.
UseEntry(c, entry) ==
  \/ /\ CachedPrincipalValid(entry, token[c], now[c])
     /\ Grant(c, entry.principal)
  \/ /\ ~CachedPrincipalValid(entry, token[c], now[c])
     /\ GoTo(c, "delete")
     /\ UNCHANGED granted

\* memoryCache.Get: absent, found, or found expired (then a second lock).
Lookup(c) ==
  LET key == KeyOf(token[c]) IN
  /\ pc[c] = "lookup"
  /\ \/ /\ key \notin DOMAIN cache
        /\ GoTo(c, "resolve")
        /\ UNCHANGED granted
     \/ /\ key \in DOMAIN cache
        /\ ~Fresh(cache[key], now[c])
        /\ GoTo(c, "evict")
        /\ UNCHANGED granted
     \/ /\ key \in DOMAIN cache
        /\ Fresh(cache[key], now[c])
        /\ UseEntry(c, cache[key])
  /\ UNCHANGED <<clock, source, cache, token, now, view, pending, history>>

\* An injected cache may fail, and a cancelled context fails any Get.
LookupFails(c) ==
  /\ pc[c] = "lookup"
  /\ "unavailable" \in CacheFaults
  /\ GoTo(c, "resolve")
  /\ UNCHANGED <<clock, source, cache, token, now, view, pending,
                 granted, history>>

\* An injected cache may answer with an expired entry or another key's.
LookupMisreads(c) ==
  /\ pc[c] = "lookup"
  /\ "misread" \in CacheFaults
  /\ \E k \in DOMAIN cache : UseEntry(c, cache[k])
  /\ UNCHANGED <<clock, source, cache, token, now, view, pending, history>>

Evict(c) ==
  /\ pc[c] = "evict"
  /\ cache' = Evicted(KeyOf(token[c]), now[c])
  /\ GoTo(c, "resolve")
  /\ UNCHANGED <<clock, source, token, now, view, pending, granted,
                 history>>

Delete(c) ==
  /\ pc[c] = "delete"
  /\ \/ cache' = Without({KeyOf(token[c])})
     \/ "unavailable" \in CacheFaults /\ UNCHANGED cache
  /\ GoTo(c, "resolve")
  /\ UNCHANGED <<clock, source, token, now, view, pending, granted,
                 history>>

\* ResolveAccess answered with a bundle that is valid at the captured clock
\* reading and agrees with the token.
Resolve(c) ==
  LET t == token[c] IN
  /\ pc[c] = "resolve"
  /\ revision[AccountOf(c)] = Claims[t].revision
  /\ \E lifetime \in Lifetime :
       /\ now[c] < clock + lifetime
       /\ pending' = [pending EXCEPT ![c] =
                        [account |-> AccountOf(c), revision |-> Claims[t].revision,
                         bundleExpires |-> clock + lifetime, asOf |-> view[c].asOf]]
  /\ GoTo(c, "store")
  /\ UNCHANGED <<clock, source, cache, token, now, view, granted, history>>

\* ResolveAccess failed, or its bundle is expired or contradicts the token.
ResolveFails(c) ==
  /\ pc[c] = "resolve"
  /\ Fail(c)
  /\ UNCHANGED <<clock, source, cache, pending, granted>>

Store(c) ==
  LET t == token[c]
      entry == [principal |-> pending[c], expires |-> ExpiryOf(pending[c], t, now[c])]
  IN
  /\ pc[c] = "store"
  /\ \/ cache' = Stored(KeyOf(t), entry, now[c])
     \/ "unavailable" \in CacheFaults /\ UNCHANGED cache
  /\ Grant(c, pending[c])
  /\ pending' = [pending EXCEPT ![c] = None]
  /\ UNCHANGED <<clock, source, token, now, view, history>>

----------------------------------------------------------------------------
\* Resolver.Invalidate called by the host for an account.
HostInvalidate(a) ==
  /\ \E k \in DOMAIN cache : k.account = a
  /\ cache' = Invalidated(a)
  /\ UNCHANGED <<clock, source, pc, token, now, view, pending, granted,
                 history>>

\* memoryCache.Close.
Close ==
  /\ DOMAIN cache # {}
  /\ cache' = [k \in {} |-> None]
  /\ UNCHANGED <<clock, source, pc, token, now, view, pending, granted,
                 history>>

Step(c) ==
  \/ ReadClock(c)
  \/ SessionAccepted(c) \/ SessionRejected(c) \/ Invalidate(c)
  \/ Lookup(c) \/ LookupFails(c) \/ LookupMisreads(c)
  \/ Evict(c) \/ Delete(c)
  \/ Resolve(c) \/ ResolveFails(c) \/ Store(c)

Environment ==
  \/ Tick
  \/ \E t \in Token : EndSession(t)
  \/ \E a \in Account : ChangeAccess(a) \/ HostInvalidate(a)
  \/ Close

Next ==
  \/ Environment
  \/ \E c \in Call : Step(c) \/ \E t \in Token : Verify(c, t)

Spec == Init /\ [][Next]_vars

----------------------------------------------------------------------------
\* Requests and the memory cache keep their types: keys are made
\* of a token (resolverCacheKey), and entries and grants are principals.
TypeOK ==
  /\ clock \in Nat
  /\ live \subseteq Token
  /\ revision \in [Account -> Nat]
  /\ DOMAIN cache \subseteq Key
  /\ cache \in [DOMAIN cache -> Entry]
  /\ pc \in [Call -> Waiting \union Done]
  /\ token \in [Call -> Token]
  /\ now \in [Call -> Nat]
  /\ view \in [Call -> SessionView \union {None}]
  /\ pending \in [Call -> Principal \union {None}]
  /\ granted \in [Call -> Principal \union {None}]
  /\ liveAtStart \in [Call -> BOOLEAN]
  /\ revisionAtStart \in [Call -> Nat]

\* A request whose source session had already ended when it began is never
\* granted a principal, whatever the cache still holds and however earlier
\* requests that saw the session alive interleave with it.
EndedSessionNeverGranted ==
  \A c \in Call : granted[c] # None => liveAtStart[c]

\* The principal a request is granted is its own token's account at its own
\* token's revision, even when the cache answers with another key's entry.
GrantsOwnPrincipal ==
  \A c \in Call : granted[c] # None =>
    /\ granted[c].account = Claims[token[c]].account
    /\ granted[c].revision = Claims[token[c]].revision

\* Session facts are never reused for MaxTTL or longer after the source stated
\* them, nor a bundle past its own expiry, measured at the request's clock
\* reading: however late Set runs, it cannot stretch the window.
GrantsBoundedSnapshot ==
  \A c \in Call : granted[c] # None =>
    /\ now[c] < granted[c].asOf + MaxTTL
    /\ now[c] < granted[c].bundleExpires

\* An authorization change that completed before the request began takes
\* effect at once, cached projections notwithstanding, provided the source
\* states the revision in its session view.
AuthorizationChangeTakesEffect ==
  \A c \in Call : granted[c] # None /\ view[c].revision # None =>
    granted[c].revision >= revisionAtStart[c]

\* Every stored entry belongs to its key and lasts no longer than its token,
\* its bundle and the configured window counted from the source's statement.
CacheWithinLimits ==
  \A k \in DOMAIN cache :
    LET e == cache[k] IN
    /\ e.principal.account = k.account
    /\ e.principal.revision = k.revision
    /\ e.expires <= e.principal.bundleExpires
    /\ e.expires <= e.principal.asOf + MaxTTL
    /\ \E t \in Token : KeyOf(t) = k /\ e.expires <= Claims[t].expires

=============================================================================
