---------------------- MODULE PrincipalResolverProofs ----------------------
(***************************************************************************)
(* The safety properties of PrincipalResolver for every number of requests,*)
(* tokens and accounts, every window, every bundle lifetime and every cache*)
(* fault.  The inductive invariant says what each request may rely on at   *)
(* each point of Authenticate: what its session check established stays    *)
(* true of its own locals, whatever the source and the others do next.     *)
(***************************************************************************)
EXTENDS PrincipalResolver, TLAPS

Checked == {"lookup", "evict", "delete", "resolve", "store"}

\* What the session check established for a request.
Vouched(c) ==
  /\ liveAtStart[c]
  /\ view[c] \in SessionView
  /\ now[c] <= view[c].asOf
  /\ view[c].revision # None =>
       /\ view[c].revision = Claims[token[c]].revision
       /\ revisionAtStart[c] <= view[c].revision

\* A principal the request may be granted.
Grantable(c, p) ==
  /\ p.account = Claims[token[c]].account
  /\ p.revision = Claims[token[c]].revision
  /\ now[c] < p.asOf + MaxTTL
  /\ now[c] < p.bundleExpires

Unchecked(c) ==
  /\ token[c] \in live => liveAtStart[c]
  /\ revisionAtStart[c] <= revision[Claims[token[c]].account]

CallInv(c) ==
  /\ now[c] <= clock
  /\ pc[c] # "ok" => granted[c] = None
  /\ pc[c] \in {"clock", "session"} => Unchecked(c)
  /\ pc[c] \in Checked => Vouched(c)
  /\ pc[c] = "store" =>
       /\ pending[c] \in Principal
       /\ Grantable(c, pending[c])
       /\ now[c] <= pending[c].asOf
  /\ granted[c] # None => Vouched(c) /\ Grantable(c, granted[c])

IInv ==
  /\ TypeOK
  /\ CacheWithinLimits
  /\ \A c \in Call : CallInv(c)

----------------------------------------------------------------------------
(* The operators the invariant is about.                                   *)

\* Earliest, on the three candidate expiries, is one of them and bounds all.
LEMMA EarliestOfThree ==
  ASSUME NEW x \in Nat, NEW y \in Nat, NEW z \in Nat
  PROVE  LET e == Earliest({x, y, z})
         IN  e \in {x, y, z} /\ e <= x /\ e <= y /\ e <= z
<1>1. \E t \in {x, y, z} : \A u \in {x, y, z} : t <= u
  OBVIOUS
<1> QED
  BY <1>1 DEF Earliest

\* The key of a token.
LEMMA KeyType == ASSUME NEW t \in Token PROVE KeyOf(t) \in Key
BY ClaimsAssumption DEF KeyOf, Key

\* The type of the cache alone.
CacheTyped ==
  /\ DOMAIN cache \subseteq Key
  /\ cache \in [DOMAIN cache -> Entry]

\* Dropping entries keeps the rest typed and within limits.
LEMMA Shrink ==
  ASSUME CacheTyped, CacheWithinLimits,
         NEW S, S \subseteq DOMAIN cache, cache' = Restrict(cache, S)
  PROVE  CacheTyped' /\ CacheWithinLimits'
<1>1. DOMAIN cache' = S /\ \A k \in S : cache'[k] = cache[k]
  BY DEF Restrict
<1>2. CacheTyped'
  BY <1>1 DEF CacheTyped, Restrict
<1>3. CacheWithinLimits'
  BY <1>1 DEF CacheWithinLimits, KeyOf
<1> QED BY <1>2, <1>3

\* So does an unchanged cache.
LEMMA Same ==
  ASSUME CacheTyped, CacheWithinLimits, cache' = cache
  PROVE  CacheTyped' /\ CacheWithinLimits'
BY DEF CacheTyped, CacheWithinLimits, KeyOf

\* Set keeps them too when the stored entry respects the limits itself.
LEMMA Fill ==
  ASSUME CacheTyped, CacheWithinLimits,
         NEW t \in Token, NEW e \in Entry, NEW time \in Nat,
         e.principal.account = Claims[t].account,
         e.principal.revision = Claims[t].revision,
         e.expires <= e.principal.bundleExpires,
         e.expires <= e.principal.asOf + MaxTTL,
         e.expires <= Claims[t].expires,
         cache' = Stored(KeyOf(t), e, time)
  PROVE  CacheTyped' /\ CacheWithinLimits'
<1> DEFINE key == KeyOf(t)
           filled == [k \in DOMAIN cache \union {key} |->
                        IF k = key THEN e ELSE cache[k]]
           kept == {k \in DOMAIN filled : Fresh(filled[k], time)}
<1>1. /\ DOMAIN cache' = kept
      /\ kept \subseteq DOMAIN cache \union {key}
      /\ \A k \in kept : cache'[k] = IF k = key THEN e ELSE cache[k]
  BY DEF Stored, Restrict
<1>2. key \in Key
  BY KeyType
<1>3. key.account = Claims[t].account /\ key.revision = Claims[t].revision
  BY DEF KeyOf
<1> HIDE DEF kept, key
<1>4. CacheTyped'
  <2>1. DOMAIN cache' \subseteq Key
    BY <1>1, <1>2 DEF CacheTyped
  <2>2. \A k \in DOMAIN cache' : cache'[k] \in Entry
    BY <1>1 DEF CacheTyped
  <2>3. cache' = [k \in DOMAIN cache' |-> cache'[k]]
    BY DEF Stored, Restrict
  <2> QED BY <2>1, <2>2, <2>3 DEF CacheTyped
<1>5. CacheWithinLimits'
  <2> SUFFICES ASSUME NEW k \in kept
               PROVE  /\ cache'[k].principal.account = k.account
                      /\ cache'[k].principal.revision = k.revision
                      /\ cache'[k].expires <= cache'[k].principal.bundleExpires
                      /\ cache'[k].expires <= cache'[k].principal.asOf + MaxTTL
                      /\ \E u \in Token :
                           KeyOf(u) = k /\ cache'[k].expires <= Claims[u].expires
    BY <1>1 DEF CacheWithinLimits, KeyOf
  <2>1. CASE k = key
    <3>1. cache'[k] = e
      BY <2>1, <1>1
    <3>2. KeyOf(t) = k
      BY <2>1 DEF key
    <3> QED BY <2>1, <3>1, <3>2, <1>3
  <2>2. CASE k # key
    <3>1. k \in DOMAIN cache /\ cache'[k] = cache[k]
      BY <2>2, <1>1
    <3> QED BY <3>1 DEF CacheWithinLimits
  <2> QED BY <2>1, <2>2
<1> QED BY <1>4, <1>5

----------------------------------------------------------------------------
(* Requests do not disturb one another.                                    *)

\* The locals of a request.
Locals(c) ==
  <<pc[c], token[c], now[c], view[c], pending[c], granted[c], liveAtStart[c],
    revisionAtStart[c]>>

\* The clock and the source only ever move forward.
Forward ==
  /\ clock' >= clock
  /\ live' \subseteq live
  /\ \A a \in Account : revision'[a] >= revision[a]

\* What another request or the source does leaves a request where it was.
LEMMA Undisturbed ==
  ASSUME TypeOK, TypeOK', Forward, NEW c \in Call, CallInv(c), UNCHANGED Locals(c)
  PROVE  CallInv(c)'
<1>1. /\ pc'[c] = pc[c] /\ token'[c] = token[c] /\ now'[c] = now[c]
      /\ view'[c] = view[c] /\ pending'[c] = pending[c] /\ granted'[c] = granted[c]
      /\ liveAtStart'[c] = liveAtStart[c] /\ revisionAtStart'[c] = revisionAtStart[c]
  BY DEF Locals
<1>2. token[c] \in Token /\ Claims[token[c]].account \in Account
  BY ClaimsAssumption DEF TypeOK
<1>3. now'[c] <= clock'
  <2>1. now[c] \in Nat /\ clock \in Nat /\ clock' \in Nat /\ now[c] <= clock
    BY DEF TypeOK, CallInv
  <2> QED BY <1>1, <2>1 DEF Forward
<1>4. Unchecked(c) => Unchecked(c)'
  <2>1. /\ revision[Claims[token[c]].account] \in Nat
        /\ revision'[Claims[token[c]].account] \in Nat
        /\ revisionAtStart[c] \in Nat
    BY <1>2 DEF TypeOK
  <2> QED BY <1>1, <1>2, <2>1 DEF Unchecked, Forward
<1>5. Vouched(c) => Vouched(c)'
  BY <1>1 DEF Vouched
<1>6. \A p : Grantable(c, p) => Grantable(c, p)'
  BY <1>1 DEF Grantable
<1> QED
  BY <1>1, <1>3, <1>4, <1>5, <1>6 DEF CallInv

\* Every step is a step of the environment or of one request.
LEMMA ForwardStep == ASSUME TypeOK, [Next]_vars PROVE Forward
<1> USE DEF TypeOK, Forward
<1>1. CASE Tick
  BY <1>1 DEF Tick, source
<1>2. ASSUME NEW t \in Token, EndSession(t) PROVE Forward
  BY <1>2 DEF EndSession
<1>3. ASSUME NEW a \in Account, ChangeAccess(a) PROVE Forward
  BY <1>3 DEF ChangeAccess
<1>4. ASSUME NEW a \in Account, HostInvalidate(a) PROVE Forward
  BY <1>4 DEF HostInvalidate, source
<1>5. CASE Close
  BY <1>5 DEF Close, source
<1>6. ASSUME NEW c \in Call, Step(c) PROVE Forward
  BY <1>6 DEF Step, ReadClock, SessionAccepted, SessionRejected, Invalidate, Lookup,
              LookupFails, LookupMisreads, Evict, Delete, Resolve, ResolveFails,
              Store, source
<1>7. ASSUME NEW c \in Call, NEW t \in Token, Verify(c, t) PROVE Forward
  BY <1>7 DEF Verify, source
<1>8. CASE UNCHANGED vars
  BY <1>8 DEF vars
<1> QED
  BY <1>1, <1>2, <1>3, <1>4, <1>5, <1>6, <1>7, <1>8 DEF Next, Environment

----------------------------------------------------------------------------
(* Type correctness.                                                       *)

\* The types hold at first.
LEMMA InitTypeOK == Init => TypeOK
<1> SUFFICES ASSUME Init PROVE TypeOK
  OBVIOUS
<1>1. AnyToken \in Token
  BY ClaimsAssumption DEF AnyToken
<1>2. DOMAIN cache = {} /\ cache \in [DOMAIN cache -> Entry]
  BY DEF Init
<1> QED
  BY <1>1, <1>2, IssuedAssumption DEF Init, TypeOK, Waiting, Done

\* Expiry is a time.
LEMMA ExpiryType ==
  ASSUME NEW p \in Principal, NEW t \in Token, NEW time \in Nat
  PROVE  /\ ExpiryOf(p, t, time) \in Nat
         /\ ExpiryOf(p, t, time) <= time + MaxTTL
         /\ ExpiryOf(p, t, time) <= Claims[t].expires
         /\ ExpiryOf(p, t, time) <= p.bundleExpires
<1>1. /\ time + MaxTTL \in Nat
      /\ Claims[t].expires \in Nat
      /\ p.bundleExpires \in Nat
  BY ClaimsAssumption, CacheAssumption DEF Principal
<1> DEFINE e == Earliest({time + MaxTTL, Claims[t].expires, p.bundleExpires})
<1>2. /\ e \in {time + MaxTTL, Claims[t].expires, p.bundleExpires}
      /\ e <= time + MaxTTL /\ e <= Claims[t].expires /\ e <= p.bundleExpires
  BY <1>1, EarliestOfThree
<1> QED
  BY <1>1, <1>2 DEF ExpiryOf

----------------------------------------------------------------------------
(* One step of a request preserves its own part of the invariant.          *)

\* What a step of request c has to establish.
Kept(c) == TypeOK' /\ CacheWithinLimits' /\ CallInv(c)'

\* What a token says is typed.
LEMMA ParsedTypes ==
  ASSUME TypeOK, NEW c \in Call
  PROVE  /\ token[c] \in Token
         /\ AccountOf(c) \in Account
         /\ Claims[token[c]].account \in Account
         /\ Claims[token[c]].revision \in Nat
         /\ revision[AccountOf(c)] \in Nat
         /\ now[c] \in Nat /\ clock \in Nat
         /\ revisionAtStart[c] \in Nat
BY ClaimsAssumption DEF TypeOK, AccountOf

\* Verifying the token keeps the invariant.
LEMMA VerifyKeeps ==
  ASSUME IInv, NEW c \in Call, NEW t \in Token, Verify(c, t)
  PROVE  Kept(c)
<1>1. Claims[t].account \in Account
  BY ClaimsAssumption
<1>2. TypeOK'
  BY <1>1 DEF IInv, TypeOK, Verify, GoTo, source, Waiting
<1>3. CacheWithinLimits'
  BY DEF IInv, Verify, source, CacheWithinLimits, KeyOf
<1>4. CallInv(c)'
  <2>1. /\ pc'[c] = "clock" /\ now'[c] = 0 /\ granted'[c] = None
        /\ token'[c] = t /\ liveAtStart'[c] = (t \in live)
        /\ revisionAtStart'[c] = revision[Claims[t].account]
        /\ UNCHANGED <<clock, live, revision>>
    BY DEF IInv, TypeOK, Verify, GoTo, source
  <2>2. clock \in Nat /\ revision[Claims[t].account] \in Nat
    BY <1>1 DEF IInv, TypeOK
  <2>3. Unchecked(c)'
    <3>1. token'[c] \in live' => liveAtStart'[c]
      BY <2>1, Zenon
    <3>2. revisionAtStart'[c] <= revision'[Claims[token'[c]].account]
      BY <2>1, <2>2
    <3> QED BY <3>1, <3>2 DEF Unchecked
  <2>4. now'[c] <= clock' /\ pc'[c] \notin Checked /\ pc'[c] # "store"
    BY <2>1, <2>2 DEF Checked
  <2> QED
    BY <2>1, <2>3, <2>4 DEF CallInv
<1> QED BY <1>2, <1>3, <1>4 DEF Kept

\* ReadClock keeps the invariant.
LEMMA ReadClockKeeps ==
  ASSUME IInv, NEW c \in Call, ReadClock(c)
  PROVE  Kept(c)
<1>1. TypeOK'
  BY DEF IInv, TypeOK, ReadClock, GoTo, source, history, Waiting
<1>2. CacheWithinLimits'
  BY DEF IInv, ReadClock, source, CacheWithinLimits, KeyOf
<1>3. CallInv(c)'
  BY DEF IInv, TypeOK, ReadClock, GoTo, source, history, CallInv, Unchecked, Checked
<1> QED BY <1>1, <1>2, <1>3 DEF Kept

\* SessionAccepted keeps the invariant.
LEMMA SessionAcceptedKeeps ==
  ASSUME IInv, NEW c \in Call, SessionAccepted(c)
  PROVE  Kept(c)
<1> PICK v \in SessionViews(token[c]) :
           /\ SessionMatches(v, token[c])
           /\ view' = [view EXCEPT ![c] = [revision |-> v.revision, asOf |-> clock]]
  BY DEF SessionAccepted
<1>1. /\ token[c] \in live
      /\ v.revision \in {revision[AccountOf(c)], None}
      /\ v.revision \in {None, Claims[token[c]].revision}
  BY DEF SessionViews, SessionMatches, AccountOf
<1>2. TypeOK /\ CallInv(c)
  BY DEF IInv
<1>3. [revision |-> v.revision, asOf |-> clock] \in SessionView
  BY <1>1, <1>2, ParsedTypes DEF SessionView
<1>4. TypeOK'
  BY <1>2, <1>3 DEF TypeOK, SessionAccepted, GoTo, source, history, Waiting
<1>5. CacheWithinLimits'
  BY DEF IInv, SessionAccepted, source, CacheWithinLimits, KeyOf
<1>6. Vouched(c)'
  <2>1. view'[c] = [revision |-> v.revision, asOf |-> clock]
    BY <1>2 DEF TypeOK
  <2>2. liveAtStart[c] /\ revisionAtStart[c] <= revision[AccountOf(c)]
    BY <1>1, <1>2 DEF CallInv, Unchecked, SessionAccepted, AccountOf
  <2>3. v.revision # None =>
          v.revision = Claims[token[c]].revision /\ revisionAtStart[c] <= v.revision
    BY <1>1, <2>2, ParsedTypes, <1>2
  <2>4. now[c] <= clock
    BY <1>2 DEF CallInv
  <2> QED
    BY <2>1, <2>2, <2>3, <2>4, <1>3 DEF Vouched, SessionAccepted, source, history
<1>7. CallInv(c)'
  BY <1>2, <1>6 DEF TypeOK, SessionAccepted, GoTo, source, history, CallInv, Checked
<1> QED BY <1>4, <1>5, <1>7 DEF Kept

\* SessionRejected keeps the invariant.
LEMMA SessionRejectedKeeps ==
  ASSUME IInv, NEW c \in Call, SessionRejected(c)
  PROVE  Kept(c)
<1>1. TypeOK'
  BY DEF IInv, TypeOK, SessionRejected, GoTo, source, history, Waiting
<1>2. CacheWithinLimits'
  BY DEF IInv, SessionRejected, source, CacheWithinLimits, KeyOf
<1>3. CallInv(c)'
  BY DEF IInv, TypeOK, SessionRejected, GoTo, source, history, CallInv, Checked
<1> QED BY <1>1, <1>2, <1>3 DEF Kept

\* Returning an error leaves a request with nothing to rely on.
LEMMA FailKeeps ==
  ASSUME IInv, NEW c \in Call, Fail(c), pc[c] \in Waiting,
         CacheTyped', CacheWithinLimits', UNCHANGED <<clock, source, pending, granted>>
  PROVE  Kept(c)
<1>1. AnyToken \in Token
  BY ClaimsAssumption DEF AnyToken
<1>2. TypeOK'
  BY <1>1 DEF IInv, TypeOK, Fail, GoTo, source, CacheTyped, Waiting, Done
<1>3. CallInv(c)'
  <2>1. granted[c] = None /\ clock \in Nat
    BY DEF IInv, CallInv, Waiting, TypeOK
  <2> QED
    BY <2>1 DEF IInv, TypeOK, Fail, GoTo, source, CallInv, Checked
<1> QED BY <1>2, <1>3 DEF Kept

\* The cache's part of the invariant.
LEMMA CacheParts == IInv => CacheTyped /\ CacheWithinLimits
BY DEF IInv, TypeOK, CacheTyped

\* Invalidate keeps the invariant.
LEMMA InvalidateKeeps ==
  ASSUME IInv, NEW c \in Call, Invalidate(c)
  PROVE  Kept(c)
<1>1. CacheTyped' /\ CacheWithinLimits'
  <2>1. CASE cache' = Invalidated(AccountOf(c))
    BY <2>1, CacheParts, Shrink DEF Invalidated, Without
  <2>2. CASE cache' = cache
    BY <2>2, CacheParts, Same
  <2> QED BY <2>1, <2>2 DEF Invalidate
<1> QED
  BY <1>1, FailKeeps DEF Invalidate, Waiting

\* Being granted a principal that the request may be granted.
LEMMA GrantKeeps ==
  ASSUME IInv, NEW c \in Call, NEW p \in Principal, Vouched(c), Grantable(c, p),
         Grant(c, p), CacheTyped', CacheWithinLimits',
         pending' \in [Call -> Principal \union {None}],
         UNCHANGED <<clock, source, token, now, view, history>>
  PROVE  Kept(c)
<1>1. TypeOK'
  BY DEF IInv, TypeOK, Grant, GoTo, source, history, CacheTyped, Done
<1>2. granted'[c] = p /\ pc'[c] = "ok"
  BY DEF IInv, TypeOK, Grant, GoTo
<1>3. Vouched(c)' /\ Grantable(c, granted[c])'
  BY <1>2 DEF Vouched, Grantable, source, history
<1>4. CallInv(c)'
  BY <1>2, <1>3 DEF IInv, CallInv, Checked, source
<1> QED BY <1>1, <1>4 DEF Kept

\* Moving on with the session check's result intact.
LEMMA MoveKeeps ==
  ASSUME IInv, NEW c \in Call, NEW phase \in {"evict", "delete", "resolve"},
         pc[c] \in Checked, GoTo(c, phase), CacheTyped', CacheWithinLimits',
         UNCHANGED <<clock, source, token, now, view, pending, granted, history>>
  PROVE  Kept(c)
<1>1. TypeOK'
  BY DEF IInv, TypeOK, GoTo, source, history, CacheTyped, Waiting
<1>2. pc'[c] = phase
  BY DEF IInv, TypeOK, GoTo
<1>3. Vouched(c) /\ granted[c] = None /\ now[c] <= clock
  BY DEF IInv, CallInv, Checked
<1>4. Vouched(c)'
  BY <1>3 DEF Vouched, history
<1> QED
  BY <1>1, <1>2, <1>3, <1>4 DEF Kept, CallInv, Checked

\* UseEntry keeps the invariant.
LEMMA UseEntryKeeps ==
  ASSUME IInv, NEW c \in Call, pc[c] = "lookup", NEW k \in DOMAIN cache,
         UseEntry(c, cache[k]), cache' = cache,
         UNCHANGED <<clock, source, token, now, view, pending, history>>
  PROVE  Kept(c)
<1>1. CacheTyped' /\ CacheWithinLimits'
  BY CacheParts, Same
<1>2. CASE CachedPrincipalValid(cache[k], token[c], now[c])
              /\ Grant(c, cache[k].principal)
  <2> DEFINE p == cache[k].principal
  <2>1. cache[k] \in Entry /\ p \in Principal
    BY DEF IInv, TypeOK, Entry
  <2>2. p.asOf \in Nat /\ cache[k].expires \in Nat
    BY <2>1 DEF Principal, Entry
  <2>3. cache[k].expires <= p.asOf + MaxTTL
    BY DEF IInv, CacheWithinLimits
  <2>4. Grantable(c, p)
    BY <1>2, <2>2, <2>3, ParsedTypes, CacheAssumption
       DEF Grantable, CachedPrincipalValid, Fresh, IInv
  <2>5. Vouched(c)
    BY DEF IInv, CallInv, Checked
  <2>6. pending' \in [Call -> Principal \union {None}]
    BY DEF IInv, TypeOK
  <2> QED
    BY <1>1, <1>2, <2>1, <2>4, <2>5, <2>6, GrantKeeps
<1>3. CASE GoTo(c, "delete") /\ UNCHANGED granted
  BY <1>1, <1>3, MoveKeeps DEF Checked
<1> QED
  BY <1>2, <1>3 DEF UseEntry

\* Lookup keeps the invariant.
LEMMA LookupKeeps ==
  ASSUME IInv, NEW c \in Call, Lookup(c) \/ LookupFails(c) \/ LookupMisreads(c)
  PROVE  Kept(c)
<1>1. /\ pc[c] = "lookup" /\ cache' = cache
      /\ UNCHANGED <<clock, source, token, now, view, pending, history>>
  BY DEF Lookup, LookupFails, LookupMisreads
<1>2. CacheTyped' /\ CacheWithinLimits'
  BY <1>1, CacheParts, Same
<1>3. \/ \E phase \in {"evict", "resolve"} : GoTo(c, phase) /\ UNCHANGED granted
      \/ \E k \in DOMAIN cache : UseEntry(c, cache[k])
  BY DEF Lookup, LookupFails, LookupMisreads
<1>4. CASE \E phase \in {"evict", "resolve"} : GoTo(c, phase) /\ UNCHANGED granted
  BY <1>1, <1>2, <1>4, MoveKeeps DEF Checked
<1>5. CASE \E k \in DOMAIN cache : UseEntry(c, cache[k])
  BY <1>1, <1>5, UseEntryKeeps
<1> QED BY <1>3, <1>4, <1>5

\* Evict keeps the invariant.
LEMMA EvictKeeps ==
  ASSUME IInv, NEW c \in Call, Evict(c)
  PROVE  Kept(c)
<1>1. CacheTyped' /\ CacheWithinLimits'
  BY CacheParts, Shrink DEF Evict, Evicted, Without
<1> QED
  BY <1>1, MoveKeeps DEF Evict, Checked

\* Delete keeps the invariant.
LEMMA DeleteKeeps ==
  ASSUME IInv, NEW c \in Call, Delete(c)
  PROVE  Kept(c)
<1>1. CacheTyped' /\ CacheWithinLimits'
  <2>1. CASE cache' = Without({KeyOf(token[c])})
    BY <2>1, CacheParts, Shrink DEF Without
  <2>2. CASE cache' = cache
    BY <2>2, CacheParts, Same
  <2> QED BY <2>1, <2>2 DEF Delete
<1> QED
  BY <1>1, MoveKeeps DEF Delete, Checked

\* Resolve keeps the invariant.
LEMMA ResolveKeeps ==
  ASSUME IInv, NEW c \in Call, Resolve(c)
  PROVE  Kept(c)
<1> PICK lifetime \in Lifetime :
      /\ now[c] < clock + lifetime
      /\ pending' = [pending EXCEPT ![c] =
                       [account |-> AccountOf(c), revision |-> Claims[token[c]].revision,
                        bundleExpires |-> clock + lifetime, asOf |-> view[c].asOf]]
  BY DEF Resolve
<1> DEFINE p == [account |-> AccountOf(c), revision |-> Claims[token[c]].revision,
                 bundleExpires |-> clock + lifetime, asOf |-> view[c].asOf]
<1>1. TypeOK /\ CallInv(c) /\ Vouched(c) /\ granted[c] = None
  BY DEF IInv, CallInv, Checked, Resolve
<1>2. p \in Principal
  <2>1. view[c].asOf \in Nat
    BY <1>1 DEF Vouched, SessionView
  <2>2. clock + lifetime \in Nat
    BY <1>1, CacheAssumption DEF TypeOK
  <2> QED BY <1>1, <2>1, <2>2, ParsedTypes DEF Principal
<1>3. Grantable(c, p) /\ now[c] <= p.asOf
  <2>1. now[c] <= view[c].asOf /\ view[c].asOf \in Nat /\ now[c] \in Nat
    BY <1>1 DEF Vouched, SessionView, TypeOK
  <2>2. now[c] < view[c].asOf + MaxTTL
    BY <2>1, CacheAssumption
  <2> QED BY <2>1, <2>2 DEF Grantable, AccountOf
<1>4. pending'[c] = p /\ pc'[c] = "store"
  BY <1>1 DEF TypeOK, Resolve, GoTo
<1>5. TypeOK'
  BY <1>1, <1>2 DEF TypeOK, Resolve, GoTo, source, history, Waiting
<1>6. CacheWithinLimits'
  BY DEF IInv, Resolve, source, CacheWithinLimits, KeyOf
<1>7. Vouched(c)' /\ Grantable(c, pending[c])'
  BY <1>1, <1>3, <1>4 DEF Vouched, Grantable, Resolve, source, history
<1>8. CallInv(c)'
  BY <1>1, <1>2, <1>3, <1>4, <1>7 DEF CallInv, Checked, Resolve, source, history
<1> QED BY <1>5, <1>6, <1>8 DEF Kept

\* ResolveFails keeps the invariant.
LEMMA ResolveFailsKeeps ==
  ASSUME IInv, NEW c \in Call, ResolveFails(c)
  PROVE  Kept(c)
<1>1. CacheTyped' /\ CacheWithinLimits'
  BY CacheParts, Same DEF ResolveFails
<1> QED
  BY <1>1, FailKeeps DEF ResolveFails, Waiting

\* Store keeps the invariant.
LEMMA StoreKeeps ==
  ASSUME IInv, NEW c \in Call, Store(c)
  PROVE  Kept(c)
<1> DEFINE t == token[c]
           p == pending[c]
           e == [principal |-> p, expires |-> ExpiryOf(p, t, now[c])]
<1>1. /\ TypeOK /\ Vouched(c) /\ p \in Principal /\ Grantable(c, p)
      /\ now[c] <= p.asOf
  BY DEF IInv, CallInv, Checked, Store
<1>2. t \in Token /\ now[c] \in Nat /\ p.asOf \in Nat
  BY <1>1 DEF TypeOK, Principal
<1>3. /\ e.expires \in Nat
      /\ e.expires <= now[c] + MaxTTL
      /\ e.expires <= Claims[t].expires
      /\ e.expires <= p.bundleExpires
  BY <1>1, <1>2, ExpiryType
<1>4. e \in Entry /\ e.expires <= p.asOf + MaxTTL
  BY <1>1, <1>2, <1>3, CacheAssumption DEF Entry
<1>5. CacheTyped' /\ CacheWithinLimits'
  <2>1. CASE cache' = Stored(KeyOf(t), e, now[c])
    <3>1. e.principal = p
      OBVIOUS
    <3>2. p.account = Claims[t].account /\ p.revision = Claims[t].revision
      BY <1>1 DEF Grantable
    <3> HIDE DEF e, p, t
    <3> QED
      BY <1>2, <1>3, <1>4, <2>1, <3>1, <3>2, CacheParts, Fill
  <2>2. CASE cache' = cache
    BY <2>2, CacheParts, Same
  <2> QED BY <2>1, <2>2 DEF Store
<1>6. pending' \in [Call -> Principal \union {None}]
  BY <1>1 DEF TypeOK, Store
<1> QED
  BY <1>1, <1>5, <1>6, GrantKeeps DEF Store

----------------------------------------------------------------------------
(* The invariant is inductive.                                             *)

\* The invariant holds at first.
LEMMA InitIInv == Init => IInv
<1> SUFFICES ASSUME Init PROVE IInv
  OBVIOUS
<1>1. TypeOK
  BY InitTypeOK
<1>2. CacheWithinLimits
  BY DEF Init, CacheWithinLimits
<1>3. ASSUME NEW c \in Call PROVE CallInv(c)
  BY DEF Init, CallInv, Checked
<1> QED BY <1>1, <1>2, <1>3 DEF IInv

\* A step of one request leaves every other request's locals alone.
LEMMA OthersUnchanged ==
  ASSUME TypeOK, NEW c \in Call, NEW d \in Call, c # d,
         Step(c) \/ \E t \in Token : Verify(c, t)
  PROVE  UNCHANGED Locals(d)
<1> USE DEF TypeOK, Locals, GoTo, source, history
<1>1. CASE ReadClock(c)
  BY <1>1 DEF ReadClock
<1>2. CASE SessionAccepted(c)
  BY <1>2 DEF SessionAccepted
<1>3. CASE SessionRejected(c)
  BY <1>3 DEF SessionRejected
<1>4. CASE Invalidate(c)
  BY <1>4 DEF Invalidate, Fail
<1>5. CASE Lookup(c)
  BY <1>5 DEF Lookup, UseEntry, Grant
<1>6. CASE LookupFails(c)
  BY <1>6 DEF LookupFails
<1>7. CASE LookupMisreads(c)
  BY <1>7 DEF LookupMisreads, UseEntry, Grant
<1>8. CASE Evict(c)
  BY <1>8 DEF Evict
<1>9. CASE Delete(c)
  BY <1>9 DEF Delete
<1>10. CASE Resolve(c)
  BY <1>10 DEF Resolve
<1>11. CASE ResolveFails(c)
  BY <1>11 DEF ResolveFails, Fail
<1>12. CASE Store(c)
  BY <1>12 DEF Store, Grant
<1>13. CASE \E t \in Token : Verify(c, t)
  BY <1>13 DEF Verify
<1> QED
  BY <1>1, <1>2, <1>3, <1>4, <1>5, <1>6, <1>7, <1>8, <1>9, <1>10, <1>11, <1>12,
     <1>13 DEF Step

\* The environment leaves every request's locals alone and never adds an entry.
LEMMA EnvironmentKeeps ==
  ASSUME IInv, Environment \/ UNCHANGED vars
  PROVE  TypeOK' /\ CacheWithinLimits' /\ \A c \in Call : UNCHANGED Locals(c)
<1>1. /\ UNCHANGED <<pc, token, now, view, pending, granted, liveAtStart,
                     revisionAtStart>>
      /\ \/ cache' = cache
         \/ \E S \in SUBSET DOMAIN cache : cache' = Restrict(cache, S)
  <2>1. CASE Tick
    BY <2>1 DEF Tick, history
  <2>2. CASE \E t \in Token : EndSession(t)
    BY <2>2 DEF EndSession, history
  <2>3. CASE \E a \in Account : ChangeAccess(a)
    BY <2>3 DEF ChangeAccess, history
  <2>4. CASE \E a \in Account : HostInvalidate(a)
    BY <2>4 DEF HostInvalidate, Invalidated, Without, history
  <2>5. CASE Close
    <3>1. cache' = Restrict(cache, {})
      BY <2>5 DEF Close, Restrict
    <3> QED BY <2>5, <3>1 DEF Close, history
  <2>6. CASE UNCHANGED vars
    BY <2>6 DEF vars
  <2> QED BY <2>1, <2>2, <2>3, <2>4, <2>5, <2>6 DEF Environment
<1>2. CacheTyped' /\ CacheWithinLimits'
  BY <1>1, CacheParts, Same, Shrink
<1>3. clock' \in Nat /\ live' \subseteq Token /\ revision' \in [Account -> Nat]
  <2> USE DEF IInv, TypeOK, source
  <2>1. CASE Tick
    BY <2>1 DEF Tick
  <2>2. CASE \E t \in Token : EndSession(t)
    BY <2>2 DEF EndSession
  <2>3. CASE \E a \in Account : ChangeAccess(a)
    BY <2>3 DEF ChangeAccess
  <2>4. CASE \E a \in Account : HostInvalidate(a)
    BY <2>4 DEF HostInvalidate
  <2>5. CASE Close
    BY <2>5 DEF Close
  <2>6. CASE UNCHANGED vars
    BY <2>6 DEF vars
  <2> QED BY <2>1, <2>2, <2>3, <2>4, <2>5, <2>6 DEF Environment
<1>4. TypeOK'
  BY <1>1, <1>2, <1>3 DEF IInv, TypeOK, CacheTyped
<1>5. \A c \in Call : UNCHANGED Locals(c)
  BY <1>1 DEF Locals
<1> QED BY <1>2, <1>4, <1>5

\* Every step of a request keeps it.
LEMMA StepKeeps ==
  ASSUME IInv, NEW c \in Call, Step(c) \/ \E t \in Token : Verify(c, t)
  PROVE  Kept(c)
BY VerifyKeeps, ReadClockKeeps, SessionAcceptedKeeps, SessionRejectedKeeps,
   InvalidateKeeps, LookupKeeps, EvictKeeps, DeleteKeeps, ResolveKeeps,
   ResolveFailsKeeps, StoreKeeps DEF Step

\* Every step keeps it.
LEMMA Inductive == IInv /\ [Next]_vars => IInv'
<1> SUFFICES ASSUME IInv, [Next]_vars PROVE IInv'
  OBVIOUS
<1>1. TypeOK /\ Forward
  BY ForwardStep DEF IInv
<1>2. CASE Environment \/ UNCHANGED vars
  BY <1>1, <1>2, EnvironmentKeeps, Undisturbed DEF IInv
<1>3. ASSUME NEW c \in Call, Step(c) \/ \E t \in Token : Verify(c, t)
      PROVE  IInv'
  <2>1. Kept(c)
    BY <1>3, StepKeeps
  <2>2. ASSUME NEW d \in Call PROVE CallInv(d)'
    <3>1. CASE d = c
      BY <2>1, <3>1 DEF Kept
    <3>2. CASE d # c
      <4>1. UNCHANGED Locals(d)
        BY <1>1, <1>3, <3>2, OthersUnchanged
      <4> QED BY <1>1, <2>1, <4>1, Undisturbed DEF IInv, Kept
    <3> QED BY <3>1, <3>2
  <2> QED BY <2>1, <2>2 DEF IInv, Kept
<1> QED BY <1>2, <1>3 DEF Next

\* It always holds.
LEMMA AlwaysIInv == Spec => []IInv
BY InitIInv, Inductive, PTL DEF Spec

----------------------------------------------------------------------------
(* What a deployment may rely on.                                          *)

\* Every reachable state of the resolver and its cache is well typed, for any
\* number of concurrent Authenticate calls.
THEOREM TypeCorrect == Spec => []TypeOK
<1>1. IInv => TypeOK
  BY DEF IInv
<1> QED BY <1>1, AlwaysIInv, PTL

\* Authenticate never returns a principal for a session that had ended before
\* the call, whatever is cached.
THEOREM NeverAfterSessionEnd == Spec => []EndedSessionNeverGranted
<1>1. IInv => EndedSessionNeverGranted
  BY DEF IInv, CallInv, Vouched, EndedSessionNeverGranted
<1> QED BY <1>1, AlwaysIInv, PTL

\* Authenticate only ever returns the principal of the token's own account and
\* revision, even over a cache that answers with another key's entry.
THEOREM OwnPrincipal == Spec => []GrantsOwnPrincipal
<1>1. IInv => GrantsOwnPrincipal
  BY DEF IInv, CallInv, Grantable, GrantsOwnPrincipal
<1> QED BY <1>1, AlwaysIInv, PTL

\* A granted principal's session facts are younger than MaxCacheTTL and its
\* bundle has not expired, at the clock reading Authenticate took.
THEOREM BoundedSnapshot == Spec => []GrantsBoundedSnapshot
<1>1. IInv => GrantsBoundedSnapshot
  BY DEF IInv, CallInv, Grantable, GrantsBoundedSnapshot
<1> QED BY <1>1, AlwaysIInv, PTL

\* A principal granted after a session view that states a revision is no older
\* than the authorization in force when the call began.
THEOREM AccessChangeVisible == Spec => []AuthorizationChangeTakesEffect
<1>1. ASSUME IInv PROVE AuthorizationChangeTakesEffect
  <2> SUFFICES ASSUME NEW c \in Call, granted[c] # None, view[c].revision # None
               PROVE  granted[c].revision >= revisionAtStart[c]
    BY DEF AuthorizationChangeTakesEffect
  <2>1. Vouched(c) /\ Grantable(c, granted[c])
    BY <1>1 DEF IInv, CallInv
  <2>2. /\ granted[c].revision = Claims[token[c]].revision
        /\ revisionAtStart[c] <= Claims[token[c]].revision
    BY <2>1 DEF Vouched, Grantable
  <2>3. TypeOK
    BY <1>1 DEF IInv
  <2> QED BY <2>2, <2>3, ParsedTypes
<1> QED BY <1>1, AlwaysIInv, PTL

\* Every cached entry belongs to its key and expires no later than its token,
\* its bundle and the window allow.
THEOREM CacheLimits == Spec => []CacheWithinLimits
<1>1. IInv => CacheWithinLimits
  BY DEF IInv
<1> QED BY <1>1, AlwaysIInv, PTL

=============================================================================
