------------------------ MODULE TokenVerifierProofs ------------------------
(***************************************************************************)
(* The safety of the JWKS verifier for any number of keys and calls, any   *)
(* cache lifetime and any rotation of the issuer's keys.                   *)
(*                                                                         *)
(* The inductive invariant has three parts: refreshMu is held by exactly   *)
(* the call that is refreshing; the cache is the document installed last;  *)
(* and where a call stands tells what it has seen of its key.              *)
(***************************************************************************)
EXTENDS TokenVerifier, TLAPS

MutexInv == \A c \in Call : pc[c] \in Refreshing <=> refreshMu = c

CacheInv ==
  /\ keys = lastDocument
  /\ keys # {} => expiresAt = installedAt + TTL

\* What a call knows of its key at each of its steps.
SeenInv(c) ==
  /\ pc[c] # "idle" /\ Listed(kid[c]) => sawListed[c]
  /\ pc[c] = "expiry" => kid[c] \in keys \/ raced[c]
  /\ pc[c] = "reread" /\ kid[c] \in keys => sawListed[c]
  /\ pc[c] = "claims" => sawListed[c] \/ raced[c]
  /\ result[c] = "accepted" => sawListed[c] \/ raced[c]

FetchInv(c) == pc[c] = "fetch" => ~Listed(kid[c])

IInv ==
  /\ TypeOK
  /\ MutexInv
  /\ CacheInv
  /\ \A c \in Call : SeenInv(c) /\ FetchInv(c)

\* Nobody is no call.
LEMMA NoneIsNoCall == \A c \in Call : c # None
BY NoneAssumption

\* A call without a result has none.
LEMMA NoneIsNoResult == None # "accepted"
BY NoneAssumption DEF Result

\* The invariant holds at first.
LEMMA InitIInv == Init => IInv
<1> SUFFICES ASSUME Init PROVE IInv
  OBVIOUS
<1>1. TypeOK
  BY DEF Init, TypeOK, Running
<1>2. MutexInv
  BY NoneIsNoCall DEF Init, MutexInv, Refreshing
<1>3. CacheInv
  BY DEF Init, CacheInv
<1>4. ASSUME NEW c \in Call PROVE SeenInv(c) /\ FetchInv(c)
  BY NoneIsNoResult DEF Init, SeenInv, FetchInv
<1> QED BY <1>1, <1>2, <1>3, <1>4 DEF IInv

----------------------------------------------------------------------------
\* A step that leaves a call's position, key, result and history alone, and lists
\* no key that was not listed, keeps what that call knows.
LEMMA OtherCall ==
  ASSUME NEW c \in Call, SeenInv(c), FetchInv(c),
         pc'[c] = pc[c], kid'[c] = kid[c], result'[c] = result[c],
         sawListed'[c] = sawListed[c], raced'[c] = raced[c],
         UNCHANGED <<keys, expiresAt>>, clock' \in Nat, clock \in Nat, expiresAt \in Nat,
         clock' >= clock
  PROVE  SeenInv(c)' /\ FetchInv(c)'
<1>1. Listed(kid[c])' => Listed(kid[c])
  BY DEF Listed, CacheExpired
<1>2. SeenInv(c)'
  BY <1>1 DEF SeenInv
<1>3. FetchInv(c)'
  BY <1>1 DEF FetchInv
<1> QED BY <1>2, <1>3

\* What the invariant says of a call, after a step of that call or of another
\* that changes neither the cache nor the clock.
LEMMA LocalStep ==
  ASSUME IInv, NEW c \in Call, TypeOK', MutexInv',
         UNCHANGED <<clock, cached, installed>>,
         \A d \in Call \ {c} :
           /\ pc'[d] = pc[d] /\ kid'[d] = kid[d] /\ result'[d] = result[d]
           /\ sawListed'[d] = sawListed[d] /\ raced'[d] = raced[d],
         SeenInv(c)', FetchInv(c)'
  PROVE  IInv'
<1>1. CacheInv'
  BY DEF IInv, CacheInv, cached, installed
<1>2. ASSUME NEW d \in Call \ {c} PROVE SeenInv(d)' /\ FetchInv(d)'
  <2>1. clock \in Nat /\ expiresAt \in Nat /\ clock' \in Nat /\ clock' >= clock
    BY DEF IInv, TypeOK
  <2> QED BY <2>1, OtherCall DEF IInv, cached
<1>3. ASSUME NEW d \in Call PROVE SeenInv(d)' /\ FetchInv(d)'
  BY <1>2, <1>3
<1> QED BY <1>1, <1>3 DEF IInv

----------------------------------------------------------------------------
\* Begin keeps the invariant.
LEMMA BeginStep ==
  ASSUME IInv, NEW c \in Call, NEW k \in KeyId, Begin(c, k) PROVE IInv'
<1> USE DEF IInv
<1>1. TypeOK'
  BY DEF TypeOK, Begin, GoTo, Running, cached, installed
<1>2. MutexInv'
  BY DEF TypeOK, MutexInv, Begin, GoTo, Refreshing
<1>3. SeenInv(c)' /\ FetchInv(c)'
  <2>1. /\ pc'[c] = "key" /\ kid'[c] = k /\ result'[c] = None
        /\ sawListed'[c] = (k \in lastDocument /\ clock < installedAt + TTL)
    BY DEF TypeOK, Begin, GoTo
  <2>2. UNCHANGED <<keys, expiresAt, clock>>
    BY DEF Begin, cached
  <2>3. Listed(kid[c])' => k \in lastDocument /\ clock < installedAt + TTL
    BY <2>1, <2>2, VerifierAssumption DEF Listed, CacheExpired, CacheInv, TypeOK
  <2> QED BY <2>1, <2>3, NoneIsNoResult DEF SeenInv, FetchInv
<1>4. UNCHANGED <<clock, cached, installed>>
  BY DEF Begin
<1>5. \A d \in Call \ {c} :
        /\ pc'[d] = pc[d] /\ kid'[d] = kid[d] /\ result'[d] = result[d]
        /\ sawListed'[d] = sawListed[d] /\ raced'[d] = raced[d]
  BY DEF TypeOK, Begin, GoTo
<1> QED BY <1>1, <1>2, <1>3, <1>4, <1>5, LocalStep

\* ReadKey keeps the invariant.
LEMMA ReadKeyStep == ASSUME IInv, NEW c \in Call, ReadKey(c) PROVE IInv'
<1> USE DEF IInv
<1>1. TypeOK'
  BY DEF TypeOK, ReadKey, GoTo, Running, cached, history, installed
<1>2. MutexInv'
  BY DEF TypeOK, MutexInv, ReadKey, GoTo, Refreshing
<1>3. SeenInv(c)' /\ FetchInv(c)'
  BY DEF TypeOK, ReadKey, GoTo, SeenInv, FetchInv, Listed, CacheExpired, cached, history
<1>4. UNCHANGED <<clock, cached, installed>>
  BY DEF ReadKey, history
<1>5. \A d \in Call \ {c} :
        /\ pc'[d] = pc[d] /\ kid'[d] = kid[d] /\ result'[d] = result[d]
        /\ sawListed'[d] = sawListed[d] /\ raced'[d] = raced[d]
  BY DEF TypeOK, ReadKey, GoTo, history
<1> QED BY <1>1, <1>2, <1>3, <1>4, <1>5, LocalStep

\* A key that was found when the call looked, and a cache that has not expired
\* when it looks again: the key was listed, or another refresh came between.
LEMMA CheckExpiryStep == ASSUME IInv, NEW c \in Call, CheckExpiry(c) PROVE IInv'
<1> USE DEF IInv
<1>1. TypeOK'
  BY DEF TypeOK, CheckExpiry, GoTo, Running, cached, history, installed
<1>2. MutexInv'
  BY DEF TypeOK, MutexInv, CheckExpiry, GoTo, Refreshing
<1>3. SeenInv(c)' /\ FetchInv(c)'
  <2>1. ~CacheExpired => sawListed[c] \/ raced[c]
    BY DEF CheckExpiry, SeenInv, Listed
  <2> QED
    BY <2>1
    DEF TypeOK, CheckExpiry, GoTo, SeenInv, FetchInv, Listed, CacheExpired, cached, history
<1>4. UNCHANGED <<clock, cached, installed>>
  BY DEF CheckExpiry, history
<1>5. \A d \in Call \ {c} :
        /\ pc'[d] = pc[d] /\ kid'[d] = kid[d] /\ result'[d] = result[d]
        /\ sawListed'[d] = sawListed[d] /\ raced'[d] = raced[d]
  BY DEF TypeOK, CheckExpiry, GoTo, history
<1> QED BY <1>1, <1>2, <1>3, <1>4, <1>5, LocalStep

\* Lock keeps the invariant.
LEMMA LockStep == ASSUME IInv, NEW c \in Call, Lock(c) PROVE IInv'
<1> USE DEF IInv
<1>1. TypeOK'
  BY DEF TypeOK, Lock, GoTo, Running, Refreshing, cached, history, installed
<1>2. MutexInv'
  BY NoneIsNoCall DEF TypeOK, MutexInv, Lock, GoTo, Refreshing
<1>3. SeenInv(c)' /\ FetchInv(c)'
  BY DEF TypeOK, Lock, GoTo, SeenInv, FetchInv, Listed, CacheExpired, cached, history
<1>4. UNCHANGED <<clock, cached, installed>>
  BY DEF Lock, history
<1>5. \A d \in Call \ {c} :
        /\ pc'[d] = pc[d] /\ kid'[d] = kid[d] /\ result'[d] = result[d]
        /\ sawListed'[d] = sawListed[d] /\ raced'[d] = raced[d]
  BY DEF TypeOK, Lock, GoTo, history
<1> QED BY <1>1, <1>2, <1>3, <1>4, <1>5, LocalStep

\* Recheck keeps the invariant.
LEMMA RecheckStep == ASSUME IInv, NEW c \in Call, Recheck(c) PROVE IInv'
<1> USE DEF IInv
<1>1. TypeOK'
  BY DEF TypeOK, Recheck, GoTo, Running, Refreshing, cached, history, installed
<1>2. MutexInv'
  BY NoneIsNoCall DEF TypeOK, MutexInv, Recheck, GoTo, Refreshing
<1>3. SeenInv(c)' /\ FetchInv(c)'
  BY DEF TypeOK, Recheck, GoTo, SeenInv, FetchInv, Listed, CacheExpired, cached, history
<1>4. UNCHANGED <<clock, cached, installed>>
  BY DEF Recheck, history
<1>5. \A d \in Call \ {c} :
        /\ pc'[d] = pc[d] /\ kid'[d] = kid[d] /\ result'[d] = result[d]
        /\ sawListed'[d] = sawListed[d] /\ raced'[d] = raced[d]
  BY DEF TypeOK, Recheck, GoTo, history
<1> QED BY <1>1, <1>2, <1>3, <1>4, <1>5, LocalStep

\* Fetch keeps the invariant.
LEMMA FetchStep == ASSUME IInv, NEW c \in Call, Fetch(c) PROVE IInv'
<1> USE DEF IInv
<1>1. TypeOK'
  BY DEF TypeOK, Fetch, GoTo, Running, Refreshing, cached, history, installed
<1>2. MutexInv'
  BY DEF TypeOK, MutexInv, Fetch, GoTo, Refreshing
<1>3. SeenInv(c)' /\ FetchInv(c)'
  BY DEF TypeOK, Fetch, GoTo, SeenInv, FetchInv, Listed, CacheExpired, cached, history
<1>4. UNCHANGED <<clock, cached, installed>>
  BY DEF Fetch, history
<1>5. \A d \in Call \ {c} :
        /\ pc'[d] = pc[d] /\ kid'[d] = kid[d] /\ result'[d] = result[d]
        /\ sawListed'[d] = sawListed[d] /\ raced'[d] = raced[d]
  BY DEF TypeOK, Fetch, GoTo, history
<1> QED BY <1>1, <1>2, <1>3, <1>4, <1>5, LocalStep

\* FetchFails keeps the invariant.
LEMMA FetchFailsStep == ASSUME IInv, NEW c \in Call, FetchFails(c) PROVE IInv'
<1> USE DEF IInv
<1>1. TypeOK'
  BY DEF TypeOK, FetchFails, Return, GoTo, Running, Result, cached, history, installed
<1>2. MutexInv'
  BY NoneIsNoCall DEF TypeOK, MutexInv, FetchFails, Return, GoTo, Refreshing
<1>3. SeenInv(c)' /\ FetchInv(c)'
  BY DEF TypeOK, FetchFails, Return, GoTo, SeenInv, FetchInv, Listed, CacheExpired,
         cached, history
<1>4. UNCHANGED <<clock, cached, installed>>
  BY DEF FetchFails, history
<1>5. \A d \in Call \ {c} :
        /\ pc'[d] = pc[d] /\ kid'[d] = kid[d] /\ result'[d] = result[d]
        /\ sawListed'[d] = sawListed[d] /\ raced'[d] = raced[d]
  BY DEF TypeOK, FetchFails, Return, GoTo, history
<1> QED BY <1>1, <1>2, <1>3, <1>4, <1>5, LocalStep

\* Installing changes what every call may have seen; no other call is fetching.
LEMMA InstallStep == ASSUME IInv, NEW c \in Call, Install(c) PROVE IInv'
<1> USE DEF IInv
<1>1. TypeOK'
  BY VerifierAssumption DEF TypeOK, Install, RecordInstall, GoTo, Running
<1>2. MutexInv'
  BY NoneIsNoCall DEF TypeOK, MutexInv, Install, GoTo, Refreshing
<1>3. CacheInv'
  BY DEF CacheInv, Install, RecordInstall
<1>4. ASSUME NEW d \in Call PROVE SeenInv(d)' /\ FetchInv(d)'
  <2>1. /\ keys' = document[c] /\ kid'[d] = kid[d] /\ result'[d] = result[d]
        /\ sawListed'[d] = (sawListed[d] \/ kid[d] \in document[c])
        /\ raced'[d] = (raced[d] \/ (d # c /\ pc[d] = "expiry"))
    BY DEF TypeOK, Install, RecordInstall
  <2>2. CASE d = c
    <3>1. pc'[d] = "reread"
      BY <2>2 DEF TypeOK, Install, GoTo
    <3> QED BY <2>1, <3>1 DEF SeenInv, FetchInv, Listed
  <2>3. CASE d # c
    <3>1. pc'[d] = pc[d]
      BY <2>3 DEF TypeOK, Install, GoTo
    <3>2. pc[d] # "fetch"
      BY <2>3 DEF MutexInv, Install, Refreshing
    <3> QED BY <2>1, <2>3, <3>1, <3>2 DEF SeenInv, FetchInv, Listed
  <2> QED BY <2>2, <2>3
<1> QED BY <1>1, <1>2, <1>3, <1>4

\* Reread keeps the invariant.
LEMMA RereadStep == ASSUME IInv, NEW c \in Call, Reread(c) PROVE IInv'
<1> USE DEF IInv
<1>1. TypeOK'
  BY DEF TypeOK, Reread, Return, GoTo, Running, Result, cached, history, installed
<1>2. MutexInv'
  BY DEF TypeOK, MutexInv, Reread, Return, GoTo, Refreshing
<1>3. SeenInv(c)' /\ FetchInv(c)'
  BY DEF TypeOK, Reread, Return, GoTo, SeenInv, FetchInv, Listed, CacheExpired,
         cached, history
<1>4. UNCHANGED <<clock, cached, installed>>
  BY DEF Reread, history
<1>5. \A d \in Call \ {c} :
        /\ pc'[d] = pc[d] /\ kid'[d] = kid[d] /\ result'[d] = result[d]
        /\ sawListed'[d] = sawListed[d] /\ raced'[d] = raced[d]
  BY DEF TypeOK, Reread, Return, GoTo, history
<1> QED BY <1>1, <1>2, <1>3, <1>4, <1>5, LocalStep

\* CheckClaims keeps the invariant.
LEMMA CheckClaimsStep == ASSUME IInv, NEW c \in Call, CheckClaims(c) PROVE IInv'
<1> USE DEF IInv
<1>1. TypeOK'
  BY DEF TypeOK, CheckClaims, Return, GoTo, Running, Result, cached, history, installed
<1>2. MutexInv'
  BY DEF TypeOK, MutexInv, CheckClaims, Return, GoTo, Refreshing
<1>3. SeenInv(c)' /\ FetchInv(c)'
  BY DEF TypeOK, CheckClaims, Return, GoTo, SeenInv, FetchInv, cached, history
<1>4. UNCHANGED <<clock, cached, installed>>
  BY DEF CheckClaims, history
<1>5. \A d \in Call \ {c} :
        /\ pc'[d] = pc[d] /\ kid'[d] = kid[d] /\ result'[d] = result[d]
        /\ sawListed'[d] = sawListed[d] /\ raced'[d] = raced[d]
  BY DEF TypeOK, CheckClaims, Return, GoTo, history
<1> QED BY <1>1, <1>2, <1>3, <1>4, <1>5, LocalStep

\* Time and the issuer touch no call; time lists no key anew.
LEMMA EnvironmentStep == ASSUME IInv, Rotate \/ Tick PROVE IInv'
<1> USE DEF IInv
<1>1. TypeOK'
  BY DEF TypeOK, Rotate, Tick, cached, history, installed
<1>2. MutexInv' /\ CacheInv'
  BY DEF MutexInv, CacheInv, Rotate, Tick, cached, history, installed
<1>3. ASSUME NEW c \in Call PROVE SeenInv(c)' /\ FetchInv(c)'
  <2>1. /\ clock \in Nat /\ expiresAt \in Nat /\ clock' \in Nat /\ clock' >= clock
    BY DEF TypeOK, Rotate, Tick
  <2>2. UNCHANGED <<cached, pc, kid, result, history>>
    BY DEF Rotate, Tick
  <2> QED BY <2>1, <2>2, OtherCall DEF cached, history
<1> QED BY <1>1, <1>2, <1>3

\* A stutter keeps it.
LEMMA StutterStep == ASSUME IInv, UNCHANGED vars PROVE IInv'
BY DEF IInv, TypeOK, MutexInv, CacheInv, SeenInv, FetchInv, Listed, CacheExpired,
       vars, cached, history, installed

\* Every step keeps it.
LEMMA Inductive == IInv /\ [Next]_vars => IInv'
<1> SUFFICES ASSUME IInv, [Next]_vars PROVE IInv'
  OBVIOUS
<1>1. CASE Rotate \/ Tick
  BY <1>1, EnvironmentStep
<1>2. ASSUME NEW c \in Call, NEW k \in KeyId, Begin(c, k) PROVE IInv'
  BY <1>2, BeginStep
<1>3. ASSUME NEW c \in Call, Step(c) PROVE IInv'
  BY <1>3, ReadKeyStep, CheckExpiryStep, LockStep, RecheckStep, FetchStep, FetchFailsStep,
     InstallStep, RereadStep, CheckClaimsStep DEF Step
<1>4. CASE UNCHANGED vars
  BY <1>4, StutterStep
<1> QED BY <1>1, <1>2, <1>3, <1>4 DEF Next

\* It always holds.
LEMMA Invariance == Spec => []IInv
BY InitIInv, Inductive, PTL DEF Spec

----------------------------------------------------------------------------
\* The variables keep their types: every installed window ends in the future of
\* a clock that starts at zero, and one call at a time holds the mutex.
THEOREM TypeCorrect == Spec => []TypeOK
<1>1. IInv => TypeOK
  BY DEF IInv
<1> QED BY <1>1, Invariance, PTL

\* A key that no fresh document listed during the call verifies a token only when
\* another call's refresh fell between the two critical sections of Verify.
THEOREM UnlistedKeysNeedARace == Spec => []UnlistedKeyOnlyBesideRefresh
<1>1. IInv => UnlistedKeyOnlyBesideRefresh
  BY DEF IInv, SeenInv, UnlistedKeyOnlyBesideRefresh
<1> QED BY <1>1, Invariance, PTL

\* A refresh fetches only a key the cache does not list, however many calls were
\* waiting for the mutex.
THEOREM NoRepeatedFetch == Spec => []FetchesOnlyWhenStale
<1>1. IInv => FetchesOnlyWhenStale
  BY DEF IInv, FetchInv, FetchesOnlyWhenStale
<1> QED BY <1>1, Invariance, PTL

=============================================================================
