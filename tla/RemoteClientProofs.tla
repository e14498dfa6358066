------------------------- MODULE RemoteClientProofs -------------------------
(***************************************************************************)
(* The safety of retries and of the circuit breaker for every number of    *)
(* calls, every retry policy, every threshold and every open duration.     *)
(*                                                                         *)
(* Two inductive invariants.  BreakerInv ties the breaker's fields to the  *)
(* history of what calls reported and when a probe last left; CallsInv     *)
(* bounds how often the service can have carried out each call's request   *)
(* by where the call stands.                                               *)
(***************************************************************************)
EXTENDS RemoteClient, TLAPS

\* The circuit is closed below the threshold and open at it; a probe runs only
\* once the cooldown is over; until then the time since the last probe and the
\* time left add up to a whole cooldown.
BreakerInv ==
  /\ cooldown = None => failures < FailureThreshold /\ streak = failures
  /\ cooldown # None => failures = FailureThreshold /\ streak = FailureThreshold
  /\ probeActive => cooldown = 0
  /\ cooldown # None /\ ~probeActive => cooldown + sinceProbe >= OpenDuration

CallInv(c) ==
  /\ pc[c] = "idle" => attempt[c] = 1
  /\ kind[c] # "replayable" => attempt[c] = 1 /\ executed[c] <= 1
  /\ pc[c] # "idle" => executed[c] <= attempt[c] /\ result[c] = None
  /\ pc[c] = "allow" => executed[c] < attempt[c]
  /\ pc[c] = "wait" => kind[c] = "replayable" /\ attempt[c] < MaxAttempts
  /\ kind[c] # "replayable" /\ result[c] = "circuit_open" => executed[c] = 0

IInv ==
  /\ TypeOK
  /\ BreakerInv
  /\ \A c \in Call : CallInv(c)

\* What of TypeOK concerns the breaker and its history, and each call.
BreakerTyped ==
  /\ failures \in 0..FailureThreshold
  /\ cooldown \in 0..OpenDuration \union {None}
  /\ probeActive \in BOOLEAN
  /\ sinceProbe \in 0..OpenDuration
  /\ streak \in 0..FailureThreshold

CallsTyped ==
  /\ pc \in [Call -> {"idle", "allow", "wait"} \union InFlight]
  /\ kind \in [Call -> Kind]
  /\ attempt \in [Call -> 1..MaxAttempts]
  /\ ended \in [Call -> BOOLEAN]
  /\ outcome \in [Call -> Outcome \union {None}]
  /\ result \in [Call -> Result \union {None}]
  /\ executed \in [Call -> 0..MaxAttempts]
  /\ probing \subseteq Call
  /\ lost \in BOOLEAN

\* The type invariant in its parts.
LEMMA TypeParts == TypeOK <=> BreakerTyped /\ CallsTyped
BY DEF TypeOK, BreakerTyped, CallsTyped

\* None is unlike every value it stands beside.
LEMMA NoneIsNoNumber == \A n \in Nat : n # None
BY NoneAssumption

\* A call without a result has none.
LEMMA NoneIsNoResult == \A r \in Result : r # None
BY NoneAssumption

\* The invariant holds at first.
LEMMA InitIInv == Init => IInv
<1> SUFFICES ASSUME Init PROVE IInv
  OBVIOUS
<1>1. TypeOK
  <2>1. 0 \in 0..FailureThreshold /\ 0 \in 0..OpenDuration /\ OpenDuration \in 0..OpenDuration
        /\ 1 \in 1..MaxAttempts /\ 0 \in 0..MaxAttempts
    BY PolicyAssumption
  <2>2. BreakerTyped
    BY <2>1 DEF Init, BreakerTyped
  <2>3. CallsTyped
    BY <2>1 DEF Init, CallsTyped, Kind
  <2> QED BY <2>2, <2>3, TypeParts
<1>2. BreakerInv
  BY PolicyAssumption DEF Init, BreakerInv
<1>3. ASSUME NEW c \in Call PROVE CallInv(c)
  BY NoneIsNoResult DEF Init, CallInv, Result
<1> QED BY <1>1, <1>2, <1>3 DEF IInv

----------------------------------------------------------------------------
(* The breaker.                                                            *)

BreakerState == <<breaker, sinceProbe, streak>>

\* The breaker and its history, stated together.
BreakerOK == BreakerTyped /\ BreakerInv

\* The breaker's part holds where the breaker is left alone.
LEMMA BreakerUnchanged ==
  ASSUME BreakerOK, UNCHANGED BreakerState PROVE BreakerOK'
BY DEF BreakerOK, BreakerTyped, BreakerInv, BreakerState, breaker

\* It holds as time passes.
LEMMA BreakerTick == ASSUME BreakerOK, Tick PROVE BreakerOK'
<1> USE DEF BreakerOK, BreakerTyped, BreakerInv, Tick
<1>1. CASE cooldown = None
  BY <1>1, PolicyAssumption
<1>2. CASE cooldown # None
  <2>1. cooldown \in 0..OpenDuration
    BY <1>2
  <2>2. cooldown' = IF cooldown = 0 THEN 0 ELSE cooldown - 1
    BY <1>2, <2>1
  <2>3. cooldown' \in 0..OpenDuration /\ cooldown' # None
    BY <2>1, <2>2, PolicyAssumption, NoneIsNoNumber
  <2>4. sinceProbe' \in 0..OpenDuration /\ sinceProbe' >= sinceProbe
    BY PolicyAssumption
  <2>5. ~probeActive => cooldown' + sinceProbe' >= OpenDuration
    BY <1>2, <2>1, <2>2, PolicyAssumption
  <2> QED
    BY <1>2, <2>1, <2>2, <2>3, <2>4, <2>5
<1> QED BY <1>1, <1>2

\* It holds at an admission.
LEMMA BreakerAllow == ASSUME BreakerOK, NEW c \in Call, Allow(c) PROVE BreakerOK'
<1>1. CASE AllowsTraffic /\ UNCHANGED <<probeActive, probing, sinceProbe>>
  BY <1>1, BreakerUnchanged DEF Allow, BreakerState, breaker
<1>2. CASE AllowsProbe /\ probeActive' = TRUE /\ sinceProbe' = 0
  BY <1>2, PolicyAssumption, NoneIsNoNumber
     DEF Allow, AllowsProbe, BreakerOK, BreakerTyped, BreakerInv
<1> QED BY <1>1, <1>2 DEF Allow

\* It holds at a report.
LEMMA BreakerObserve ==
  ASSUME BreakerOK, NEW c \in Call, NEW failed \in BOOLEAN, Observe(c, failed),
         UNCHANGED sinceProbe
  PROVE  BreakerOK' /\ ~probeActive'
<1>1. CASE ~failed
  <2>1. /\ failures' = 0 /\ cooldown' = None /\ ~probeActive' /\ streak' = 0
        /\ probeActive' \in BOOLEAN
    BY <1>1 DEF Observe, ObserveSuccess
  <2>2. BreakerTyped'
    BY <2>1, PolicyAssumption DEF BreakerOK, BreakerTyped
  <2>3. BreakerInv'
    BY <2>1, PolicyAssumption DEF BreakerInv
  <2> QED BY <2>1, <2>2, <2>3 DEF BreakerOK
<1>2. CASE failed
  <2>1. streak' = IF streak < FailureThreshold THEN streak + 1 ELSE streak
    BY <1>2 DEF Observe
  <2> DEFINE Opens ==
               /\ probeActive \/ failures + 1 >= FailureThreshold
               /\ failures' = FailureThreshold
               /\ cooldown' = OpenDuration
               /\ probeActive' = FALSE
             Counts ==
               /\ ~probeActive /\ failures + 1 < FailureThreshold
               /\ failures' = failures + 1
               /\ UNCHANGED <<cooldown, probeActive>>
  <2>0. Opens \/ Counts
    BY <1>2, Zenon DEF Observe, ObserveFailure
  <2>2. CASE Opens
    <3>1. /\ failures' = FailureThreshold
          /\ cooldown' = OpenDuration
          /\ ~probeActive' /\ probeActive' \in BOOLEAN
      BY <2>2, Zenon
    <3>2. streak' = FailureThreshold
      BY <2>1, <2>2, PolicyAssumption, NoneIsNoNumber
         DEF BreakerOK, BreakerTyped, BreakerInv
    <3>3. BreakerTyped'
      BY <3>1, <3>2, PolicyAssumption DEF BreakerOK, BreakerTyped
    <3>4. BreakerInv'
      BY <3>1, <3>2, PolicyAssumption, NoneIsNoNumber
         DEF BreakerOK, BreakerTyped, BreakerInv
    <3> QED BY <3>1, <3>3, <3>4 DEF BreakerOK
  <2>3. CASE Counts
    <3>1. /\ failures' = failures + 1 /\ cooldown' = cooldown
          /\ ~probeActive' /\ probeActive' \in BOOLEAN
      BY <2>3 DEF BreakerOK, BreakerTyped
    <3>2. cooldown = None /\ streak' = failures + 1
      BY <2>1, <2>3, PolicyAssumption DEF BreakerOK, BreakerTyped, BreakerInv
    <3>3. BreakerTyped'
      BY <2>3, <3>1, <3>2, PolicyAssumption DEF BreakerOK, BreakerTyped
    <3>4. BreakerInv'
      BY <2>3, <3>1, <3>2, PolicyAssumption DEF BreakerOK, BreakerTyped, BreakerInv
    <3> QED BY <3>1, <3>3, <3>4 DEF BreakerOK
  <2> QED BY <2>0, <2>2, <2>3
<1> QED BY <1>1, <1>2

\* A report is a success or a failure.
LEMMA FailureIsBoolean ==
  ASSUME NEW k, NEW o PROVE AvailabilityFailure(k, o) \in BOOLEAN
BY DEF AvailabilityFailure

\* Every step keeps the breaker's part of the invariant.
LEMMA BreakerInductive == ASSUME BreakerOK, [Next]_vars PROVE BreakerOK'
<1>1. CASE Tick
  BY <1>1, BreakerTick
<1>2. ASSUME NEW c \in Call, Allow(c) PROVE BreakerOK'
  BY <1>2, BreakerAllow
<1>3. ASSUME NEW c \in Call, Settle(c) PROVE BreakerOK'
  BY <1>3, BreakerObserve, FailureIsBoolean DEF Settle
<1>4. ASSUME UNCHANGED BreakerState PROVE BreakerOK'
  BY <1>4, BreakerUnchanged
<1>5. ASSUME NEW c \in Call,
             \/ Refuse(c) \/ Abandon(c) \/ TimerFires(c) \/ WaitEnds(c)
             \/ \E o \in Outcomes : Answer(c, o)
             \/ Execute(c) \/ Expire(c) \/ \E k \in Kind : Begin(c, k)
      PROVE  UNCHANGED BreakerState
  BY <1>5 DEF Refuse, Abandon, TimerFires, WaitEnds, Answer, Execute, Expire, Begin,
              BreakerState, breaker, history
<1>6. CASE UNCHANGED vars
  BY <1>6, <1>4 DEF vars, history, BreakerState
<1> QED
  BY <1>1, <1>2, <1>3, <1>4, <1>5, <1>6 DEF Next, Step

----------------------------------------------------------------------------
(* The calls.                                                              *)

CallsOK == CallsTyped /\ \A c \in Call : CallInv(c)

\* Return keeps the calls' part.
LEMMA ReturnKeeps ==
  ASSUME CallsOK, NEW c \in Call, NEW r \in Result, Return(c, r), pc[c] # "idle",
         r = "circuit_open" => pc[c] = "allow",
         UNCHANGED <<kind, executed>>, probing' \subseteq Call, lost' \in BOOLEAN
  PROVE  CallsOK'
<1>1. CallsTyped'
  BY PolicyAssumption DEF CallsOK, CallsTyped, Return, GoTo
<1>2. ASSUME NEW d \in Call PROVE CallInv(d)'
  <2>1. CASE d = c
    <3>1. /\ pc'[c] = "idle" /\ attempt'[c] = 1 /\ result'[c] = r
          /\ kind'[c] = kind[c] /\ executed'[c] = executed[c]
      BY DEF CallsOK, CallsTyped, Return, GoTo
    <3>2. kind[c] # "replayable" /\ r = "circuit_open" => executed[c] = 0
      BY PolicyAssumption DEF CallsOK, CallsTyped, CallInv
    <3> QED BY <2>1, <3>1, <3>2 DEF CallsOK, CallInv
  <2>2. CASE d # c
    BY <2>2 DEF CallsOK, CallsTyped, CallInv, Return, GoTo
  <2> QED BY <2>1, <2>2
<1> QED BY <1>1, <1>2 DEF CallsOK

\* Begin keeps the calls' part.
LEMMA BeginKeeps ==
  ASSUME CallsOK, NEW c \in Call, NEW k \in Kind, Begin(c, k)
  PROVE  CallsOK'
<1>1. CallsTyped'
  BY PolicyAssumption DEF CallsOK, CallsTyped, Begin, GoTo
<1>2. attempt[c] = 1
  BY DEF CallsOK, CallInv, Begin
<1>3. ASSUME NEW d \in Call PROVE CallInv(d)'
  BY <1>2, NoneIsNoResult DEF CallsOK, CallsTyped, CallInv, Begin, GoTo, Result
<1> QED BY <1>1, <1>3 DEF CallsOK

\* Allow keeps the calls' part.
LEMMA AllowKeeps ==
  ASSUME CallsOK, NEW c \in Call, Allow(c)
  PROVE  CallsOK'
<1>1. CallsTyped'
  BY DEF CallsOK, CallsTyped, Allow, GoTo, InFlight
<1>2. ASSUME NEW d \in Call PROVE CallInv(d)'
  BY DEF CallsOK, CallsTyped, CallInv, Allow, GoTo
<1> QED BY <1>1, <1>2 DEF CallsOK

\* Expire keeps the calls' part.
LEMMA ExpireKeeps ==
  ASSUME CallsOK, NEW c \in Call, Expire(c)
  PROVE  CallsOK'
BY DEF CallsOK, CallsTyped, CallInv, Expire, history

\* Execute keeps the calls' part.
LEMMA ExecuteKeeps ==
  ASSUME CallsOK, NEW c \in Call, Execute(c)
  PROVE  CallsOK'
<1>1. CallsTyped'
  <2>1. executed[c] + 1 \in 0..MaxAttempts
    BY PolicyAssumption DEF CallsOK, CallsTyped, Execute
  <2> QED
    BY <2>1 DEF CallsOK, CallsTyped, Execute, locals
<1>2. ASSUME NEW d \in Call PROVE CallInv(d)'
  <2>1. CASE d = c
    <3>1. executed'[c] = executed[c] + 1 /\ executed[c] < attempt[c] /\ pc[c] = "inflight"
      BY DEF CallsOK, CallsTyped, Execute
    <3>2. executed[c] \in Nat /\ attempt[c] \in Nat /\ result[c] = None
      BY <3>1, PolicyAssumption DEF CallsOK, CallsTyped, CallInv
    <3> QED
      BY <2>1, <3>1, <3>2, NoneIsNoResult DEF CallsOK, CallInv, Execute, locals, Result
  <2>2. CASE d # c
    BY <2>2 DEF CallsOK, CallsTyped, CallInv, Execute, locals
  <2> QED BY <2>1, <2>2
<1> QED BY <1>1, <1>2 DEF CallsOK

\* Answer keeps the calls' part.
LEMMA AnswerKeeps ==
  ASSUME CallsOK, NEW c \in Call, NEW o \in Outcomes, Answer(c, o)
  PROVE  CallsOK'
<1>1. CallsTyped'
  <2>1. o \in Outcome
    BY OutcomesAssumption
  <2> QED
    BY <2>1 DEF CallsOK, CallsTyped, Answer, GoTo, InFlight, history
<1>2. ASSUME NEW d \in Call PROVE CallInv(d)'
  BY DEF CallsOK, CallsTyped, CallInv, Answer, GoTo, history
<1> QED BY <1>1, <1>2 DEF CallsOK

\* Settle keeps the calls' part.
LEMMA SettleKeeps ==
  ASSUME CallsOK, NEW c \in Call, Settle(c)
  PROVE  CallsOK'
<1>1. probing' \subseteq Call /\ lost' \in BOOLEAN
  BY DEF CallsOK, CallsTyped, Settle, Observe
<1>2. CASE /\ attempt[c] < AttemptsOf(kind[c])
           /\ GoTo(c, "wait")
           /\ outcome' = [outcome EXCEPT ![c] = None]
           /\ UNCHANGED <<attempt, ended, result>>
  <2>1. CallsTyped'
    BY <1>1, <1>2 DEF CallsOK, CallsTyped, Settle, GoTo
  <2>2. kind[c] = "replayable" /\ attempt[c] < MaxAttempts
    <3>1. attempt[c] \in Nat /\ attempt[c] >= 1
      BY PolicyAssumption DEF CallsOK, CallsTyped
    <3> QED BY <1>2, <3>1 DEF AttemptsOf
  <2>3. ASSUME NEW d \in Call PROVE CallInv(d)'
    BY <1>2, <2>2 DEF CallsOK, CallsTyped, CallInv, Settle, GoTo
  <2> QED BY <2>1, <2>3 DEF CallsOK
<1>3. CASE \E r \in {"answer", "unavailable"} : Return(c, r)
  BY <1>1, <1>3, ReturnKeeps DEF Settle, Result
<1> QED BY <1>2, <1>3 DEF Settle

\* TimerFires keeps the calls' part.
LEMMA TimerFiresKeeps ==
  ASSUME CallsOK, NEW c \in Call, TimerFires(c)
  PROVE  CallsOK'
<1>1. /\ attempt[c] \in 1..MaxAttempts /\ attempt[c] < MaxAttempts
      /\ kind[c] = "replayable" /\ executed[c] <= attempt[c]
      /\ executed[c] \in Nat /\ result[c] = None
  BY DEF CallsOK, CallsTyped, CallInv, TimerFires
<1>2. attempt[c] + 1 \in 1..MaxAttempts /\ executed[c] < attempt[c] + 1
  BY <1>1, PolicyAssumption
<1>3. CallsTyped'
  BY <1>2 DEF CallsOK, CallsTyped, TimerFires, GoTo, history
<1>4. ASSUME NEW d \in Call PROVE CallInv(d)'
  <2>1. CASE d = c
    <3>1. /\ attempt'[c] = attempt[c] + 1 /\ pc'[c] = "allow"
          /\ UNCHANGED <<kind, executed, result>>
      BY DEF CallsOK, CallsTyped, TimerFires, GoTo, history
    <3>2. executed[c] <= attempt[c] + 1
      BY <1>1
    <3> QED BY <1>1, <1>2, <2>1, <3>1, <3>2 DEF CallInv
  <2>2. CASE d # c
    BY <2>2 DEF CallsOK, CallsTyped, CallInv, TimerFires, GoTo, history
  <2> QED BY <2>1, <2>2
<1> QED BY <1>3, <1>4 DEF CallsOK

\* Every step keeps the calls' part.
LEMMA CallsInductive == ASSUME CallsOK, [Next]_vars PROVE CallsOK'
<1>1. ASSUME Tick \/ UNCHANGED vars PROVE CallsOK'
  BY <1>1 DEF Tick, CallsOK, CallsTyped, CallInv, vars, locals, history
<1>2. ASSUME NEW c \in Call, Refuse(c) PROVE CallsOK'
  <2>1. probing' \subseteq Call /\ lost' \in BOOLEAN
    BY <1>2 DEF Refuse, history, CallsOK, CallsTyped
  <2> QED BY <1>2, <2>1, ReturnKeeps DEF Refuse, history, Result
<1>3. ASSUME NEW c \in Call, Abandon(c) PROVE CallsOK'
  <2>1. probing' \subseteq Call /\ lost' \in BOOLEAN
    BY <1>3 DEF Abandon, CallsOK, CallsTyped
  <2> QED BY <1>3, <2>1, ReturnKeeps DEF Abandon, Result
<1>4. ASSUME NEW c \in Call, WaitEnds(c) PROVE CallsOK'
  <2>1. probing' \subseteq Call /\ lost' \in BOOLEAN
    BY <1>4 DEF WaitEnds, history, CallsOK, CallsTyped
  <2> QED BY <1>4, <2>1, ReturnKeeps DEF WaitEnds, history, Result
<1> QED
  BY <1>1, <1>2, <1>3, <1>4, BeginKeeps, AllowKeeps, ExpireKeeps, ExecuteKeeps,
     AnswerKeeps, SettleKeeps, TimerFiresKeeps DEF Next, Step

----------------------------------------------------------------------------
(* What a client may rely on.                                              *)

\* The parts of the invariant.
LEMMA Parts == IInv <=> BreakerOK /\ CallsOK
BY TypeParts DEF IInv, BreakerOK, CallsOK

\* Every step keeps the invariant.
LEMMA Inductive == IInv /\ [Next]_vars => IInv'
<1> SUFFICES ASSUME IInv, [Next]_vars PROVE IInv'
  OBVIOUS
<1>1. BreakerOK' /\ CallsOK'
  BY Parts, BreakerInductive, CallsInductive
<1> QED
  BY <1>1 DEF BreakerOK, CallsOK, IInv, TypeOK, BreakerTyped, CallsTyped

\* It always holds.
LEMMA AlwaysIInv == Spec => []IInv
BY InitIInv, Inductive, PTL DEF Spec

\* Every reachable state of the client and its breaker is well typed; attempts
\* stay within MaxAttempts and failures within FailureThreshold.
THEOREM TypeCorrect == Spec => []TypeOK
<1>1. IInv => TypeOK
  BY DEF IInv
<1> QED BY <1>1, AlwaysIInv, PTL

\* No request that is not replay-safe is carried out twice for one call, nor
\* carried out when the caller is told that the circuit was open.
THEOREM SafeReplay == Spec => []ReplayOnlySafeRequests
<1>1. ASSUME IInv PROVE ReplayOnlySafeRequests
  <2> SUFFICES ASSUME NEW c \in Call
               PROVE  /\ executed[c] <= MaxAttempts
                      /\ kind[c] # "replayable" =>
                           /\ executed[c] <= 1
                           /\ result[c] = "circuit_open" => executed[c] = 0
    BY DEF ReplayOnlySafeRequests
  <2>1. executed[c] <= MaxAttempts
    BY <1>1, PolicyAssumption DEF IInv, TypeOK
  <2> QED
    BY <1>1, <2>1 DEF IInv, CallInv
<1> QED BY <1>1, AlwaysIInv, PTL

\* The circuit is open only after FailureThreshold failures without a success
\* between them, in the order in which calls reported.
THEOREM OpeningJustified == Spec => []OpensOnlyOnStreak
<1>1. IInv => OpensOnlyOnStreak
  BY DEF IInv, BreakerInv, OpensOnlyOnStreak
<1> QED BY <1>1, AlwaysIInv, PTL

\* Recovery probes leave at least OpenDuration apart.
THEOREM ProbePacing == Spec => ProbesArePaced
<1>1. ASSUME IInv, [Next]_vars PROVE [probing' \ probing # {} => sinceProbe = OpenDuration]_vars
  <2>1. ASSUME NEW c \in Call, Allow(c), AllowsProbe PROVE sinceProbe = OpenDuration
    BY <2>1, <1>1, PolicyAssumption, NoneIsNoNumber
       DEF AllowsProbe, IInv, TypeOK, BreakerInv
  <2>2. ASSUME NEW c \in Call, Allow(c), ~AllowsProbe PROVE probing' = probing
    BY <2>2 DEF Allow
  <2>3. ASSUME NEW c \in Call, Settle(c) \/ Abandon(c) PROVE probing' \subseteq probing
    BY <2>3 DEF Settle, Observe, Abandon
  <2>4. ASSUME NEW c \in Call,
               \/ Refuse(c) \/ TimerFires(c) \/ WaitEnds(c)
               \/ \E o \in Outcomes : Answer(c, o)
               \/ Execute(c) \/ Expire(c) \/ \E k \in Kind : Begin(c, k)
        PROVE  probing' = probing
    BY <2>4 DEF Refuse, TimerFires, WaitEnds, Answer, Execute, Expire, Begin, history
  <2>5. CASE Tick
    BY <2>5 DEF Tick
  <2> QED
    BY <1>1, <2>1, <2>2, <2>3, <2>4, <2>5 DEF Next, Step
<1> QED BY <1>1, AlwaysIInv, PTL DEF Spec, ProbesArePaced

\* The breaker waits for a probe only while that probe runs, or after it left without
\* reporting.
THEOREM ProbeRuns == Spec => []ProbeIsRunning
<1>1. Init => ProbeIsRunning
  BY DEF Init, ProbeIsRunning
<1>2. ASSUME IInv, ProbeIsRunning, [Next]_vars PROVE ProbeIsRunning'
  <2>1. ASSUME NEW c \in Call, Allow(c) PROVE ProbeIsRunning'
    <3>1. CASE probeActive' = TRUE /\ probing' = probing \union {c}
      <4>1. pc'[c] = "inflight"
        BY <1>2, <2>1 DEF IInv, TypeOK, Allow, GoTo
      <4> QED BY <3>1, <4>1 DEF ProbeIsRunning, InFlight
    <3>2. CASE UNCHANGED <<probeActive, probing>>
      <4>1. /\ pc[c] = "allow" /\ pc' = [pc EXCEPT ![c] = "inflight"] /\ lost' = lost
            /\ pc \in [Call -> {"idle", "allow", "wait"} \union InFlight]
        BY <1>2, <2>1 DEF IInv, TypeOK, Allow, GoTo
      <4> QED BY <1>2, <3>2, <4>1 DEF ProbeIsRunning, InFlight, IInv, TypeOK
    <3> QED BY <2>1, <3>1, <3>2 DEF Allow
  <2>2. ASSUME NEW c \in Call, Settle(c) PROVE ProbeIsRunning'
    <3>1. ~probeActive'
      BY <1>2, <2>2, Parts, BreakerObserve, FailureIsBoolean DEF Settle
    <3> QED BY <3>1 DEF ProbeIsRunning
  <2>3. ASSUME NEW c \in Call, NEW o \in Outcomes, Answer(c, o) PROVE ProbeIsRunning'
    <3>1. /\ pc' = [pc EXCEPT ![c] = "observe"] /\ UNCHANGED <<probeActive, probing, lost>>
          /\ pc \in [Call -> {"idle", "allow", "wait"} \union InFlight]
      BY <1>2, <2>3 DEF IInv, TypeOK, Answer, GoTo, breaker, history
    <3> QED BY <1>2, <3>1 DEF ProbeIsRunning, InFlight, IInv, TypeOK
  <2>4. ASSUME NEW c \in Call, NEW phase \in {"idle", "allow"}, GoTo(c, phase),
               pc[c] \notin InFlight, UNCHANGED <<probeActive, probing, lost>>
        PROVE  ProbeIsRunning'
    BY <1>2, <2>4 DEF GoTo, ProbeIsRunning, IInv, TypeOK
  <2>5. ASSUME NEW c \in Call, \/ Refuse(c) \/ TimerFires(c) \/ WaitEnds(c)
                               \/ \E k \in Kind : Begin(c, k)
        PROVE  ProbeIsRunning'
    BY <2>5, <2>4 DEF Refuse, TimerFires, WaitEnds, Begin, Return, breaker, history, InFlight
  <2>6. ASSUME NEW c \in Call, Execute(c) \/ Expire(c) PROVE ProbeIsRunning'
    BY <1>2, <2>6 DEF Execute, Expire, locals, breaker, history, ProbeIsRunning
  <2>7. ASSUME Tick \/ UNCHANGED vars PROVE ProbeIsRunning'
    BY <1>2, <2>7 DEF Tick, vars, locals, breaker, history, ProbeIsRunning
  <2>8. ASSUME NEW c \in Call, Abandon(c) PROVE ProbeIsRunning'
    <3>1. /\ probing' = probing \ {c} /\ lost' = (lost \/ c \in probing)
          /\ pc' = [pc EXCEPT ![c] = "idle"] /\ probeActive' = probeActive
          /\ pc \in [Call -> {"idle", "allow", "wait"} \union InFlight]
      BY <1>2, <2>8 DEF Abandon, Return, GoTo, breaker, IInv, TypeOK
    <3>2. CASE c \in probing
      BY <3>1, <3>2 DEF ProbeIsRunning
    <3>3. CASE c \notin probing
      BY <1>2, <3>1, <3>3 DEF ProbeIsRunning, IInv, TypeOK
    <3> QED BY <3>2, <3>3
  <2> QED
    BY <1>2, <2>1, <2>2, <2>3, <2>5, <2>6, <2>7, <2>8 DEF Next, Step
<1> QED BY <1>1, <1>2, AlwaysIInv, PTL DEF Spec

=============================================================================
