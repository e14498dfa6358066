---------------------------- MODULE RemoteClient ----------------------------
(***************************************************************************)
(* The resilient transport in remote: bounded retries (client.go, retry.go)*)
(* around one availability circuit breaker (circuit_breaker.go) that every *)
(* call of a client shares, and the federated callback, which uses the     *)
(* breaker by a path of its own (federated_callback.go).                   *)
(*                                                                         *)
(* Calls run concurrently.  Allow and Observe are the breaker's critical   *)
(* sections; between a call's Allow and its Observe lies a network round   *)
(* trip, during which other calls may open, probe or close the circuit.    *)
(*                                                                         *)
(* Time is kept as what is left of it: cooldown is the time until          *)
(* openedUntil.  Waits and deadlines have no fixed length: a context may   *)
(* end at any moment.                                                      *)
(***************************************************************************)
EXTENDS Integers

CONSTANTS
  Call,              \* concurrent calls through one client
  MaxAttempts,       \* RetryPolicy.MaxAttempts, after normalizedConfig
  FailureThreshold,  \* CircuitBreakerPolicy.FailureThreshold, likewise
  OpenDuration,      \* CircuitBreakerPolicy.OpenDuration, in ticks
  Outcomes,          \* the ways attempts may end
  None               \* a zero time or an absent outcome

ASSUME PolicyAssumption ==
  /\ MaxAttempts \in Nat \ {0}
  /\ FailureThreshold \in Nat \ {0}
  /\ OpenDuration \in Nat \ {0}

\* Methods that are safe or carry an Idempotency-Key, and the two read-only
\* POST endpoints; every other call of doWithHeaders; completeFederatedLogin.
Kind == {"replayable", "once", "callback"}

\* How an attempt may end: a decoded answer (2xx, or 4xx but 429); 429; a 500; a
\* transport failure or 502, 503, 504; a body cut short; a body beyond the limit,
\* or the timeout of a host's own HTTP client; the context's end.
Outcome == {"answered", "throttled", "broken", "unavailable", "unread",
            "oversized", "cancelled"}

\* Results of a call: what the service answered, the breaker's refusal, or an
\* availability error.
Result == {"answer", "circuit_open", "unavailable"}

ASSUME OutcomesAssumption ==
  Outcomes \subseteq Outcome /\ "cancelled" \in Outcomes

ASSUME NoneAssumption == None \notin Nat \union Outcome \union Result

VARIABLES
  failures,     \* availabilityCircuitBreaker.failures
  cooldown,     \* time left until openedUntil; None when openedUntil is zero
  probeActive,  \* availabilityCircuitBreaker.probeActive
  pc,           \* where each call stands
  kind,         \* the kind of each call
  attempt,      \* its attempt number
  ended,        \* has its context ended
  outcome,      \* how its current attempt ended
  result,       \* its last result
  executed,     \* history: how often the service executed its request
  probing,      \* history: calls admitted as a recovery probe, still in flight
  lost,         \* history: has the last probe left without reporting
  sinceProbe,   \* history: time since the last probe, up to OpenDuration
  streak        \* history: failures observed since the last success, up to the
                \* threshold

breaker == <<failures, cooldown, probeActive>>
locals == <<pc, kind, attempt, ended, outcome, result>>
history == <<executed, probing, lost, sinceProbe, streak>>
vars == <<breaker, locals, history>>

InFlight == {"inflight", "observe"}

Init ==
  /\ failures = 0
  /\ cooldown = None
  /\ probeActive = FALSE
  /\ pc = [c \in Call |-> "idle"]
  /\ kind = [c \in Call |-> "once"]
  /\ attempt = [c \in Call |-> 1]
  /\ ended = [c \in Call |-> FALSE]
  /\ outcome = [c \in Call |-> None]
  /\ result = [c \in Call |-> None]
  /\ executed = [c \in Call |-> 0]
  /\ probing = {}
  /\ lost = FALSE
  /\ sinceProbe = OpenDuration
  /\ streak = 0

----------------------------------------------------------------------------
\* Mutant: every request is retried.
AttemptsAlike(k) == MaxAttempts

AttemptsOf(k) == IF k = "replayable" THEN MaxAttempts ELSE 1

\* What doWithHeaders and completeFederatedLogin report to the breaker: the
\* callback observes the status line, before it reads the body.
AvailabilityFailure(k, o) ==
  \/ o \in {"broken", "unavailable", "cancelled"}
  \/ k # "callback" /\ o \in {"unread", "oversized"}

Retryable(o) == o \in {"throttled", "unavailable", "unread"}

GoTo(c, phase) == pc' = [pc EXCEPT ![c] = phase]

Return(c, r) ==
  /\ GoTo(c, "idle")
  /\ result' = [result EXCEPT ![c] = r]
  /\ attempt' = [attempt EXCEPT ![c] = 1]
  /\ ended' = [ended EXCEPT ![c] = FALSE]
  /\ outcome' = [outcome EXCEPT ![c] = None]

Begin(c, k) ==
  /\ pc[c] = "idle"
  /\ GoTo(c, "allow")
  /\ kind' = [kind EXCEPT ![c] = k]
  /\ result' = [result EXCEPT ![c] = None]
  /\ executed' = [executed EXCEPT ![c] = 0]
  /\ UNCHANGED <<breaker, attempt, ended, outcome, probing, lost, sinceProbe, streak>>

\* The request's deadline passes or its caller cancels.
Expire(c) ==
  /\ pc[c] # "idle"
  /\ ~ended[c]
  /\ ended' = [ended EXCEPT ![c] = TRUE]
  /\ UNCHANGED <<breaker, pc, kind, attempt, outcome, result, history>>

----------------------------------------------------------------------------
(* The breaker.                                                            *)

AllowsTraffic == cooldown = None

AllowsProbe == cooldown = 0 /\ ~probeActive

Allow(c) ==
  /\ pc[c] = "allow"
  /\ \/ /\ AllowsTraffic
        /\ UNCHANGED <<probeActive, probing, sinceProbe>>
     \/ /\ AllowsProbe
        /\ probeActive' = TRUE
        /\ probing' = probing \union {c}
        /\ sinceProbe' = 0
  /\ GoTo(c, "inflight")
  /\ UNCHANGED <<failures, cooldown, kind, attempt, ended, outcome, result,
                 executed, lost, streak>>

Refuse(c) ==
  /\ pc[c] = "allow"
  /\ ~AllowsTraffic /\ ~AllowsProbe
  /\ Return(c, "circuit_open")
  /\ UNCHANGED <<breaker, kind, history>>

\* Mutant: a success closes the circuit but forgets to reset the failures.
ObserveSuccessKeepingCount ==
  /\ cooldown' = None
  /\ probeActive' = FALSE
  /\ UNCHANGED failures

ObserveSuccess ==
  /\ failures' = 0
  /\ cooldown' = None
  /\ probeActive' = FALSE

\* Mutant: opening the circuit counts the failure instead of saturating.
ObserveFailureCounting ==
  /\ failures' = failures + 1
  /\ \/ /\ probeActive \/ failures + 1 >= FailureThreshold
        /\ cooldown' = OpenDuration
        /\ probeActive' = FALSE
     \/ /\ ~probeActive /\ failures + 1 < FailureThreshold
        /\ UNCHANGED <<cooldown, probeActive>>

\* Mutant: a failure during a probe ends the probe but not the cooldown anew.
ObserveFailureWithoutCooldown ==
  /\ failures' = IF failures < FailureThreshold THEN failures + 1 ELSE failures
  /\ cooldown' = IF cooldown = None /\ failures + 1 >= FailureThreshold
                 THEN OpenDuration ELSE cooldown
  /\ probeActive' = FALSE

\* Mutant: reopening the circuit leaves the probe marked as running.
ObserveFailureKeepingProbe ==
  /\ failures' = IF failures < FailureThreshold THEN failures + 1 ELSE failures
  /\ cooldown' = IF probeActive \/ failures + 1 >= FailureThreshold
                 THEN OpenDuration ELSE cooldown
  /\ UNCHANGED probeActive

ObserveFailure ==
  \/ /\ probeActive \/ failures + 1 >= FailureThreshold
     /\ failures' = FailureThreshold
     /\ cooldown' = OpenDuration
     /\ probeActive' = FALSE
  \/ /\ ~probeActive /\ failures + 1 < FailureThreshold
     /\ failures' = failures + 1
     /\ UNCHANGED <<cooldown, probeActive>>

\* Observe, with what the history remembers of it.
Observe(c, failed) ==
  /\ IF failed THEN ObserveFailure ELSE ObserveSuccess
  /\ probing' = probing \ {c}
  /\ lost' = FALSE
  /\ streak' = IF ~failed THEN 0
               ELSE IF streak < FailureThreshold THEN streak + 1 ELSE streak

----------------------------------------------------------------------------
(* One attempt.                                                            *)

\* The call leaves after Allow without an Observe: the federated callback could
\* not build its request, or the host's ContextHeaders provider panicked.
Abandon(c) ==
  /\ pc[c] = "inflight" /\ executed[c] < attempt[c]
  /\ Return(c, "unavailable")
  /\ probing' = probing \ {c}
  /\ lost' = (lost \/ c \in probing)
  /\ UNCHANGED <<breaker, kind, executed, sinceProbe, streak>>

\* The service carries the request out, once for each attempt.
Execute(c) ==
  /\ pc[c] = "inflight"
  /\ executed[c] < attempt[c]
  /\ executed' = [executed EXCEPT ![c] = @ + 1]
  /\ UNCHANGED <<breaker, locals, probing, lost, sinceProbe, streak>>

\* execute returns, with or without the service having carried the request out.
Answer(c, o) ==
  /\ pc[c] = "inflight"
  /\ o = "cancelled" => ended[c]
  /\ outcome' = [outcome EXCEPT ![c] = o]
  /\ GoTo(c, "observe")
  /\ UNCHANGED <<breaker, kind, attempt, ended, result, history>>

\* The result is reported to the breaker; then the call retries or returns.  A
\* transport error is not retried once the context has ended.
Settle(c) ==
  LET o == outcome[c]
      again == /\ attempt[c] < AttemptsOf(kind[c])
               /\ Retryable(o)
               /\ ended[c] => o = "throttled"
  IN
  /\ pc[c] = "observe"
  /\ Observe(c, AvailabilityFailure(kind[c], o))
  /\ \/ /\ again
        /\ GoTo(c, "wait")
        /\ outcome' = [outcome EXCEPT ![c] = None]
        /\ UNCHANGED <<attempt, ended, result>>
     \/ /\ ~again
        /\ Return(c, IF o \in {"answered", "throttled", "broken"} THEN "answer"
                     ELSE "unavailable")
  /\ UNCHANGED <<kind, executed, sinceProbe>>

\* Mutant: a retry is not counted as an attempt.
TimerFiresUncounted(c) ==
  /\ pc[c] = "wait"
  /\ GoTo(c, "allow")
  /\ UNCHANGED <<breaker, kind, attempt, ended, outcome, result, history>>

\* The retry timer fires; when the context has ended too, either may win.
TimerFires(c) ==
  /\ pc[c] = "wait"
  /\ attempt' = [attempt EXCEPT ![c] = @ + 1]
  /\ GoTo(c, "allow")
  /\ UNCHANGED <<breaker, kind, ended, outcome, result, history>>

WaitEnds(c) ==
  /\ pc[c] = "wait"
  /\ ended[c]
  /\ Return(c, "unavailable")
  /\ UNCHANGED <<breaker, kind, history>>

\* Time passes for the breaker and for the probe's history.
Tick ==
  /\ cooldown \notin {None, 0} \/ sinceProbe < OpenDuration
  /\ cooldown' = IF cooldown \in {None, 0} THEN cooldown ELSE cooldown - 1
  /\ sinceProbe' = IF sinceProbe < OpenDuration THEN sinceProbe + 1 ELSE sinceProbe
  /\ UNCHANGED <<failures, probeActive, locals, executed, probing, lost, streak>>

Step(c) ==
  \/ Allow(c) \/ Refuse(c) \/ Abandon(c)
  \/ \E o \in Outcomes : Answer(c, o)
  \/ Settle(c) \/ TimerFires(c) \/ WaitEnds(c)

Next ==
  \/ Tick
  \/ \E c \in Call :
       Step(c) \/ Execute(c) \/ Expire(c) \/ \E k \in Kind : Begin(c, k)

Spec == Init /\ [][Next]_vars

\* The scheduler runs a call that can go on, time passes, and every context ends
\* by its deadline, whereupon the transport gives up.  Nothing obliges the service
\* to answer or a host to call.
Fairness ==
  /\ WF_vars(Tick)
  /\ \A c \in Call :
       /\ WF_vars(Allow(c) \/ Refuse(c))
       /\ WF_vars(Expire(c))
       /\ WF_vars(Answer(c, "cancelled"))
       /\ WF_vars(Settle(c))
       /\ WF_vars(TimerFires(c) \/ WaitEnds(c))

FairSpec == Spec /\ Fairness

----------------------------------------------------------------------------
\* The breaker and the calls keep their types: the failure count never passes the
\* threshold (Observe), a call's attempts never pass MaxAttempts.
TypeOK ==
  /\ failures \in 0..FailureThreshold
  /\ cooldown \in 0..OpenDuration \union {None}
  /\ probeActive \in BOOLEAN
  /\ pc \in [Call -> {"idle", "allow", "wait"} \union InFlight]
  /\ kind \in [Call -> Kind]
  /\ attempt \in [Call -> 1..MaxAttempts]
  /\ ended \in [Call -> BOOLEAN]
  /\ outcome \in [Call -> Outcome \union {None}]
  /\ result \in [Call -> Result \union {None}]
  /\ executed \in [Call -> 0..MaxAttempts]
  /\ probing \subseteq Call
  /\ lost \in BOOLEAN
  /\ sinceProbe \in 0..OpenDuration
  /\ streak \in 0..FailureThreshold

\* A request that is not replay-safe is carried out at most once for each call,
\* and not at all when the caller is told that the circuit was open; a
\* replay-safe one is carried out at most MaxAttempts times.
ReplayOnlySafeRequests ==
  \A c \in Call :
    /\ executed[c] <= MaxAttempts
    /\ kind[c] # "replayable" =>
         /\ executed[c] <= 1
         /\ result[c] = "circuit_open" => executed[c] = 0

\* The circuit is open only while the failures observed since the last success
\* number at least FailureThreshold, in whatever order concurrent calls report.
OpensOnlyOnStreak == cooldown # None => streak = FailureThreshold

\* When the breaker withholds traffic for a probe's sake, that probe is running
\* and has yet to report, unless it left without reporting and no other call has
\* reported since.
ProbeIsRunning ==
  probeActive => lost \/ \E c \in probing : pc[c] \in InFlight

\* Recovery probes are at least OpenDuration apart, even when answers from before
\* the circuit opened arrive during a probe.
ProbesArePaced ==
  [][probing' \ probing # {} => sinceProbe = OpenDuration]_vars

\* At most one recovery probe is in flight.
OneRecoveryProbe == \A c, d \in probing : c = d

\* An open circuit comes to offer a probe or to close, unless a probe leaves
\* without reporting.
OffersProbe == (cooldown # None) ~> (AllowsTraffic \/ AllowsProbe \/ lost)

\* Every call returns.
CallsReturn == \A c \in Call : (pc[c] # "idle") ~> (pc[c] = "idle")

=============================================================================
