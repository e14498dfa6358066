---------------------------- MODULE RequestGate ----------------------------
(***************************************************************************)
(* What online reauthorization promises for high-risk operations           *)
(* (httpmiddleware, WithAuthorization): a request reaches its handler only *)
(* if its access was allowed at some moment after the request arrived.     *)
(* What it was allowed before counts for nothing, and whatever fails       *)
(* leaves it refused.                                                      *)
(***************************************************************************)
CONSTANT Request

VARIABLES
  allowed,  \* the requests whose access is allowed now
  phase,    \* where each request stands
  cleared   \* the requests seen to be allowed since they arrived

vars == <<allowed, phase, cleared>>

GoTo(r, p) == phase' = [phase EXCEPT ![r] = p]

Init ==
  /\ allowed \subseteq Request
  /\ phase = [r \in Request |-> "idle"]
  /\ cleared = {}

\* Sessions end and access changes, with or without anybody noticing.
AccessChanges ==
  /\ allowed' \subseteq Request
  /\ UNCHANGED <<phase, cleared>>

\* A request brings its own credential.
Arrive(r) ==
  /\ phase[r] = "idle"
  /\ GoTo(r, "waiting")
  /\ allowed' \subseteq Request
  /\ UNCHANGED cleared

Clear(r) ==
  /\ phase[r] = "waiting"
  /\ r \in allowed
  /\ cleared' = cleared \union {r}
  /\ UNCHANGED <<allowed, phase>>

Run(r) ==
  /\ phase[r] = "waiting"
  /\ r \in cleared
  /\ GoTo(r, "running")
  /\ cleared' = cleared \ {r}
  /\ UNCHANGED allowed

Refuse(r) ==
  /\ phase[r] = "waiting"
  /\ GoTo(r, "refused")
  /\ cleared' = cleared \ {r}
  /\ UNCHANGED allowed

Leave(r) ==
  /\ phase[r] \in {"running", "refused"}
  /\ GoTo(r, "idle")
  /\ allowed' \subseteq Request
  /\ UNCHANGED cleared

Next ==
  \/ AccessChanges
  \/ \E r \in Request : Arrive(r) \/ Clear(r) \/ Run(r) \/ Refuse(r) \/ Leave(r)

Spec == Init /\ [][Next]_vars

=============================================================================
