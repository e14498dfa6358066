--------------------------- MODULE HTTPMiddleware ---------------------------
(***************************************************************************)
(* The HTTP middleware (httpmiddleware/middleware.go) over a scoped        *)
(* binding: a route authenticates, then passes the guards it is wrapped    *)
(* in, the last of which may ask the binding for an online decision.       *)
(*                                                                         *)
(* A request has a call of the binding: RequireReauthorization runs        *)
(* Reauthorize in it, remote steps during which the session may end and    *)
(* the access be withdrawn.  The authenticator is modelled by what the     *)
(* principal resolver promises: the session was in force during the        *)
(* request, while the access it states may be a cached one.                *)
(***************************************************************************)
EXTENDS ApplicationBinding

CONSTANTS
  Request,  \* the calls that are made for requests
  Routes    \* what the routes are wrapped in

\* What a route may be wrapped in, besides its handler, in the order it is passed.
Guard == {"authenticate", "authenticated", "password", "permission", "reauthorize"}

ASSUME MiddlewareAssumption == Request \subseteq Call /\ Routes \subseteq SUBSET Guard

VARIABLES
  stage,       \* where each request stands
  guards,      \* what its route is wrapped in
  credential,  \* the session whose access token it carries, or its identity's
  identity     \* the RequestIdentity in its context

requests == <<stage, guards, credential, identity>>
allvars == <<vars, requests>>

Identity == [mustChange : BOOLEAN, permitted : BOOLEAN]

MiddlewareInit ==
  /\ Init
  /\ stage = [r \in Request |-> "idle"]
  /\ guards = [r \in Request |-> {}]
  /\ credential = [r \in Request |-> None]
  /\ identity = [r \in Request |-> None]

GoTo(r, s) == stage' = [stage EXCEPT ![r] = s]

\* A request reaches a route, with an access token or none.  An outer middleware or
\* the host may have put an identity in its context, with the token it stands for.
Arrive(r, wrapped, n, known) ==
  /\ stage[r] = "idle" /\ pc[r] = "idle"
  /\ known # None => n # None
  /\ GoTo(r, "arrived")
  /\ guards' = [guards EXCEPT ![r] = wrapped]
  /\ credential' = [credential EXCEPT ![r] = n]
  /\ identity' = [identity EXCEPT ![r] = known]
  /\ UNCHANGED vars

\* Authenticate passes on a request whose context has an identity already.
KeepIdentity(r) ==
  /\ stage[r] = "arrived" /\ "authenticate" \in guards[r]
  /\ identity[r] # None
  /\ GoTo(r, "authenticated")
  /\ UNCHANGED <<vars, guards, credential, identity>>

\* Otherwise it publishes the principal of a credential whose session is in force; the
\* principal's bundle may be a cached one, from when access was still granted.
Authenticate(r) ==
  /\ stage[r] = "arrived" /\ "authenticate" \in guards[r]
  /\ identity[r] = None
  /\ credential[r] \in live
  /\ \E mustChange \in BOOLEAN, permitted \in {TRUE, granted} :
       identity' = [identity EXCEPT ![r] =
                      [mustChange |-> mustChange, permitted |-> permitted]]
  /\ GoTo(r, "authenticated")
  /\ UNCHANGED <<vars, guards, credential>>

\* There is no credential, or the authenticator refuses it or fails.
AuthenticateFails(r) ==
  /\ stage[r] = "arrived" /\ "authenticate" \in guards[r]
  /\ identity[r] = None
  /\ GoTo(r, "refused")
  /\ UNCHANGED <<vars, guards, credential, identity>>

\* The host's route is not wrapped in Authenticate.
Unauthenticated(r) ==
  /\ stage[r] = "arrived" /\ "authenticate" \notin guards[r]
  /\ GoTo(r, "authenticated")
  /\ UNCHANGED <<vars, guards, credential, identity>>

\* RequireAuthenticated, RequirePasswordChanged and RequirePermission, which look at
\* the identity in the context only; all of them refuse without one.
PassesLocally(r) ==
  /\ guards[r] \ {"authenticate"} # {} => identity[r] # None
  /\ "password" \in guards[r] => ~identity[r].mustChange
  /\ "permission" \in guards[r] => identity[r].permitted

RefuseLocally(r) ==
  /\ stage[r] = "authenticated"
  /\ ~PassesLocally(r)
  /\ GoTo(r, "refused")
  /\ UNCHANGED <<vars, guards, credential, identity>>

RunHandler(r) ==
  /\ stage[r] = "authenticated" /\ "reauthorize" \notin guards[r]
  /\ PassesLocally(r)
  /\ GoTo(r, "running")
  /\ UNCHANGED <<vars, guards, credential, identity>>

\* RequireReauthorization asks the binding, or is refused when there is none.
Reauthorize(r) ==
  /\ stage[r] = "authenticated" /\ "reauthorize" \in guards[r]
  /\ PassesLocally(r)
  /\ Begin(r, "reauthorize", credential[r], None, None, FALSE)
  /\ GoTo(r, "reauthorizing")
  /\ UNCHANGED <<guards, credential, identity>>

ReauthorizationUnavailable(r) ==
  /\ stage[r] = "authenticated" /\ "reauthorize" \in guards[r]
  /\ PassesLocally(r)
  /\ GoTo(r, "refused")
  /\ UNCHANGED <<vars, guards, credential, identity>>

\* Mutant: a decision is taken for an allowance.
DecideOnAnswer(r) ==
  /\ stage[r] = "reauthorizing" /\ pc[r] = "idle"
  /\ GoTo(r, IF result[r] # "error" THEN "running" ELSE "refused")
  /\ UNCHANGED <<vars, guards, credential, identity>>

\* The handler runs only on a decision that allows the access.
Decide(r) ==
  /\ stage[r] = "reauthorizing" /\ pc[r] = "idle"
  /\ GoTo(r, IF result[r] = "ok" THEN "running" ELSE "refused")
  /\ UNCHANGED <<vars, guards, credential, identity>>

Finish(r) ==
  /\ stage[r] \in {"running", "refused"}
  /\ GoTo(r, "idle")
  /\ guards' = [guards EXCEPT ![r] = {}]
  /\ credential' = [credential EXCEPT ![r] = None]
  /\ identity' = [identity EXCEPT ![r] = None]
  /\ UNCHANGED vars

Handle(r) ==
  \/ \E wrapped \in Routes, n \in 1..Len(home) \union {None}, known \in Identity \union {None} :
       Arrive(r, wrapped, n, known)
  \/ KeepIdentity(r) \/ Authenticate(r) \/ AuthenticateFails(r) \/ Unauthenticated(r)
  \/ RefuseLocally(r) \/ RunHandler(r)
  \/ Reauthorize(r) \/ ReauthorizationUnavailable(r) \/ Decide(r)
  \/ Finish(r)

\* A call that is not in use for a request is free to other callers, who use the
\* binding as they like.
BindingNext ==
  /\ \/ Environment
     \/ \E c \in Call : Step(c)
     \/ \E c \in Call, o \in Ops : (c \in Request => stage[c] = "idle") /\ Start(c, o)
  /\ UNCHANGED requests

MiddlewareNext == BindingNext \/ \E r \in Request : Handle(r)

MiddlewareSpec == MiddlewareInit /\ [][MiddlewareNext]_allvars

----------------------------------------------------------------------------
\* The binding's calls keep their types whatever Identity answers, and a request its stage,
\* its route, a session that was issued and the identity in its context.
RequestsTyped ==
  /\ TypeOK
  /\ stage \in [Request -> {"idle", "arrived", "authenticated", "reauthorizing",
                            "running", "refused"}]
  /\ guards \in [Request -> SUBSET Guard]
  /\ credential \in [Request -> Session \union {None}]
  /\ identity \in [Request -> Identity \union {None}]

\* The abstract gate, for the requests whose route requires reauthorization.
Phase(r) ==
  IF "reauthorize" \notin guards[r] THEN "idle"
  ELSE IF stage[r] \in {"arrived", "authenticated", "reauthorizing"} THEN "waiting"
  ELSE stage[r]

Allowance(r) ==
  \/ pc[r] = "answered" /\ answer[r].allowed
  \/ pc[r] = "idle" /\ result[r] = "ok"

Gate == INSTANCE RequestGate WITH
  allowed <- {r \in Request : granted /\ credential[r] \in live},
  phase <- [r \in Request |-> Phase(r)],
  cleared <- {r \in Request : stage[r] = "reauthorizing" /\ Allowance(r)}

\* A handler behind RequireReauthorization runs only if the request's session was in
\* force and its access granted at some moment since the request arrived, whatever
\* its cached principal says and however the decision's steps interleave with changes.
GateHolds == Gate!Spec

=============================================================================
