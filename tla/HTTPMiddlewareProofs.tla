------------------------ MODULE HTTPMiddlewareProofs ------------------------
(***************************************************************************)
(* The theorems about the application binding and the HTTP middleware over *)
(* it, for any number of calls, requests, workspaces, sessions and routes. *)
(***************************************************************************)
EXTENDS HTTPMiddleware, TLAPS

\* A call in progress knows the workspaces that were open when it began, and once its
\* scope is settled, it is one of them.
CallsAdmitted ==
  \A c \in Call : pc[c] # "idle" =>
    /\ IF resolving THEN open \subseteq admitted[c] ELSE admitted[c] = {Bound}
    /\ op[c] \in Unscoped \/ (op[c] \in ByToken /\ pc[c] = "verify")
         \/ scope[c] \in admitted[c]

\* What a call presents and what it was answered.
CallsFormed ==
  \A c \in Call :
    /\ pc[c] # "idle" /\ op[c] \in Presenting => token[c] \in Session
    /\ pc[c] = "verify" => op[c] \in ByToken \union ByTokenAndScope
    /\ pc[c] = "answered" =>
         /\ answer[c] \in Answer
         /\ answer[c].session # None => op[c] \in Issuing

\* A request uses its call for its reauthorization only, with its own token.
RequestsWait ==
  \A r \in Request :
    /\ stage[r] = "idle" => identity[r] = None
    /\ identity[r] # None => credential[r] \in Session
    /\ stage[r] \in {"idle", "reauthorizing"} \/ pc[r] = "idle"
    /\ stage[r] = "reauthorizing" =>
         /\ "reauthorize" \in guards[r]
         /\ pc[r] # "idle" => op[r] = "reauthorize" /\ token[r] = credential[r]

Inv ==
  /\ RequestsTyped
  /\ CallsAdmitted
  /\ CallsFormed
  /\ RequestsWait

\* What every step does to the world: sessions are issued, workspaces are closed.
WorldStep ==
  /\ resolving' = resolving /\ open' \subseteq open
  /\ granted' \in BOOLEAN /\ keys' \in BOOLEAN
  /\ home' \in Seq(Workspace \union {Elsewhere})
  /\ Len(home) <= Len(home') /\ Len(home') <= MaxIssued
  /\ live' \subseteq Session'

----------------------------------------------------------------------------
(* The invariant holds initially.                                          *)

\* Calls and requests begin idle (ApplicationBinding!Init, MiddlewareInit).
LEMMA InvInit == MiddlewareInit => Inv
<1> SUFFICES ASSUME MiddlewareInit PROVE Inv
  OBVIOUS
<1> USE BindingAssumption DEF MiddlewareInit, Init
<1>1. TypeOK
  BY DEF TypeOK, Session, Operation, Ambient, Result
<1>2. RequestsTyped
  BY <1>1 DEF RequestsTyped
<1>3. CallsAdmitted /\ CallsFormed
  BY DEF CallsAdmitted, CallsFormed
<1>4. RequestsWait
  BY MiddlewareAssumption DEF RequestsWait
<1> QED
  BY <1>2, <1>3, <1>4 DEF Inv

----------------------------------------------------------------------------
(* Steps keep the invariant.                                               *)

\* Sessions are only ever added.
LEMMA SessionGrows ==
  ASSUME Inv, WorldStep
  PROVE  Session \subseteq Session' /\ None \notin Session'
<1>1. Len(home) \in Nat /\ Len(home') \in Nat
  BY DEF Inv, RequestsTyped, TypeOK, WorldStep
<1> QED
  BY <1>1, BindingAssumption DEF WorldStep, Session

\* A step of the world alone keeps the invariant.
LEMMA WorldKeeps ==
  ASSUME Inv, WorldStep, UNCHANGED <<locals, requests>>
  PROVE  Inv'
<1> USE DEF locals, requests
<1>1. Session \subseteq Session'
  BY SessionGrows
<1>2. RequestsTyped'
  <2>1. open' \subseteq Workspace /\ live' \subseteq Session' /\ resolving' \in BOOLEAN
    BY DEF Inv, RequestsTyped, TypeOK, WorldStep
  <2>2. token' \in [Call -> Session' \union {None}]
    BY <1>1 DEF Inv, RequestsTyped, TypeOK
  <2>3. credential' \in [Request -> Session' \union {None}]
    BY <1>1 DEF Inv, RequestsTyped
  <2>4. TypeOK'
    BY <2>1, <2>2 DEF Inv, RequestsTyped, TypeOK, WorldStep
  <2> QED
    BY <2>3, <2>4 DEF Inv, RequestsTyped
<1>3. CallsAdmitted'
  BY DEF Inv, CallsAdmitted, WorldStep
<1>4. CallsFormed'
  BY <1>1 DEF Inv, CallsFormed
<1>5. RequestsWait'
  BY <1>1 DEF Inv, RequestsWait
<1> QED
  BY <1>2, <1>3, <1>4, <1>5 DEF Inv

\* A call that returns keeps the invariant.
LEMMA ReturnKeeps ==
  ASSUME Inv, WorldStep, NEW c \in Call, NEW x \in Result, Return(c, x),
         UNCHANGED requests
  PROVE  Inv'
<1> USE DEF requests
<1>1. Session \subseteq Session'
  BY SessionGrows
<1>2. RequestsTyped'
  <2>1. open' \subseteq Workspace /\ live' \subseteq Session' /\ resolving' \in BOOLEAN
    BY DEF Inv, RequestsTyped, TypeOK, WorldStep
  <2>2. token' \in [Call -> Session' \union {None}]
    BY <1>1 DEF Inv, RequestsTyped, TypeOK, Return
  <2>3. credential' \in [Request -> Session' \union {None}]
    BY <1>1 DEF Inv, RequestsTyped
  <2>4. /\ pc' \in [Call -> {"idle", "verify", "delegate", "answered"}]
        /\ op' \in [Call -> Operation]
        /\ scope' \in [Call -> Workspace]
    BY BindingAssumption DEF Inv, RequestsTyped, TypeOK, Return, Operation, Ambient
  <2>5. /\ answer' \in [Call -> Answer \union {None}]
        /\ result' \in [Call -> Result]
        /\ admitted' \in [Call -> SUBSET Workspace]
    BY DEF Inv, RequestsTyped, TypeOK, Return
  <2>6. TypeOK'
    BY <2>1, <2>2, <2>4, <2>5 DEF TypeOK, WorldStep
  <2> QED
    BY <2>3, <2>6 DEF Inv, RequestsTyped
<1>a. /\ pc'[c] = "idle"
      /\ \A d \in Call : d # c => /\ pc'[d] = pc[d] /\ op'[d] = op[d]
                                 /\ scope'[d] = scope[d] /\ token'[d] = token[d]
                                 /\ answer'[d] = answer[d] /\ admitted'[d] = admitted[d]
  BY DEF Inv, RequestsTyped, TypeOK, Return
<1>3. CallsAdmitted'
  BY <1>a DEF Inv, CallsAdmitted, WorldStep
<1>4. CallsFormed'
  BY <1>1, <1>a DEF Inv, CallsFormed
<1>5. RequestsWait'
  BY <1>1, <1>a, MiddlewareAssumption DEF Inv, RequestsWait
<1> QED
  BY <1>2, <1>3, <1>4, <1>5 DEF Inv

\* So does the delegate's answer, if a session it names is of an issuing operation.
LEMMA AnsweredKeeps ==
  ASSUME Inv, WorldStep, NEW c \in Call, NEW a \in Answer, Answered(c, a),
         pc[c] = "delegate", a.session # None => op[c] \in Issuing,
         UNCHANGED requests
  PROVE  Inv'
<1> USE DEF requests
<1>0. CASE Return(c, "error")
  BY <1>0, ReturnKeeps DEF Result
<1>b. CASE /\ pc' = [pc EXCEPT ![c] = "answered"]
           /\ answer' = [answer EXCEPT ![c] = a]
           /\ UNCHANGED <<op, scope, token, result, admitted>>
  <2>1. Session \subseteq Session'
    BY SessionGrows
  <2>2. RequestsTyped'
    <3>1. open' \subseteq Workspace /\ live' \subseteq Session' /\ resolving' \in BOOLEAN
      BY DEF Inv, RequestsTyped, TypeOK, WorldStep
    <3>2. token' \in [Call -> Session' \union {None}]
      BY <1>b, <2>1 DEF Inv, RequestsTyped, TypeOK
    <3>3. credential' \in [Request -> Session' \union {None}]
      BY <2>1 DEF Inv, RequestsTyped
    <3>4. TypeOK'
      BY <1>b, <3>1, <3>2 DEF Inv, RequestsTyped, TypeOK, WorldStep
    <3> QED
      BY <3>3, <3>4 DEF Inv, RequestsTyped
  <2>a. /\ pc'[c] = "answered" /\ answer'[c] = a
        /\ \A d \in Call : d # c => pc'[d] = pc[d] /\ answer'[d] = answer[d]
    BY <1>b DEF Inv, RequestsTyped, TypeOK
  <2>3. CallsAdmitted'
    BY <1>b, <2>a DEF Inv, CallsAdmitted, WorldStep
  <2>4. CallsFormed'
    BY <1>b, <2>1, <2>a DEF Inv, CallsFormed
  <2>5. RequestsWait'
    BY <1>b, <2>1, <2>a, MiddlewareAssumption DEF Inv, RequestsWait
  <2> QED
    BY <2>2, <2>3, <2>4, <2>5 DEF Inv
<1> QED
  BY <1>0, <1>b DEF Answered

\* The host accepts every workspace that an operation is scoped to when it begins.
LEMMA ScopesAccepted ==
  ASSUME Inv, NEW o, NEW name, NEW context
  PROVE  \A w \in ScopesFor(o, name, context) : w \in Workspace /\ InScope(w)
<1>1. \A input : \A w \in Accepted(input) : w \in Workspace /\ InScope(w)
  BY BindingAssumption DEF Accepted, InScope
<1>2. open \subseteq Workspace
  BY DEF Inv, RequestsTyped, TypeOK
<1>3. CASE o \in Resolving /\ resolving
  BY <1>2, <1>3 DEF ScopesFor, InScope
<1>4. CASE ~(o \in Resolving /\ resolving)
  BY <1>1, <1>4 DEF ScopesFor
<1> QED
  BY <1>3, <1>4

\* An operation that begins leaves the invariant of the calls, whatever becomes of the
\* request it is for.
LEMMA BeginKeeps ==
  ASSUME Inv, NEW c \in Call, NEW o \in Operation, NEW t \in Session \union {None},
         o \in Presenting => t \in Session,
         NEW name, NEW context, NEW foreign, Begin(c, o, t, name, context, foreign)
  PROVE  /\ TypeOK' /\ CallsAdmitted' /\ CallsFormed'
         /\ Session' = Session /\ pc[c] = "idle"
         /\ \A d \in Call : d # c => pc'[d] = pc[d] /\ op'[d] = op[d] /\ token'[d] = token[d]
         /\ pc'[c] # "idle" => op'[c] = o /\ token'[c] = t
<1> DEFINE scopes == ScopesFor(o, name, context)
<1>0. UNCHANGED world /\ Session' = Session /\ pc[c] = "idle" /\ WorldStep
  BY DEF Begin, world, Session, WorldStep, Inv, RequestsTyped, TypeOK
<1>1. CASE Return(c, "error")
  <2>2. TypeOK'
    BY <1>0, <1>1, BindingAssumption
    DEF world, Inv, RequestsTyped, TypeOK, Return, Operation, Ambient, Result
  <2>a. /\ pc'[c] = "idle"
        /\ \A d \in Call : d # c => /\ pc'[d] = pc[d] /\ op'[d] = op[d]
                                   /\ scope'[d] = scope[d] /\ token'[d] = token[d]
                                   /\ answer'[d] = answer[d] /\ admitted'[d] = admitted[d]
    BY <1>1 DEF Inv, RequestsTyped, TypeOK, Return
  <2>3. CallsAdmitted'
    BY <1>0, <2>a DEF Inv, CallsAdmitted, world
  <2>4. CallsFormed'
    BY <1>0, <2>a DEF Inv, CallsFormed
  <2> QED
    BY <1>0, <2>2, <2>3, <2>4, <2>a
<1>2. CASE
        /\ ~(o \notin ByToken \union Unscoped /\ scopes = {})
        /\ pc' = [pc EXCEPT ![c] = IF o \in ByToken \union ByTokenAndScope
                                   THEN "verify" ELSE "delegate"]
        /\ op' = [op EXCEPT ![c] = o]
        /\ IF o \in ByToken \union Unscoped THEN UNCHANGED scope
           ELSE \E w \in scopes : scope' = [scope EXCEPT ![c] = w]
        /\ token' = [token EXCEPT ![c] = t]
        /\ result' = [result EXCEPT ![c] = "error"]
        /\ admitted' = [admitted EXCEPT ![c] = IF resolving THEN open ELSE {Bound}]
        /\ UNCHANGED answer
  <2>1. \A w \in scopes : w \in Workspace /\ InScope(w)
    BY ScopesAccepted
  <2>2. scope' \in [Call -> Workspace]
    BY <1>2, <2>1 DEF Inv, RequestsTyped, TypeOK
  <2>3. TypeOK'
    BY <1>0, <1>2, <2>2, BindingAssumption
    DEF world, Inv, RequestsTyped, TypeOK, Result
  <2>a. /\ pc'[c] = IF o \in ByToken \union ByTokenAndScope THEN "verify" ELSE "delegate"
        /\ op'[c] = o /\ token'[c] = t
        /\ admitted'[c] = IF resolving THEN open ELSE {Bound}
        /\ \A d \in Call : d # c => /\ pc'[d] = pc[d] /\ op'[d] = op[d]
                                   /\ scope'[d] = scope[d] /\ token'[d] = token[d]
                                   /\ answer'[d] = answer[d] /\ admitted'[d] = admitted[d]
    BY <1>2 DEF Inv, RequestsTyped, TypeOK
  <2>b. o \in Unscoped \/ o \in ByToken \/ InScope(scope'[c])
    BY <1>2, <2>1 DEF Inv, RequestsTyped, TypeOK
  <2>4. CallsAdmitted'
    BY <1>0, <2>a, <2>b DEF Inv, CallsAdmitted, world, InScope
  <2>5. CallsFormed'
    BY <1>0, <1>2, <2>a DEF Inv, CallsFormed
  <2> QED
    BY <1>0, <2>3, <2>4, <2>5, <2>a
<1> QED
  BY <1>1, <1>2 DEF Begin

\* Any other caller's operation keeps the invariant.
LEMMA StartKeeps ==
  ASSUME Inv, NEW c \in Call, NEW o \in Ops, c \in Request => stage[c] = "idle",
         Start(c, o), UNCHANGED requests
  PROVE  Inv'
<1>1. PICK t \in 1..Len(home) \union {None}, name \in Input,
           context \in Workspace \union {None}, foreign \in BOOLEAN :
             (t # None <=> o \in Presenting) /\ Begin(c, o, t, name, context, foreign)
  BY DEF Start
<1>2. o \in Operation /\ t \in Session \union {None} /\ (o \in Presenting => t \in Session)
  BY <1>1, OperationsAssumption DEF Session
<1>3. /\ TypeOK' /\ CallsAdmitted' /\ CallsFormed'
      /\ Session' = Session
      /\ \A d \in Call : d # c => pc'[d] = pc[d] /\ op'[d] = op[d] /\ token'[d] = token[d]
  BY <1>1, <1>2, BeginKeeps
<1>4. RequestsTyped'
  BY <1>3 DEF Inv, RequestsTyped, requests
<1>5. RequestsWait'
  BY <1>3, MiddlewareAssumption DEF Inv, RequestsWait, requests
<1> QED
  BY <1>3, <1>4, <1>5 DEF Inv

\* What the Identity service and the host do on their own keeps the invariant.
LEMMA EnvironmentKeeps ==
  ASSUME Inv, Environment, UNCHANGED requests
  PROVE  Inv' /\ WorldStep /\ UNCHANGED locals /\ home' = home
<1>0. /\ live \subseteq Session /\ Len(home) \in Nat /\ Len(home) <= MaxIssued
      /\ home \in Seq(Workspace \union {Elsewhere})
      /\ granted \in BOOLEAN /\ keys \in BOOLEAN
  BY DEF Inv, RequestsTyped, TypeOK
<1>1. /\ UNCHANGED locals /\ home' = home /\ resolving' = resolving
      /\ open' \subseteq open /\ live' \subseteq live
  BY DEF Environment, EndSession, WithdrawAccess, KeysComeAndGo, CloseWorkspace
<1>2. granted' \in BOOLEAN /\ keys' \in BOOLEAN
  BY <1>0 DEF Environment, EndSession, WithdrawAccess, KeysComeAndGo, CloseWorkspace
<1>3. WorldStep
  BY <1>0, <1>1, <1>2 DEF WorldStep, Session
<1> QED
  BY <1>1, <1>3, WorldKeeps

\* Verifying a token settles the scope of the operation.
LEMMA VerifyKeeps ==
  ASSUME Inv, NEW c \in Call, Verify(c), UNCHANGED requests
  PROVE  Inv'
<1> USE DEF requests
<1>0. UNCHANGED world /\ Session' = Session
  BY DEF Verify, world, Session
<1>1. /\ pc[c] = "verify" /\ op[c] \in ByToken \union ByTokenAndScope
      /\ token[c] \in Session
  BY DEF Verify, Inv, CallsFormed, Presenting
<1>2. home[token[c]] \in Workspace \union {Elsewhere}
  BY <1>1 DEF Inv, RequestsTyped, TypeOK, Session
<1>3. home[token[c]] \in Workspace /\ InScope(home[token[c]])
  BY <1>2 DEF Verify, TokenInScope
<1>4. /\ pc' = [pc EXCEPT ![c] = "delegate"]
      /\ scope' = [scope EXCEPT ![c] = IF op[c] \in ByToken THEN home[token[c]] ELSE @]
      /\ UNCHANGED <<op, token, answer, result, admitted>>
  BY DEF Verify
<1>5. TypeOK'
  BY <1>0, <1>3, <1>4 DEF world, Inv, RequestsTyped, TypeOK
<1>a. /\ pc'[c] = "delegate"
      /\ scope'[c] = IF op[c] \in ByToken THEN home[token[c]] ELSE scope[c]
      /\ \A d \in Call : d # c => pc'[d] = pc[d] /\ scope'[d] = scope[d]
  BY <1>4 DEF Inv, RequestsTyped, TypeOK
<1>6. CallsAdmitted'
  BY <1>0, <1>1, <1>3, <1>4, <1>a DEF Inv, CallsAdmitted, world, InScope
<1>7. CallsFormed'
  BY <1>0, <1>1, <1>4, <1>a DEF Inv, CallsFormed
<1>8. RequestsWait'
  BY <1>0, <1>1, <1>4, <1>a, MiddlewareAssumption DEF Inv, RequestsWait
<1> QED
  BY <1>0, <1>5, <1>6, <1>7, <1>8 DEF Inv, RequestsTyped

\* Whatever the delegate does and answers, the invariant is kept.
LEMMA ServeKeeps ==
  ASSUME Inv, NEW c \in Call, Serve(c), UNCHANGED requests
  PROVE  Inv'
<1>0. /\ pc[c] = "delegate" /\ Len(home) \in Nat /\ Len(home) <= MaxIssued
      /\ live \subseteq Session /\ MaxIssued \in Nat
      /\ resolving' = resolving /\ open' \subseteq open
      /\ granted' \in BOOLEAN /\ keys' \in BOOLEAN
      /\ home \in Seq(Workspace \union {Elsewhere})
  BY BindingAssumption DEF Serve, Inv, RequestsTyped, TypeOK
<1>n. /\ Len(home) \in Nat /\ Len(home) <= MaxIssued /\ MaxIssued \in Nat
      /\ live \subseteq Session
  BY <1>0
<1>1. ASSUME NEW claim \in Workspace, NEW place \in Workspace \union {Elsewhere},
             Issue(c, claim, place)
      PROVE  Inv'
  <2> DEFINE a == [session |-> Len(home'), workspace |-> claim, allowed |-> TRUE]
  <2>1. Answered(c, a) /\ op[c] \in Issuing
    BY <1>1 DEF Issue
  <2>7. /\ home' = Append(home, place) /\ Len(home) < MaxIssued
        /\ live' = (live \ Ended(c)) \union {Len(home')}
    BY <1>1 DEF Issue
  <2>2. /\ home' \in Seq(Workspace \union {Elsewhere}) /\ Len(home') = Len(home) + 1
    BY <1>0, <2>7
  <2>3. Len(home) <= Len(home') /\ Len(home') <= MaxIssued
    BY <1>n, <2>7, <2>2
  <2>5. Session \subseteq Session' /\ Len(home') \in Session'
    BY <1>n, <2>2 DEF Session
  <2>c. live' \subseteq Session'
    BY <1>n, <2>7, <2>5
  <2>6. WorldStep
    BY <1>0, <2>2, <2>3, <2>c DEF WorldStep
  <2>4. a \in Answer
    BY <1>0, <2>7, <2>2 DEF Answer
  <2> QED
    BY <1>0, <2>1, <2>4, <2>6, AnsweredKeeps
<1>2. ASSUME NEW claim \in Workspace, Read(c, claim)
      PROVE  Inv'
  <2> DEFINE a == [session |-> None, workspace |-> claim,
                   allowed |-> op[c] = "reauthorize" => granted /\ token[c] \in live]
  <2>1. Answered(c, a)
    BY <1>2 DEF Read
  <2>2. home' = home /\ live' = live \ Ended(c)
    BY <1>2 DEF Read
  <2>3. Len(home) <= Len(home') /\ Len(home') <= MaxIssued
    BY <1>n, <2>2
  <2>5. live' \subseteq Session'
    BY <1>n, <2>2 DEF Session
  <2>6. WorldStep
    BY <1>0, <2>2, <2>3, <2>5 DEF WorldStep
  <2>4. a \in Answer
    BY DEF Answer
  <2> QED
    BY <1>0, <2>1, <2>4, <2>6, AnsweredKeeps
<1> QED
  BY <1>1, <1>2 DEF Serve

\* A step of an operation keeps the invariant.
LEMMA StepKeeps ==
  ASSUME Inv, NEW c \in Call, Step(c), UNCHANGED requests
  PROVE  Inv'
<1>0. UNCHANGED world => WorldStep
  BY DEF WorldStep, world, Session, Inv, RequestsTyped, TypeOK
<1>1. CASE Verify(c)
  BY <1>1, VerifyKeeps
<1>2. CASE VerifyFails(c) \/ Fail(c)
  BY <1>0, <1>2, ReturnKeeps DEF VerifyFails, Fail, Result
<1>3. CASE Serve(c)
  BY <1>3, ServeKeeps
<1>4. CASE Settle(c)
  <2> DEFINE x == IF ~Passes(c) THEN "error"
                  ELSE IF answer[c].allowed THEN "ok" ELSE "denied"
  <2>1. x \in Result /\ Return(c, x) /\ UNCHANGED world
    BY <1>4 DEF Settle, Result
  <2> QED
    BY <1>0, <2>1, ReturnKeeps
<1> QED
  BY <1>1, <1>2, <1>3, <1>4 DEF Step

\* A request that goes on to stage q, its call idle before and after or begun for its
\* reauthorization, keeps the invariant if it knows an identity only of a session.
LEMMA HandleKeeps ==
  ASSUME Inv, NEW r \in Request, Handle(r)
  PROVE  Inv'
<1> USE DEF requests
<1>0. /\ r \in Call /\ (stage[r] # "reauthorizing" => stage[r] = "idle" \/ pc[r] = "idle")
      /\ identity[r] # None => credential[r] \in Session
      /\ stage[r] = "idle" => identity[r] = None
      /\ stage[r] = "reauthorizing" => "reauthorize" \in guards[r]
  BY MiddlewareAssumption DEF Inv, RequestsWait
<1>t. /\ stage \in [Request -> {"idle", "arrived", "authenticated", "reauthorizing",
                                "running", "refused"}]
      /\ guards \in [Request -> SUBSET Guard]
      /\ credential \in [Request -> Session \union {None}]
      /\ identity \in [Request -> Identity \union {None}]
      /\ TypeOK
  BY DEF Inv, RequestsTyped
<1>v. UNCHANGED vars =>
        /\ Session' = Session /\ TypeOK' /\ CallsAdmitted' /\ CallsFormed'
        /\ pc' = pc /\ op' = op /\ token' = token
  <2> SUFFICES ASSUME UNCHANGED vars
               PROVE  /\ Session' = Session /\ TypeOK' /\ CallsAdmitted' /\ CallsFormed'
                      /\ pc' = pc /\ op' = op /\ token' = token
    OBVIOUS
  <2> USE DEF vars, world, locals
  <2>1. Session' = Session
    BY DEF Session
  <2>2. TypeOK'
    BY <2>1, <1>t DEF TypeOK
  <2>3. CallsAdmitted' /\ CallsFormed'
    BY <2>1 DEF Inv, CallsAdmitted, CallsFormed
  <2> QED
    BY <2>1, <2>2, <2>3
<1>1. ASSUME NEW wrapped \in Routes, NEW n \in 1..Len(home) \union {None},
             NEW known \in Identity \union {None}, Arrive(r, wrapped, n, known)
      PROVE  Inv'
  <2>1. /\ stage[r] = "idle" /\ pc[r] = "idle"
        /\ stage' = [stage EXCEPT ![r] = "arrived"]
        /\ guards' = [guards EXCEPT ![r] = wrapped]
        /\ credential' = [credential EXCEPT ![r] = n]
        /\ identity' = [identity EXCEPT ![r] = known]
        /\ known # None => n # None
        /\ UNCHANGED vars
    BY <1>1 DEF Arrive, GoTo
  <2>2. wrapped \in SUBSET Guard /\ n \in Session \union {None} /\ (known # None => n \in Session)
    BY <2>1, MiddlewareAssumption DEF Session
  <2>3. RequestsTyped'
    BY <1>t, <1>v, <2>1, <2>2 DEF RequestsTyped
  <2>4. RequestsWait'
    BY <1>0, <1>t, <1>v, <2>1, <2>2 DEF Inv, RequestsWait
  <2> QED
    BY <1>v, <2>1, <2>3, <2>4 DEF Inv
<1>2. CASE Authenticate(r)
  <2>1. /\ stage[r] = "arrived" /\ credential[r] \in live
        /\ stage' = [stage EXCEPT ![r] = "authenticated"]
        /\ \E mustChange \in BOOLEAN, permitted \in {TRUE, granted} :
             identity' = [identity EXCEPT ![r] =
                            [mustChange |-> mustChange, permitted |-> permitted]]
        /\ UNCHANGED <<vars, guards, credential>>
    BY <1>2 DEF Authenticate, GoTo
  <2>2. granted \in BOOLEAN /\ live \subseteq Session
    BY <1>t DEF TypeOK
  <2>3. identity' \in [Request -> Identity \union {None}]
        /\ \A d \in Request : d # r => identity'[d] = identity[d]
    <3>1. PICK mustChange \in BOOLEAN, permitted \in {TRUE, granted} :
            identity' = [identity EXCEPT ![r] =
                           [mustChange |-> mustChange, permitted |-> permitted]]
      BY <2>1
    <3>2. permitted \in BOOLEAN
      BY <2>2, Zenon
    <3>3. [mustChange |-> mustChange, permitted |-> permitted] \in Identity
      BY <3>2 DEF Identity
    <3> QED
      BY <1>t, <3>1, <3>3
  <2>4. RequestsTyped'
    BY <1>t, <1>v, <2>1, <2>3 DEF RequestsTyped
  <2>5. RequestsWait'
    BY <1>0, <1>t, <1>v, <2>1, <2>2, <2>3 DEF Inv, RequestsWait
  <2> QED
    BY <1>v, <2>1, <2>4, <2>5 DEF Inv
<1>3. ASSUME NEW q \in {"authenticated", "running", "refused"},
             stage[r] # "idle", pc[r] = "idle", stage' = [stage EXCEPT ![r] = q],
             UNCHANGED <<vars, guards, credential, identity>>
      PROVE  Inv'
  <2>1. RequestsTyped'
    BY <1>t, <1>v, <1>3 DEF RequestsTyped
  <2>2. RequestsWait'
    BY <1>0, <1>t, <1>v, <1>3 DEF Inv, RequestsWait
  <2> QED
    BY <1>v, <1>3, <2>1, <2>2 DEF Inv
<1>4. CASE KeepIdentity(r) \/ AuthenticateFails(r) \/ Unauthenticated(r)
  BY <1>0, <1>3, <1>4 DEF KeepIdentity, AuthenticateFails, Unauthenticated, GoTo
<1>5. CASE RefuseLocally(r) \/ RunHandler(r) \/ ReauthorizationUnavailable(r)
  BY <1>0, <1>3, <1>5 DEF RefuseLocally, RunHandler, ReauthorizationUnavailable, GoTo
<1>6. CASE Decide(r)
  BY <1>3, <1>6 DEF Decide, GoTo
<1>7. CASE Reauthorize(r)
  <2>1. /\ stage[r] = "authenticated" /\ "reauthorize" \in guards[r]
        /\ PassesLocally(r)
        /\ Begin(r, "reauthorize", credential[r], None, None, FALSE)
        /\ stage' = [stage EXCEPT ![r] = "reauthorizing"]
        /\ UNCHANGED <<guards, credential, identity>>
    BY <1>7 DEF Reauthorize, GoTo
  <2>2. credential[r] \in Session
    BY <1>0, <2>1 DEF PassesLocally
  <2>3. /\ TypeOK' /\ CallsAdmitted' /\ CallsFormed' /\ Session' = Session
        /\ \A d \in Call : d # r => pc'[d] = pc[d] /\ op'[d] = op[d] /\ token'[d] = token[d]
        /\ pc'[r] # "idle" => op'[r] = "reauthorize" /\ token'[r] = credential[r]
    BY <1>0, <2>1, <2>2, BeginKeeps DEF Operation, ByToken
  <2>4. RequestsTyped'
    BY <1>t, <2>1, <2>3 DEF RequestsTyped
  <2>5. RequestsWait'
    BY <1>0, <1>t, <2>1, <2>3, MiddlewareAssumption DEF Inv, RequestsWait
  <2> QED
    BY <2>3, <2>4, <2>5 DEF Inv
<1>8. CASE Finish(r)
  <2>1. /\ stage[r] \in {"running", "refused"}
        /\ stage' = [stage EXCEPT ![r] = "idle"]
        /\ guards' = [guards EXCEPT ![r] = {}]
        /\ credential' = [credential EXCEPT ![r] = None]
        /\ identity' = [identity EXCEPT ![r] = None]
        /\ UNCHANGED vars
    BY <1>8 DEF Finish, GoTo
  <2>2. RequestsTyped'
    BY <1>t, <1>v, <2>1 DEF RequestsTyped
  <2>3. RequestsWait'
    BY <1>0, <1>t, <1>v, <2>1 DEF Inv, RequestsWait
  <2> QED
    BY <1>v, <2>1, <2>2, <2>3 DEF Inv
<1> QED
  BY <1>1, <1>2, <1>4, <1>5, <1>6, <1>7, <1>8 DEF Handle

\* Every step of the middleware over the binding keeps the invariant.
LEMMA NextKeeps == Inv /\ [MiddlewareNext]_allvars => Inv'
<1> SUFFICES ASSUME Inv, [MiddlewareNext]_allvars PROVE Inv'
  OBVIOUS
<1>1. CASE UNCHANGED allvars
  <2>1. WorldStep /\ UNCHANGED <<locals, requests>>
    BY <1>1 DEF allvars, vars, world, WorldStep, Session, Inv, RequestsTyped, TypeOK
  <2> QED
    BY <2>1, WorldKeeps
<1>2. CASE BindingNext
  BY <1>2, EnvironmentKeeps, StepKeeps, StartKeeps DEF BindingNext
<1>3. CASE \E r \in Request : Handle(r)
  BY <1>3, HandleKeeps
<1> QED
  BY <1>1, <1>2, <1>3 DEF MiddlewareNext

\* Calls and requests keep their types, and their invariant holds, for any number of
\* each (TypeOK, RequestsTyped).
THEOREM RequestsStayTyped == MiddlewareSpec => []RequestsTyped
<1>1. MiddlewareSpec => []Inv
  BY InvInit, NextKeeps, PTL DEF MiddlewareSpec
<1>2. Inv => RequestsTyped
  BY DEF Inv
<1> QED
  BY <1>1, <1>2, PTL

----------------------------------------------------------------------------
(* What the binding promises of answers.                                   *)

\* Of the calls in progress, only the one whose step it is moves.
LEMMA StepMovesOne ==
  ASSUME Inv, NEW c \in Call, NEW d \in Call, d # c, Step(c)
  PROVE  pc'[d] = pc[d]
<1>1. pc \in [Call -> {"idle", "verify", "delegate", "answered"}]
  BY DEF Inv, RequestsTyped, TypeOK
<1>2. CASE Verify(c)
  BY <1>1, <1>2 DEF Verify
<1>3. CASE VerifyFails(c) \/ Fail(c) \/ Settle(c)
  BY <1>1, <1>3 DEF VerifyFails, Fail, Settle, Return
<1>4. CASE Serve(c)
  BY <1>1, <1>4 DEF Serve, Issue, Read, Answered, Return
<1> QED
  BY <1>2, <1>3, <1>4 DEF Step

\* A step of the system is an operation's, or the world's, or leaves the world and the
\* calls in progress alone.
LEMMA StepKinds ==
  ASSUME Inv, [MiddlewareNext]_allvars
  PROVE  \/ \E c \in Call : Step(c)
         \/ Environment
         \/ UNCHANGED world /\ \A d \in Call : pc[d] # "idle" => pc'[d] = pc[d]
<1> DEFINE Quiet == UNCHANGED world /\ \A d \in Call : pc[d] # "idle" => pc'[d] = pc[d]
<1>0. pc \in [Call -> {"idle", "verify", "delegate", "answered"}]
  BY DEF Inv, RequestsTyped, TypeOK
<1>1. ASSUME NEW c \in Call, NEW o, NEW t, NEW name, NEW context, NEW foreign,
             Begin(c, o, t, name, context, foreign)
      PROVE  Quiet
  BY <1>0, <1>1 DEF Begin, Return
<1>2. ASSUME NEW c \in Call, NEW o \in Ops, Start(c, o)
      PROVE  Quiet
  BY <1>1, <1>2 DEF Start
<1>3. ASSUME NEW r \in Request, Handle(r)
      PROVE  Quiet
  <2>1. CASE Reauthorize(r)
    BY <1>1, <2>1, MiddlewareAssumption DEF Reauthorize
  <2>2. CASE ~Reauthorize(r)
    <3>1. UNCHANGED vars
      BY <1>3, <2>2
      DEF Handle, Arrive, KeepIdentity, Authenticate, AuthenticateFails, Unauthenticated,
          RefuseLocally, RunHandler, ReauthorizationUnavailable, Decide, Finish
    <3> QED
      BY <3>1 DEF vars, world, locals
  <2> QED
    BY <2>1, <2>2
<1>4. CASE UNCHANGED allvars
  BY <1>4 DEF allvars, vars, world, locals
<1> QED
  BY <1>2, <1>3, <1>4 DEF MiddlewareNext, BindingNext

\* An answer is settled by the step that settles it, which passes what it returns.
LEMMA SettlesBySettle ==
  ASSUME Inv, [MiddlewareNext]_allvars, NEW c \in Call, NEW x \in Result, Settles(c, x)
  PROVE  /\ Settle(c)
         /\ x = "ok" => Passes(c)
         /\ x = "error" => ~Passes(c)
<1>0. /\ pc[c] = "answered" /\ pc'[c] = "idle" /\ result'[c] = x
      /\ pc \in [Call -> {"idle", "verify", "delegate", "answered"}]
      /\ result \in [Call -> Result]
  BY DEF Settles, Inv, RequestsTyped, TypeOK
<1>1. ~Environment
  BY <1>0 DEF Environment, EndSession, WithdrawAccess, KeysComeAndGo, CloseWorkspace, locals
<1>2. Step(c)
  BY <1>0, <1>1, StepKinds, StepMovesOne
<1>3. Settle(c)
  BY <1>0, <1>2 DEF Step, Verify, VerifyFails, Serve, Fail
<1>4. result'[c] = IF ~Passes(c) THEN "error"
                   ELSE IF answer[c].allowed THEN "ok" ELSE "denied"
  BY <1>0, <1>3 DEF Settle, Return
<1> QED
  BY <1>0, <1>3, <1>4

\* A session, a view, a principal or a receipt returned without an error belongs to the
\* workspace of its operation, which the host accepted, and its token to the bound
\* application, whatever Identity answered (verifySession and the comparisons beside it).
THEOREM BindingAnswersInScope == MiddlewareSpec => AnswersInScope
<1> DEFINE Held ==
      \A c \in Call : Settles(c, "ok") =>
        LET n == answer[c].session IN
        /\ op[c] \notin Unscoped => scope[c] \in admitted[c]
        /\ (n # None \/ op[c] \in Compared) => answer[c].workspace = scope[c]
        /\ n # None => home[n] = scope[c]
<1>1. ASSUME Inv, [MiddlewareNext]_allvars PROVE Held
  <2> SUFFICES ASSUME NEW c \in Call, Settles(c, "ok")
               PROVE  /\ op[c] \notin Unscoped => scope[c] \in admitted[c]
                      /\ (answer[c].session # None \/ op[c] \in Compared) =>
                           answer[c].workspace = scope[c]
                      /\ answer[c].session # None => home[answer[c].session] = scope[c]
    OBVIOUS
  <2>1. Settle(c) /\ Passes(c)
    BY <1>1, SettlesBySettle DEF Result
  <2>2. op[c] \notin Unscoped => scope[c] \in admitted[c]
    BY <1>1, <2>1 DEF Settle, Inv, CallsAdmitted
  <2>3. answer[c].session # None => SessionVerified(c)
    BY <2>1 DEF Passes
  <2> QED
    BY <2>1, <2>2, <2>3 DEF Passes, SessionVerified
<1>2. MiddlewareSpec => []Inv
  BY InvInit, NextKeeps, PTL DEF MiddlewareSpec
<1>3. UNCHANGED allvars => UNCHANGED vars
  BY DEF allvars
<1> QED
  BY <1>1, <1>2, <1>3, PTL DEF MiddlewareSpec, AnswersInScope

\* No operation that began after the host closed a workspace ends a session of it
\* (binding.workspace and tokens.Verify, before every delegate call).
THEOREM BindingLeavesClosedWorkspaces == MiddlewareSpec => ClosedWorkspacesUntouched
<1> DEFINE Held ==
      \A n \in live \ live' :
        \/ EndSession(n)
        \/ \E c \in Call : /\ pc[c] = "delegate" /\ pc'[c] # "delegate"
                           /\ home[n] \in admitted[c]
<1>1. ASSUME Inv, [MiddlewareNext]_allvars PROVE Held
  <2> SUFFICES ASSUME NEW n \in live, n \notin live'
               PROVE  \/ EndSession(n)
                      \/ \E c \in Call : /\ pc[c] = "delegate" /\ pc'[c] # "delegate"
                                         /\ home[n] \in admitted[c]
    OBVIOUS
  <2>1. CASE Environment
    <3>1. PICK m \in live : EndSession(m)
      BY <2>1 DEF Environment, WithdrawAccess, KeysComeAndGo, CloseWorkspace
    <3>2. n = m
      BY <3>1 DEF EndSession
    <3> QED
      BY <3>1, <3>2
  <2>2. ASSUME NEW c \in Call, Step(c)
        PROVE  /\ pc[c] = "delegate" /\ pc'[c] # "delegate"
               /\ home[n] \in admitted[c]
    <3>1. Serve(c)
      BY <2>2 DEF Step, Verify, VerifyFails, Fail, Settle, world
    <3>2. pc[c] = "delegate" /\ pc'[c] # "delegate"
      BY <1>1, <3>1 DEF Serve, Issue, Read, Answered, Return, Inv, RequestsTyped, TypeOK
    <3>3. n \in Ended(c)
      BY <3>1 DEF Serve, Issue, Read
    <3>4. op[c] \in Ending \union {"reset"}
      BY <3>3 DEF Ended
    <3>5. home[n] = scope[c]
      BY <3>1, <3>3, <3>4 DEF Ended, Serve, Honours
    <3>6. scope[c] \in admitted[c]
      BY <1>1, <3>2, <3>4
      DEF Inv, CallsAdmitted, Ending, Rotating, Unscoped
    <3> QED
      BY <3>2, <3>5, <3>6
  <2>3. CASE UNCHANGED world
    BY <2>3 DEF world
  <2> QED
    BY <1>1, <2>1, <2>2, <2>3, StepKinds
<1>2. MiddlewareSpec => []Inv
  BY InvInit, NextKeeps, PTL DEF MiddlewareSpec
<1>3. UNCHANGED allvars => UNCHANGED vars
  BY DEF allvars
<1> QED
  BY <1>1, <1>2, <1>3, PTL DEF MiddlewareSpec, ClosedWorkspacesUntouched

----------------------------------------------------------------------------
(* The middleware implements the gate.                                     *)

\* The gate's variables, as the refinement mapping of HTTPMiddleware gives them.
AllowedNow == {r \in Request : granted /\ credential[r] \in live}
PhaseNow == [r \in Request |-> Phase(r)]
ClearedNow == {r \in Request : stage[r] = "reauthorizing" /\ Allowance(r)}

\* Steps that leave the requests and what they were answered alone are changes of
\* access to the gate.
LEMMA AccessChangesOnly ==
  ASSUME PhaseNow' = PhaseNow, ClearedNow' = ClearedNow
  PROVE  Gate!AccessChanges
  BY DEF Gate!AccessChanges, AllowedNow, PhaseNow, ClearedNow

\* A step of the call of a request that is reauthorizing clears it at a moment when its
\* access is allowed, or leaves the gate alone; of any other call, too.
LEMMA StepMapped ==
  ASSUME Inv, NEW c \in Call, Step(c), UNCHANGED requests
  PROVE  Gate!Next
<1> USE DEF requests
<1>0. PhaseNow' = PhaseNow
  BY DEF PhaseNow, Phase
<1>t. /\ pc \in [Call -> {"idle", "verify", "delegate", "answered"}]
      /\ answer \in [Call -> Answer \union {None}]
      /\ result \in [Call -> Result]
      /\ Request \subseteq Call
  BY MiddlewareAssumption DEF Inv, RequestsTyped, TypeOK
<1>1. \A d \in Call : d # c => pc'[d] = pc[d] /\ answer'[d] = answer[d] /\ result'[d] = result[d]
  <2>1. CASE Verify(c)
    BY <1>t, <2>1 DEF Verify
  <2>2. CASE VerifyFails(c) \/ Fail(c) \/ Settle(c)
    BY <1>t, <2>2 DEF VerifyFails, Fail, Settle, Return
  <2>3. CASE Serve(c)
    BY <1>t, <2>3 DEF Serve, Issue, Read, Answered, Return
  <2> QED
    BY <2>1, <2>2, <2>3 DEF Step
<1>2. ASSUME (c \in Request /\ stage[c] = "reauthorizing") => (Allowance(c)' <=> Allowance(c))
      PROVE  Gate!Next
  <2>1. ClearedNow' = ClearedNow
    BY <1>t, <1>1, <1>2 DEF ClearedNow, Allowance
  <2> QED
    BY <1>0, <2>1, AccessChangesOnly DEF Gate!Next
<1>3. ASSUME c \in Request, stage[c] = "reauthorizing"
      PROVE  Gate!Next
  <2>0. pc[c] # "idle" /\ op[c] = "reauthorize" /\ token[c] = credential[c]
    BY <1>3 DEF Inv, RequestsWait, Step, Verify, VerifyFails, Serve, Fail, Settle
  <2>1. CASE Verify(c)
    BY <1>2, <1>t, <2>1 DEF Verify, Allowance
  <2>2. CASE VerifyFails(c) \/ Fail(c)
    BY <1>2, <1>t, <2>2 DEF VerifyFails, Fail, Return, Allowance
  <2>3. CASE Settle(c)
    <3>1. Passes(c)
      BY <2>0, <2>3
      DEF Settle, Passes, Inv, CallsFormed, Issuing, Rotating, Compared
    <3>2. pc[c] = "answered" /\ pc'[c] = "idle"
          /\ result'[c] = IF answer[c].allowed THEN "ok" ELSE "denied"
      BY <1>t, <2>3, <3>1 DEF Settle, Return
    <3> QED
      BY <1>2, <3>2 DEF Allowance
  <2>4. CASE Serve(c)
    <3>1. PICK claim \in Workspace : Read(c, claim)
      BY <2>0, <2>4 DEF Serve, Issue, Issuing, Rotating
    <3>2. pc[c] = "delegate" /\ ~Allowance(c) /\ granted' = granted
      BY <2>4 DEF Serve, Allowance
    <3>3. live' = live
      BY <2>0, <3>1 DEF Read, Ended, Ending, Rotating
    <3>4. CASE Return(c, "error")
      BY <1>2, <1>t, <3>2, <3>4 DEF Return, Allowance
    <3>5. CASE ~Return(c, "error")
      <4> DEFINE a == [session |-> None, workspace |-> claim,
                       allowed |-> op[c] = "reauthorize" => granted /\ token[c] \in live]
      <4>1. /\ pc' = [pc EXCEPT ![c] = "answered"]
            /\ answer' = [answer EXCEPT ![c] = a]
        BY <3>1, <3>5 DEF Read, Answered
      <4>2. pc'[c] = "answered" /\ answer'[c] = a
        BY <1>t, <4>1
      <4>6. a.allowed = (op[c] = "reauthorize" => granted /\ token[c] \in live)
        OBVIOUS
      <4>7. answer'[c].allowed <=> (granted /\ token[c] \in live)
        BY <2>0, <4>2, <4>6, Zenon
      <4>3. Allowance(c)' <=> (granted /\ credential[c] \in live)
        BY <2>0, <4>2, <4>7 DEF Allowance
      <4>4. CASE granted /\ credential[c] \in live
        <5>1. /\ AllowedNow' = AllowedNow /\ c \in AllowedNow
              /\ ClearedNow' = ClearedNow \union {c}
              /\ PhaseNow[c] = "waiting"
          <6>1. AllowedNow' = AllowedNow /\ c \in AllowedNow
            BY <1>3, <3>2, <3>3, <4>4 DEF AllowedNow
          <6>2. ClearedNow' = ClearedNow \union {c}
            BY <1>3, <1>t, <1>1, <4>3, <4>4 DEF ClearedNow, Allowance
          <6>3. PhaseNow[c] = "waiting"
            BY <1>3 DEF PhaseNow, Phase, Inv, RequestsWait
          <6> QED
            BY <6>1, <6>2, <6>3
        <5>2. Gate!Clear(c)
          BY <1>0, <5>1 DEF Gate!Clear, AllowedNow, PhaseNow, ClearedNow
        <5> QED
          BY <1>3, <5>2 DEF Gate!Next
      <4>5. CASE ~(granted /\ credential[c] \in live)
        BY <1>2, <3>2, <4>3, <4>5
      <4> QED
        BY <4>4, <4>5
    <3> QED
      BY <3>4, <3>5
  <2> QED
    BY <2>1, <2>2, <2>3, <2>4 DEF Step
<1> QED
  BY <1>2, <1>3

\* A request's own step is a step of the gate, if its route requires reauthorization.
LEMMA HandleMapped ==
  ASSUME Inv, NEW r \in Request, Handle(r)
  PROVE  Gate!Next
<1>t. /\ stage \in [Request -> {"idle", "arrived", "authenticated", "reauthorizing",
                                "running", "refused"}]
      /\ guards \in [Request -> SUBSET Guard]
      /\ pc \in [Call -> {"idle", "verify", "delegate", "answered"}]
      /\ answer \in [Call -> Answer \union {None}]
      /\ result \in [Call -> Result]
      /\ Request \subseteq Call
  BY MiddlewareAssumption DEF Inv, RequestsTyped, TypeOK
<1>0. stage[r] = "reauthorizing" => "reauthorize" \in guards[r]
  BY DEF Inv, RequestsWait
<1>1. \A d \in Request : d # r =>
        /\ stage'[d] = stage[d] /\ guards'[d] = guards[d]
        /\ pc'[d] = pc[d] /\ answer'[d] = answer[d] /\ result'[d] = result[d]
  <2>1. CASE Reauthorize(r)
    BY <1>t, <2>1 DEF Reauthorize, GoTo, Begin, Return
  <2>2. CASE ~Reauthorize(r)
    BY <1>t, <2>2
    DEF Handle, Arrive, KeepIdentity, Authenticate, AuthenticateFails, Unauthenticated, RefuseLocally,
        RunHandler, ReauthorizationUnavailable, Decide, Finish, GoTo, vars, locals
  <2> QED
    BY <2>1, <2>2
<1>2. \A d \in Request : d # r => Phase(d)' = Phase(d) /\ (Allowance(d)' <=> Allowance(d))
  BY <1>1 DEF Phase, Allowance
<1>3. \A q : Phase(r)' = q => PhaseNow' = [PhaseNow EXCEPT ![r] = q]
  BY <1>2 DEF PhaseNow
<1>4. AllowedNow' \subseteq Request
  BY DEF AllowedNow
\* Where the gate does not see the request, it is left alone.
<1>5. ASSUME Phase(r)' = Phase(r), stage'[r] # "reauthorizing", stage[r] # "reauthorizing"
      PROVE  Gate!Next
  <2>1. PhaseNow' = PhaseNow
    BY <1>3, <1>5 DEF PhaseNow
  <2>2. ClearedNow' = ClearedNow
    BY <1>1, <1>2, <1>5 DEF ClearedNow
  <2> QED
    BY <2>1, <2>2, AccessChangesOnly DEF Gate!Next
<1>6. ASSUME stage[r] \in {"arrived", "authenticated"}, stage' = [stage EXCEPT ![r] = "refused"],
             UNCHANGED <<vars, guards, credential>>
      PROVE  Gate!Next
  <2>1. CASE "reauthorize" \notin guards[r]
    BY <1>5, <1>6, <1>t, <2>1 DEF Phase
  <2>2. CASE "reauthorize" \in guards[r]
    <3>1. Phase(r) = "waiting" /\ Phase(r)' = "refused"
      BY <1>6, <1>t, <2>2 DEF Phase
    <3>2. r \notin ClearedNow /\ ClearedNow' = ClearedNow /\ AllowedNow' = AllowedNow
      BY <1>1, <1>2, <1>6, <1>t DEF ClearedNow, AllowedNow, vars, world
    <3>3. Gate!Refuse(r)
      BY <1>3, <3>1, <3>2
      DEF Gate!Refuse, Gate!GoTo, AllowedNow, PhaseNow, ClearedNow
    <3> QED
      BY <3>3 DEF Gate!Next
  <2> QED
    BY <2>1, <2>2
<1>7. ASSUME NEW wrapped \in Routes, NEW n \in 1..Len(home) \union {None},
             NEW known \in Identity \union {None}, Arrive(r, wrapped, n, known)
      PROVE  Gate!Next
  <2>1. /\ stage[r] = "idle" /\ stage' = [stage EXCEPT ![r] = "arrived"]
        /\ guards' = [guards EXCEPT ![r] = wrapped]
    BY <1>7 DEF Arrive, GoTo
  <2>2. Phase(r) = "idle"
    BY <2>1 DEF Phase
  <2>3. CASE "reauthorize" \notin wrapped
    BY <1>5, <1>t, <2>1, <2>2, <2>3 DEF Phase
  <2>4. CASE "reauthorize" \in wrapped
    <3>1. Phase(r)' = "waiting"
      BY <1>t, <2>1, <2>4 DEF Phase
    <3>2. ClearedNow' = ClearedNow
      BY <1>1, <1>2, <1>t, <2>1 DEF ClearedNow
    <3>3. Gate!Arrive(r)
      BY <1>3, <1>4, <2>2, <3>1, <3>2
      DEF Gate!Arrive, Gate!GoTo, AllowedNow, PhaseNow, ClearedNow
    <3> QED
      BY <3>3 DEF Gate!Next
  <2> QED
    BY <2>3, <2>4
<1>8. CASE KeepIdentity(r) \/ Authenticate(r) \/ Unauthenticated(r)
  <2>1. /\ stage[r] = "arrived" /\ stage' = [stage EXCEPT ![r] = "authenticated"]
        /\ UNCHANGED <<vars, guards>>
    BY <1>8 DEF KeepIdentity, Authenticate, Unauthenticated, GoTo
  <2>2. Phase(r)' = Phase(r)
    BY <1>t, <2>1 DEF Phase
  <2> QED
    BY <1>5, <1>t, <2>1, <2>2
<1>9. CASE AuthenticateFails(r) \/ RefuseLocally(r) \/ ReauthorizationUnavailable(r)
  BY <1>6, <1>9 DEF AuthenticateFails, RefuseLocally, ReauthorizationUnavailable, GoTo
<1>10. CASE RunHandler(r)
  <2>1. /\ stage[r] = "authenticated" /\ "reauthorize" \notin guards[r]
        /\ stage' = [stage EXCEPT ![r] = "running"] /\ guards' = guards
    BY <1>10 DEF RunHandler, GoTo
  <2> QED
    BY <1>5, <1>t, <2>1 DEF Phase
<1>11. CASE Reauthorize(r)
  <2>1. /\ stage[r] = "authenticated" /\ stage' = [stage EXCEPT ![r] = "reauthorizing"]
        /\ guards' = guards
        /\ Begin(r, "reauthorize", credential[r], None, None, FALSE)
    BY <1>11 DEF Reauthorize, GoTo
  <2>2. ~Allowance(r)'
    <3>1. result'[r] = "error" /\ pc'[r] # "answered"
      BY <1>t, <2>1 DEF Begin, Return
    <3> QED
      BY <3>1 DEF Allowance
  <2>3. Phase(r)' = Phase(r)
    BY <1>t, <2>1 DEF Phase
  <2>4. PhaseNow' = PhaseNow
    BY <1>3, <2>3 DEF PhaseNow
  <2>5. ClearedNow' = ClearedNow
    BY <1>1, <1>2, <2>1, <2>2 DEF ClearedNow
  <2> QED
    BY <2>4, <2>5, AccessChangesOnly DEF Gate!Next
<1>12. CASE Decide(r)
  <2>1. /\ stage[r] = "reauthorizing" /\ pc[r] = "idle"
        /\ stage' = [stage EXCEPT ![r] = IF result[r] = "ok" THEN "running" ELSE "refused"]
        /\ UNCHANGED <<vars, guards, credential>>
    BY <1>12 DEF Decide, GoTo
  <2>2. /\ Phase(r) = "waiting"
        /\ Phase(r)' = IF result[r] = "ok" THEN "running" ELSE "refused"
    BY <1>0, <1>t, <2>1 DEF Phase
  <2>3. r \in ClearedNow <=> result[r] = "ok"
    BY <2>1 DEF ClearedNow, Allowance
  <2>4. ClearedNow' = ClearedNow \ {r} /\ AllowedNow' = AllowedNow
    BY <1>1, <1>2, <1>t, <2>1 DEF ClearedNow, AllowedNow, vars, world
  <2>5. CASE result[r] = "ok"
    <3>1. Gate!Run(r)
      BY <1>3, <2>2, <2>3, <2>4, <2>5
      DEF Gate!Run, Gate!GoTo, AllowedNow, PhaseNow, ClearedNow
    <3> QED
      BY <3>1 DEF Gate!Next
  <2>6. CASE result[r] # "ok"
    <3>1. Gate!Refuse(r)
      BY <1>3, <2>2, <2>4, <2>6
      DEF Gate!Refuse, Gate!GoTo, AllowedNow, PhaseNow, ClearedNow
    <3> QED
      BY <3>1 DEF Gate!Next
  <2> QED
    BY <2>5, <2>6
<1>13. CASE Finish(r)
  <2>1. /\ stage[r] \in {"running", "refused"} /\ stage' = [stage EXCEPT ![r] = "idle"]
        /\ guards' = [guards EXCEPT ![r] = {}]
    BY <1>13 DEF Finish, GoTo
  <2>2. Phase(r)' = "idle"
    BY <1>t, <2>1 DEF Phase
  <2>3. CASE "reauthorize" \notin guards[r]
    BY <1>5, <1>t, <2>1, <2>2, <2>3 DEF Phase
  <2>4. CASE "reauthorize" \in guards[r]
    <3>1. Phase(r) \in {"running", "refused"}
      BY <2>1, <2>4 DEF Phase
    <3>2. ClearedNow' = ClearedNow
      BY <1>1, <1>2, <1>t, <2>1 DEF ClearedNow
    <3>3. Gate!Leave(r)
      BY <1>3, <1>4, <2>2, <3>1, <3>2
      DEF Gate!Leave, Gate!GoTo, AllowedNow, PhaseNow, ClearedNow
    <3> QED
      BY <3>3 DEF Gate!Next
  <2> QED
    BY <2>3, <2>4
<1> QED
  BY <1>7, <1>8, <1>9, <1>10, <1>11, <1>12, <1>13 DEF Handle

\* The middleware implements the gate: a handler behind RequireReauthorization runs only
\* if its request's session was in force and its access granted at some moment since the
\* request arrived, for any requests, routes and interleaving of other calls.
THEOREM MiddlewareImplementsGate == MiddlewareSpec => GateHolds
<1>1. MiddlewareInit => Gate!Init
  BY DEF MiddlewareInit, Gate!Init, Phase
<1>2. ASSUME Inv, [MiddlewareNext]_allvars
      PROVE  [Gate!Next]_(Gate!vars)
  <2>1. CASE UNCHANGED allvars
    <3>1. UNCHANGED Gate!vars
      BY <2>1 DEF allvars, vars, world, locals, requests, Gate!vars, Phase, Allowance
    <3> QED
      BY <3>1
  <2>2. CASE \E r \in Request : Handle(r)
    BY <1>2, <2>2, HandleMapped
  <2>3. ASSUME NEW c \in Call, Step(c), UNCHANGED requests
        PROVE  Gate!Next
    BY <1>2, <2>3, StepMapped
  <2>4. CASE Environment /\ UNCHANGED requests
    <3>1. UNCHANGED <<locals, requests>>
      BY <1>2, <2>4, EnvironmentKeeps
    <3>2. PhaseNow' = PhaseNow /\ ClearedNow' = ClearedNow
      BY <3>1 DEF locals, requests, PhaseNow, Phase, ClearedNow, Allowance
    <3> QED
      BY <3>2, AccessChangesOnly DEF Gate!Next
  <2>5. ASSUME NEW c \in Call, NEW o \in Ops, c \in Request => stage[c] = "idle",
               Start(c, o), UNCHANGED requests
        PROVE  Gate!Next
    <3>1. \A d \in Call : d # c =>
            pc'[d] = pc[d] /\ answer'[d] = answer[d] /\ result'[d] = result[d]
      BY <1>2, <2>5 DEF Start, Begin, Return, Inv, RequestsTyped, TypeOK
    <3>2. PhaseNow' = PhaseNow
      BY <2>5 DEF requests, PhaseNow, Phase
    <3>3. ClearedNow' = ClearedNow
      BY <2>5, <3>1, MiddlewareAssumption DEF requests, ClearedNow, Allowance
    <3> QED
      BY <3>2, <3>3, AccessChangesOnly DEF Gate!Next
  <2> QED
    BY <1>2, <2>1, <2>2, <2>3, <2>4, <2>5 DEF MiddlewareNext, BindingNext
<1>3. MiddlewareSpec => []Inv
  BY InvInit, NextKeeps, PTL DEF MiddlewareSpec
<1> QED
  BY <1>1, <1>2, <1>3, PTL DEF MiddlewareSpec, GateHolds, Gate!Spec

=============================================================================
