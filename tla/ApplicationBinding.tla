------------------------- MODULE ApplicationBinding -------------------------
(***************************************************************************)
(* The binding that scopes an Identity implementation to one application   *)
(* (package application).  An operation checks its scope, calls the        *)
(* delegate, and verifies what the delegate answered; between these steps  *)
(* sessions end, the host closes workspaces and other calls go on.  The    *)
(* delegate may fail before or after it acted, or answer out of scope.     *)
(*                                                                         *)
(* Subjects, providers and payloads are left out: a session is its number, *)
(* which stands for its access token and its refresh credential, and an    *)
(* answer is the scope it claims.                                          *)
(***************************************************************************)
EXTENDS Integers, Sequences

CONSTANTS
  Call,        \* operations in progress
  Workspace,   \* workspace identifiers
  Bound,       \* the workspace of the binding's ApplicationRef
  Alias,       \* other names a host's WorkspaceResolver knows
  Target,      \* the workspace each alias stands for
  Misanswers,  \* may the delegate answer out of scope
  MaxIssued,   \* bound on the sessions issued
  Ops,         \* the operations callers use
  Elsewhere,   \* the scope of tokens for other applications
  None         \* no workspace, session or answer

ASSUME BindingAssumption ==
  /\ Bound \in Workspace
  /\ Target \in [Alias -> Workspace]
  /\ Alias \intersect Workspace = {}
  /\ Misanswers \in BOOLEAN /\ MaxIssued \in Nat
  /\ Elsewhere \notin Workspace
  /\ None \notin Workspace \union Alias \union Nat

\* The operations, by how they are scoped: by a name the host's resolver translates;
\* by the workspace and, if keyed, the application they name; by the request's own;
\* by the workspace of their access token; by both; not at all.  "login" and "otp"
\* are also the forms that may answer with a challenge, "register" is what registers,
\* reconciles or binds workloads for an application, "assure" verifies or validates a receipt,
\* "change" and "reset" are of passwords ("reset" also revokes sessions), "access"
\* resolves an access bundle, "callback" completes a federated login, "service" is of
\* service tokens.
Resolving == {"login", "beginLogin", "providers"}
OfSessions == {"otp", "exchange", "refresh", "logout"}
ForApplication == {"register"}
Assuring == {"beginAssure", "assure"}
OfSubjects == {"subject"}
Scoped == OfSessions \union ForApplication \union Assuring \union OfSubjects
Keyed == {"login", "beginLogin", "exchange", "refresh", "logout", "register", "service"}
Ambient == {"principal", "lookup"}
ByToken == {"current", "change", "access", "reauthorize", "totp"}
ByTokenAndScope == {"reset"}
Unscoped == {"callback", "service"}
Operation == Resolving \union Scoped \union Ambient \union ByToken
             \union ByTokenAndScope \union Unscoped

ASSUME OperationsAssumption == Ops \subseteq Operation

\* The operations that answer with a new session, that put the presented one out of
\* force, and whose answer names a workspace to compare.
Rotating == {"refresh", "change"}
Issuing == {"login", "otp", "exchange"} \union Rotating
Ending == Rotating \union {"logout"}
Compared == {"current", "principal", "assure"}

\* The operations that present a session's token or credential.
Presenting == Ending \union ByToken \union ByTokenAndScope

VARIABLES
  resolving,  \* was the binding made by BindWithWorkspaceResolver
  open,       \* the workspaces the host's resolver accepts
  home,       \* Identity: the workspace each session's token is for
  live,       \* Identity: the sessions in force
  granted,    \* Identity: would it allow the access that is asked for
  keys,       \* can access tokens be verified
  pc,         \* where each call stands
  op,         \* its operation
  scope,      \* the workspace it is scoped to
  token,      \* the session whose token or credential it presents
  answer,     \* what the delegate answered
  result,     \* what the last operation of each call returned
  admitted    \* history: the workspaces open when the call began

world == <<resolving, open, home, live, granted, keys>>
locals == <<pc, op, scope, token, answer, result, admitted>>
vars == <<world, locals>>

Answer ==
  [session : 1..MaxIssued \union {None}, workspace : Workspace, allowed : BOOLEAN]

\* An error, or the answer: of a decision, that it denies the access or allows it.
Result == {"error", "denied", "ok"}

Init ==
  /\ resolving \in BOOLEAN
  /\ open = Workspace
  /\ home = <<>>
  /\ live = {}
  /\ granted = TRUE
  /\ keys = TRUE
  /\ pc = [c \in Call |-> "idle"]
  /\ op = [c \in Call |-> "lookup"]
  /\ scope = [c \in Call |-> Bound]
  /\ token = [c \in Call |-> None]
  /\ answer = [c \in Call |-> None]
  /\ result = [c \in Call |-> "error"]
  /\ admitted = [c \in Call |-> {}]

----------------------------------------------------------------------------
(* Scopes.                                                                 *)

\* Mutant: with a resolver, a workspace identifier is taken as it is.
InScopeUnresolved(w) == IF resolving THEN w \in Workspace ELSE w = Bound

\* binding.workspace accepts w as it is: with a resolver, one that resolves to itself.
InScope(w) == IF resolving THEN w \in open ELSE w = Bound

\* What binding.workspace makes of an input.
Accepted(input) ==
  IF input = None THEN IF resolving THEN {} ELSE {Bound}
  ELSE {w \in Workspace : w = input /\ InScope(w)}

\* The workspaces an operation may be scoped to, given the one it names and the
\* request context's: a resolver is not given the context's, and a subject's
\* workspace must be named.
ScopesFor(o, name, context) ==
  LET input == IF o \in Ambient \/ name = None THEN context ELSE name IN
  IF o \in Resolving /\ resolving
  THEN {w \in open : name = w \/ (name \in Alias /\ Target[name] = w)}
  ELSE IF o \in OfSubjects /\ name = None THEN {} ELSE Accepted(input)

----------------------------------------------------------------------------
(* The Identity service and the host.                                      *)

EndSession(n) ==
  /\ n \in live
  /\ live' = live \ {n}
  /\ UNCHANGED <<resolving, open, home, granted, keys, locals>>

WithdrawAccess ==
  /\ granted
  /\ granted' = FALSE
  /\ UNCHANGED <<resolving, open, home, live, keys, locals>>

KeysComeAndGo ==
  /\ keys' = ~keys
  /\ UNCHANGED <<resolving, open, home, live, granted, locals>>

CloseWorkspace(w) ==
  /\ resolving /\ w \in open
  /\ open' = open \ {w}
  /\ UNCHANGED <<resolving, home, live, granted, keys, locals>>

----------------------------------------------------------------------------
(* An operation.                                                           *)

\* The operation returns; nothing of it is left but its result.
Return(c, r) ==
  /\ pc' = [pc EXCEPT ![c] = "idle"]
  /\ op' = [op EXCEPT ![c] = "lookup"]
  /\ scope' = [scope EXCEPT ![c] = Bound]
  /\ token' = [token EXCEPT ![c] = None]
  /\ answer' = [answer EXCEPT ![c] = None]
  /\ result' = [result EXCEPT ![c] = r]
  /\ admitted' = [admitted EXCEPT ![c] = {}]

\* The operation begins, and is refused at once or goes on: to the delegate, or to
\* the verification of its access token.
Begin(c, o, t, name, context, foreign) ==
  LET scopes == ScopesFor(o, name, context)
      refused == \/ o \in Keyed /\ foreign
                 \/ o \notin ByToken \union Unscoped /\ scopes = {}
  IN
  /\ pc[c] = "idle"
  /\ \/ refused /\ Return(c, "error")
     \/ /\ ~refused
        /\ pc' = [pc EXCEPT ![c] = IF o \in ByToken \union ByTokenAndScope
                                   THEN "verify" ELSE "delegate"]
        /\ op' = [op EXCEPT ![c] = o]
        /\ IF o \in ByToken \union Unscoped THEN UNCHANGED scope
           ELSE \E w \in scopes : scope' = [scope EXCEPT ![c] = w]
        /\ token' = [token EXCEPT ![c] = t]
        /\ result' = [result EXCEPT ![c] = "error"]
        /\ admitted' = [admitted EXCEPT ![c] = IF resolving THEN open ELSE {Bound}]
        /\ UNCHANGED answer
  /\ UNCHANGED world

\* Mutant: a token is taken whatever application it is for.
TokenOfAnyApplication(n) == home[n] = Elsewhere \/ InScope(home[n])

\* tokens.Verify: the delegate's verification, then the token's own scope.
TokenInScope(n) == home[n] # Elsewhere /\ InScope(home[n])

Verify(c) ==
  /\ pc[c] = "verify"
  /\ keys
  /\ TokenInScope(token[c])
  /\ op[c] \in ByTokenAndScope => InScope(scope[c])
  /\ pc' = [pc EXCEPT ![c] = "delegate"]
  /\ scope' = [scope EXCEPT ![c] = IF op[c] \in ByToken THEN home[token[c]] ELSE @]
  /\ UNCHANGED <<world, op, token, answer, result, admitted>>

\* The token is out of scope, expired or not one, or cannot be verified.
VerifyFails(c) ==
  /\ pc[c] = "verify"
  /\ Return(c, "error")
  /\ UNCHANGED world

----------------------------------------------------------------------------
(* The delegate.                                                           *)

\* The sessions an operation puts out of force when Identity carries it out.
Ended(c) ==
  IF op[c] \in Ending THEN {token[c]}
  ELSE {n \in live : op[c] = "reset" /\ home[n] = scope[c]}

\* Identity honours a credential in force, in the workspace it was issued for.
Honours(c) == token[c] \in live /\ home[token[c]] = scope[c]

\* The answer arrives or is lost.
Answered(c, a) ==
  \/ /\ pc' = [pc EXCEPT ![c] = "answered"]
     /\ answer' = [answer EXCEPT ![c] = a]
     /\ UNCHANGED <<op, scope, token, result, admitted>>
  \/ Return(c, "error")

\* A session comes of the operation; unless Identity misanswers, in its scope.
Issue(c, claim, place) ==
  /\ op[c] \in Issuing /\ Len(home) < MaxIssued
  /\ ~Misanswers => claim = scope[c] /\ place = scope[c]
  /\ home' = Append(home, place)
  /\ live' = (live \ Ended(c)) \union {Len(home')}
  /\ Answered(c, [session |-> Len(home'), workspace |-> claim, allowed |-> TRUE])

\* None does: for a login or an OTP, a challenge is answered.
Read(c, claim) ==
  /\ op[c] \notin Rotating
  /\ ~Misanswers => claim = scope[c]
  /\ live' = live \ Ended(c)
  /\ Answered(c, [session |-> None, workspace |-> claim,
                  allowed |-> op[c] = "reauthorize" => granted /\ token[c] \in live])
  /\ UNCHANGED home

\* Identity carries the operation out.
Serve(c) ==
  /\ pc[c] = "delegate"
  /\ op[c] \in Ending \union {"current"} => Honours(c)
  /\ \E claim \in Workspace :
       \/ \E place \in Workspace \union {Elsewhere} : Issue(c, claim, place)
       \/ Read(c, claim)
  /\ UNCHANGED <<resolving, open, granted, keys>>

\* The delegate returns an error without having acted.
Fail(c) ==
  /\ pc[c] = "delegate"
  /\ Return(c, "error")
  /\ UNCHANGED world

----------------------------------------------------------------------------
(* What the binding makes of the answer.                                   *)

\* Mutant: a session is accepted on its own word, without its token.
SessionClaimed(c) == answer[c].workspace = scope[c]

\* What verifySession asks of a session whose token can be verified.
SessionVerified(c) ==
  LET n == answer[c].session IN
  /\ answer[c].workspace = scope[c]
  /\ TokenInScope(n) /\ home[n] = scope[c]

\* The comparisons of CurrentSession, principals.Resolve and validateReceipt; other
\* answers are passed on.
Passes(c) ==
  IF answer[c].session # None THEN keys /\ SessionVerified(c)
  ELSE op[c] \in Compared => answer[c].workspace = scope[c]

Settle(c) ==
  /\ pc[c] = "answered"
  /\ Return(c, IF ~Passes(c) THEN "error"
               ELSE IF answer[c].allowed THEN "ok" ELSE "denied")
  /\ UNCHANGED world

Step(c) ==
  \/ Verify(c) \/ VerifyFails(c)
  \/ Serve(c) \/ Fail(c) \/ Settle(c)

\* Callers name a workspace, an alias or nothing, leaving it to the request's context,
\* and present any session's token.
Input == Workspace \union Alias \union {None}

Start(c, o) ==
  \E t \in 1..Len(home) \union {None}, name \in Input,
     context \in Workspace \union {None}, foreign \in BOOLEAN :
    /\ t # None <=> o \in Presenting
    /\ name # None => context = None
    /\ Begin(c, o, t, name, context, foreign)

Environment ==
  \/ \E n \in live : EndSession(n)
  \/ WithdrawAccess \/ KeysComeAndGo
  \/ \E w \in Workspace : CloseWorkspace(w)

Next ==
  \/ Environment
  \/ \E c \in Call : Step(c) \/ \E o \in Ops : Start(c, o)

Spec == Init /\ [][Next]_vars

----------------------------------------------------------------------------
Session == 1..Len(home)

\* Calls know only sessions that Identity issued and workspaces, never an alias: what
\* the host's resolver translates is translated before it is kept (binding.workspace).
TypeOK ==
  /\ resolving \in BOOLEAN /\ open \subseteq Workspace
  /\ granted \in BOOLEAN /\ keys \in BOOLEAN
  /\ home \in Seq(Workspace \union {Elsewhere})
  /\ Len(home) <= MaxIssued /\ live \subseteq Session
  /\ pc \in [Call -> {"idle", "verify", "delegate", "answered"}]
  /\ op \in [Call -> Operation]
  /\ scope \in [Call -> Workspace]
  /\ token \in [Call -> Session \union {None}]
  /\ answer \in [Call -> Answer \union {None}]
  /\ result \in [Call -> Result]
  /\ admitted \in [Call -> SUBSET Workspace]

Settles(c, r) == pc[c] = "answered" /\ pc'[c] = "idle" /\ result'[c] = r

\* A session, a session view, a principal or a receipt returned without an error
\* belongs to the workspace the operation was scoped to, which the host accepted when
\* it began, and a session's token is for the bound application, whatever the
\* delegate answered.
AnswersInScope ==
  [][\A c \in Call : Settles(c, "ok") =>
       LET n == answer[c].session IN
       /\ op[c] \notin Unscoped => scope[c] \in admitted[c]
       /\ (n # None \/ op[c] \in Compared) => answer[c].workspace = scope[c]
       /\ n # None => home[n] = scope[c]]_vars

\* No operation that began after the host closed a workspace ends a session of it.
ClosedWorkspacesUntouched ==
  [][\A n \in live \ live' :
       \/ EndSession(n)
       \/ \E c \in Call : /\ pc[c] = "delegate" /\ pc'[c] # "delegate"
                          /\ home[n] \in admitted[c]]_vars

=============================================================================
