------------------------ MODULE BrowserSessionProofs ------------------------
(***************************************************************************)
(* Proofs about BrowserSession: type correctness, that refreshes share one *)
(* exchange at a time, and what becomes of the cookie: a rotated credential*)
(* is presented again only after a loss, a live one dropped only for cause.*)
(***************************************************************************)
EXTENDS BrowserSession, TLAPS

\* TypeOK in parts: the credentials Identity keeps, what the browser keeps of them,
\* and the calls.
Known == 1..issued \union {None}

CredentialsOK ==
  /\ issued \in 0..MaxIssued
  /\ family \in [Credential -> Credential \union {None}]
  /\ \A n \in Credential : IF n <= issued THEN family[n] \in 1..issued ELSE family[n] = None
  /\ superseded \subseteq 1..issued /\ revoked \subseteq 1..issued

Request == [endpoint : {"refresh", "logout", "change"}, carries : 1..issued]

BrowserOK ==
  /\ cookie \in Known
  /\ lock \in Call \union {None}
  /\ accessToken \in [Tab -> Known]
  /\ refreshInFlight \in [Tab -> Call \union {None}]

CallsOK ==
  /\ call \in [Call -> Progress]
  /\ \A c \in Call : /\ call[c].presented \in Known /\ call[c].bearer \in Known
                     /\ call[c].answer.session \in Known

\* The type invariant in its parts.
LEMMA TypeParts ==
  TypeOK <=> /\ CredentialsOK /\ BrowserOK /\ CallsOK
             /\ excused \subseteq superseded /\ orphans \subseteq Request
  BY DEF TypeOK, CredentialsOK, BrowserOK, CallsOK, Known, Request

\* What Identity does keeps its own types, and forgets no credential.
Grows ==
  /\ CredentialsOK'
  /\ issued <= issued' /\ superseded \subseteq superseded'
  /\ 1..issued \subseteq 1..issued'

\* Identity that does nothing keeps the credentials it has.
LEMMA NoChangeGrows == ASSUME CredentialsOK, NoChange PROVE Grows /\ issued' = issued
  BY DEF CredentialsOK, NoChange, credentials, Grows

\* A new credential of a family that exists, or of its own.
LEMMA IssueGrows ==
  ASSUME CredentialsOK, NEW f \in Known, Issue(f),
         superseded' \subseteq 1..issued', revoked' \subseteq 1..issued',
         superseded \subseteq superseded'
  PROVE  Grows /\ issued' \in 1..issued' /\ issued' = issued + 1
<1>1. /\ issued \in 0..MaxIssued /\ issued' = issued + 1 /\ issued' \in 1..issued'
      /\ issued' \in 0..MaxIssued /\ issued' \in Credential
      /\ 1..issued \subseteq 1..issued' /\ issued <= issued'
  BY SessionAssumption DEF CredentialsOK, Issue, Credential
<1>2. PICK g \in 1..issued' : family' = [family EXCEPT ![issued + 1] = g]
  BY <1>1, NoneAssumption, SessionAssumption DEF Issue, Known
<1>3. family' \in [Credential -> Credential \union {None}]
  BY <1>1, <1>2, SessionAssumption DEF CredentialsOK, Credential
<1>4. \A n \in Credential : IF n <= issued' THEN family'[n] \in 1..issued' ELSE family'[n] = None
  BY <1>1, <1>2, SessionAssumption DEF CredentialsOK, Credential
<1>. QED BY <1>1, <1>3, <1>4 DEF Grows, CredentialsOK

\* An issued credential belongs to a family.
LEMMA FamilyKnown ==
  ASSUME CredentialsOK, NEW p \in 1..issued
  PROVE  family[p] \in 1..issued
  BY SessionAssumption DEF CredentialsOK, Credential

\* A rotation supersedes the credential presented and issues the next.
LEMMA RotateGrows ==
  ASSUME CredentialsOK, NEW p \in Known, Rotate(p)
  PROVE  Grows /\ issued' \in 1..issued' /\ p \in superseded'
<1>1. p \in 1..issued /\ issued \in Nat /\ issued' = issued + 1
  BY SessionAssumption DEF Rotate, Valid, Known, Issue, CredentialsOK
<1>2. family[p] \in Known /\ Issue(family[p])
  BY <1>1, FamilyKnown DEF Rotate, Known
<1>3. /\ superseded' \subseteq 1..issued' /\ revoked' \subseteq 1..issued'
      /\ superseded \subseteq superseded' /\ p \in superseded'
  BY <1>1 DEF CredentialsOK, Rotate
<1>. QED BY <1>2, <1>3, IssueGrows

\* Reuse detection revokes a family and issues nothing.
LEMMA DetectGrows ==
  ASSUME CredentialsOK, NEW p \in Known, Detect(p)
  PROVE  Grows /\ issued' = issued
<1>1. p \in 1..issued /\ family[p] \in 1..issued
  BY FamilyKnown DEF Detect, Known
<1>2. revoked' \subseteq 1..issued
  BY <1>1 DEF Detect, CredentialsOK
<1>. QED BY <1>2 DEF Detect, CredentialsOK, Grows

\* A logout revokes a family and issues nothing.
LEMMA RevokeGrows ==
  ASSUME CredentialsOK, NEW p \in 1..issued, Revoke(p)
  PROVE  Grows /\ issued' = issued
<1>1. family[p] \in 1..issued
  BY FamilyKnown
<1>2. revoked' \subseteq 1..issued
  BY <1>1 DEF Revoke, CredentialsOK
<1>. QED BY <1>2 DEF Revoke, CredentialsOK, Grows

\* A changed password continues the session or replaces it.
LEMMA ChangeGrows ==
  ASSUME CredentialsOK, NEW b \in Known, ChangePassword(b)
  PROVE  Grows /\ issued' \in 1..issued'
<1>1. b \in 1..issued /\ issued \in Nat /\ issued' = issued + 1
  BY SessionAssumption DEF ChangePassword, LiveToken, Known, Issue, CredentialsOK
<1>2. family[b] \in 1..issued /\ 1..issued \subseteq 1..issued'
  BY <1>1, FamilyKnown
<1>3. CASE /\ Issue(family[b])
           /\ superseded' = superseded \union {n \in 1..issued : family[n] = family[b]}
           /\ UNCHANGED revoked
  <2>1. /\ superseded' \subseteq 1..issued' /\ revoked' \subseteq 1..issued'
        /\ superseded \subseteq superseded'
    BY <1>2, <1>3 DEF CredentialsOK
  <2>. QED BY <1>2, <1>3, <2>1, IssueGrows DEF Known
<1>4. CASE Issue(None) /\ revoked' = revoked \union {family[b]} /\ UNCHANGED superseded
  <2>1. /\ superseded' \subseteq 1..issued' /\ revoked' \subseteq 1..issued'
        /\ superseded \subseteq superseded'
    BY <1>2, <1>4 DEF CredentialsOK
  <2>. QED BY <1>4, <2>1, IssueGrows DEF Known
<1>. QED BY <1>3, <1>4 DEF ChangePassword

\* A login begins a family of its own.
LEMMA LoginGrows ==
  ASSUME CredentialsOK, Issue(None), UNCHANGED <<superseded, revoked>>
  PROVE  Grows /\ issued' \in 1..issued'
<1>1. issued \in Nat /\ issued' = issued + 1
  BY SessionAssumption DEF Issue, CredentialsOK
<1>2. superseded' \subseteq 1..issued' /\ revoked' \subseteq 1..issued'
  BY <1>1 DEF CredentialsOK
<1>. QED BY <1>2, IssueGrows DEF Known

----------------------------------------------------------------------------
(* What the steps do to the browser's side.                                *)

Inv == CredentialsOK /\ BrowserOK /\ CallsOK
       /\ excused \subseteq superseded /\ orphans \subseteq Request

\* What was issued stays issued.
LEMMA KnownGrows ==
  ASSUME Grows
  PROVE  Known \subseteq Known' /\ Request \subseteq Request'
  BY DEF Grows, Known, Request

\* A step of Identity leaves the browser's state typed.
LEMMA BrowserKept ==
  ASSUME BrowserOK, Grows, UNCHANGED <<cookie, client>>
  PROVE  BrowserOK'
  BY KnownGrows DEF BrowserOK, client

\* A step of Identity leaves the calls typed.
LEMMA CallsKept ==
  ASSUME CallsOK, Grows, UNCHANGED call
  PROVE  CallsOK'
  BY KnownGrows DEF CallsOK

\* A call's progress is replaced by k.
LEMMA CallReplaced ==
  ASSUME CallsOK, Grows, NEW c \in Call, NEW k \in Progress,
         k.presented \in Known', k.bearer \in Known', k.answer.session \in Known',
         call' = [call EXCEPT ![c] = k]
  PROVE  CallsOK'
<1>1. call' \in [Call -> Progress]
  BY DEF CallsOK
<1>2. ASSUME NEW d \in Call
      PROVE  /\ call'[d].presented \in Known' /\ call'[d].bearer \in Known'
             /\ call'[d].answer.session \in Known'
  <2>1. CASE d = c BY <2>1, <1>1 DEF CallsOK
  <2>2. CASE d # c BY <2>2, <1>1, KnownGrows DEF CallsOK
  <2>. QED BY <2>1, <2>2
<1>. QED BY <1>1, <1>2 DEF CallsOK

\* An answer of the gateway leaves the calls typed.
LEMMA RespondTyped ==
  ASSUME CallsOK, Grows, NEW c \in Call, NEW s \in Status,
         NEW e \in {"set", "clear", "keep"}, NEW n \in Known', Respond(c, s, e, n)
  PROVE  CallsOK'
<1> DEFINE k == [call[c] EXCEPT !.pc = "answered", !.bearer = None,
                   !.answer = [status |-> s, cookie |-> e, session |-> n]]
<1>0. n \in Credential \union {None}
  BY SessionAssumption DEF Known, Grows, CredentialsOK, Credential
<1>1. call[c] \in Progress BY DEF CallsOK
<1>2. k \in Progress BY <1>0, <1>1 DEF Progress, Answer
<1>3. k.presented \in Known' /\ k.bearer \in Known' /\ k.answer.session \in Known'
  BY <1>1, KnownGrows DEF CallsOK, Progress, Known
<1>4. call' = [call EXCEPT ![c] = k]
  BY DEF Respond
<1>. QED BY ONLY CallsOK, Grows, <1>2, <1>3, <1>4, CallReplaced

\* WriteError keeps the types.
LEMMA WriteErrorTyped ==
  ASSUME CallsOK, Grows, NEW c \in Call, NEW s \in Status, WriteError(c, s)
  PROVE  CallsOK'
  BY RespondTyped DEF WriteError, Known

\* WriteBrowserSession keeps the types.
LEMMA WriteBrowserSessionTyped ==
  ASSUME CallsOK, Grows, issued' \in 1..issued', NEW c \in Call, WriteBrowserSession(c)
  PROVE  CallsOK'
  BY RespondTyped DEF WriteBrowserSession, Known, Status

\* Continue keeps the types.
LEMMA ContinueTyped ==
  ASSUME CallsOK, Grows, NEW c \in Call, NEW s \in Status, NEW n \in Known', Continue(c, s, n)
  PROVE  CallsOK'
<1> DEFINE k == [call[c] EXCEPT !.pc = "received", !.presented = None, !.bearer = None,
                   !.answer = [status |-> s, cookie |-> "keep", session |-> n]]
<1>0. n \in Credential \union {None}
  BY SessionAssumption DEF Known, Grows, CredentialsOK, Credential
<1>1. call[c] \in Progress BY DEF CallsOK
<1>2. k \in Progress BY <1>0, <1>1 DEF Progress, Answer
<1>3. k.presented \in Known' /\ k.bearer \in Known' /\ k.answer.session \in Known'
  BY <1>1 DEF Progress, Known
<1>4. call' = [call EXCEPT ![c] = k]
  BY DEF Continue
<1>. QED BY ONLY CallsOK, Grows, <1>2, <1>3, <1>4, CallReplaced

\* A caller that does nothing.
LEMMA IdleTyped == Idle \in Progress /\ Idle.presented = None /\ Idle.bearer = None
                   /\ Idle.answer.session = None
  BY DEF Idle, Progress, NoAnswer, Answer, Status, Op

\* Calls that end leave the calls typed.
LEMMA FinishTyped ==
  ASSUME CallsOK, Grows, NEW cs, Finish(cs)
  PROVE  CallsOK'
<1>1. call' \in [Call -> Progress]
  BY IdleTyped DEF CallsOK, Finish
<1>2. ASSUME NEW d \in Call
      PROVE  /\ call'[d].presented \in Known' /\ call'[d].bearer \in Known'
             /\ call'[d].answer.session \in Known'
  <2>1. CASE d \in cs BY <2>1, IdleTyped DEF Finish, Known
  <2>2. CASE d \notin cs BY <2>2, KnownGrows DEF Finish, CallsOK
  <2>. QED BY <2>1, <2>2
<1>. QED BY <1>1, <1>2 DEF CallsOK

\* A request on the wire carries an issued credential.
LEMMA PendingTyped ==
  ASSUME CallsOK, NEW c \in Call
  PROVE  Pending(c) \subseteq Request
  BY DEF CallsOK, Pending, Request, Known

\* Orphan keeps the types.
LEMMA OrphanTyped ==
  ASSUME orphans \subseteq Request, NEW rs, rs \subseteq Request, Grows, Orphan(rs)
  PROVE  orphans' \subseteq Request'
  BY KnownGrows DEF Orphan

----------------------------------------------------------------------------
(* Every step keeps the types.                                             *)

\* What each step has to show.
Typed == Grows /\ BrowserOK' /\ CallsOK' /\ excused' \subseteq superseded'
         /\ orphans' \subseteq Request'

\* A step of the browser leaves Identity alone.
LEMMA Unchanged ==
  ASSUME Inv, UNCHANGED credentials
  PROVE  Grows
  BY NoChangeGrows DEF Inv, NoChange

\* Serve keeps the types.
LEMMA ServeTyped ==
  ASSUME Inv, NEW c \in Call, Serve(c)
  PROVE  Typed
<1>. USE DEF Inv
<1>p. /\ call[c] \in Progress /\ call[c].presented \in Known /\ call[c].bearer \in Known
  BY DEF CallsOK
<1>1. CASE ServeLogin(c)
  <2>1. CASE Issue(None) /\ UNCHANGED <<superseded, revoked>> /\ WriteBrowserSession(c)
    <3>1. Grows /\ issued' \in 1..issued' BY <2>1, LoginGrows
    <3>2. CallsOK' BY <2>1, <3>1, WriteBrowserSessionTyped
    <3>3. BrowserOK' /\ orphans' \subseteq Request' /\ excused' \subseteq superseded'
      BY <1>1, <3>1, BrowserKept, KnownGrows DEF ServeLogin, Served, Grows
    <3>. QED BY <3>1, <3>2, <3>3 DEF Typed
  <2>2. CASE NoChange /\ \E s \in {"ok", "invalid"} : WriteError(c, s)
    <3>1. Grows BY <2>2, NoChangeGrows
    <3>2. CallsOK' BY <2>2, <3>1, WriteErrorTyped DEF Status
    <3>3. BrowserOK' /\ orphans' \subseteq Request' /\ excused' \subseteq superseded'
      BY <1>1, <3>1, BrowserKept, KnownGrows DEF ServeLogin, Served, Grows
    <3>. QED BY <3>1, <3>2, <3>3 DEF Typed
  <2>. QED BY <1>1, <2>1, <2>2 DEF ServeLogin
<1>2. CASE ServeRefresh(c)
  <2> DEFINE p == call[c].presented
  <2>0. UNCHANGED <<cookie, client>> /\ UNCHANGED orphans
    BY <1>2 DEF ServeRefresh, Served
  <2>1. Grows
    BY <1>2, <1>p, NoChangeGrows, RotateGrows, DetectGrows DEF ServeRefresh
  <2>2. CallsOK'
    <3>1. CASE Rotate(p) /\ WriteBrowserSession(c)
      BY <1>p, <3>1, <2>1, RotateGrows, WriteBrowserSessionTyped
    <3>2. CASE \E s \in {"refused", "invalid", "unavailable"} : WriteError(c, s)
      BY <3>2, <2>1, WriteErrorTyped DEF Status
    <3>. QED BY <1>2, <3>1, <3>2 DEF ServeRefresh
  <2>3. excused' \subseteq superseded'
    BY <1>2, <1>p, <2>1, RotateGrows DEF ServeRefresh, Grows
  <2>4. BrowserOK' /\ orphans' \subseteq Request'
    BY <2>0, <2>1, BrowserKept, KnownGrows
  <2>. QED BY <2>1, <2>2, <2>3, <2>4 DEF Typed
<1>3. CASE ServeInvalidRefresh(c)
  <2>0. UNCHANGED <<cookie, client>> /\ UNCHANGED orphans
    BY <1>3 DEF ServeInvalidRefresh, Served
  <2>1. Grows /\ excused' \subseteq superseded'
    <3>1. CASE (Detect(call[c].presented) \/ NoChange) /\ UNCHANGED excused
      BY <1>p, <3>1, NoChangeGrows, DetectGrows DEF Grows
    <3>2. CASE Rotate(call[c].presented) /\ excused' = excused \union {call[c].presented}
      BY <1>p, <3>2, RotateGrows DEF Grows
    <3>. QED BY <1>3, <3>1, <3>2 DEF ServeInvalidRefresh
  <2>2. \E s \in {"refused", "invalid"} : Respond(c, s, "clear", None)
    BY <1>3 DEF ServeInvalidRefresh
  <2>3. CallsOK'
    BY <2>1, <2>2, RespondTyped DEF Status, Known
  <2>4. BrowserOK' /\ orphans' \subseteq Request'
    BY <2>0, <2>1, BrowserKept, KnownGrows
  <2>. QED BY <2>1, <2>3, <2>4 DEF Typed
<1>4. CASE ServeLogout(c)
  <2>0. UNCHANGED <<cookie, client>> /\ UNCHANGED excused
    BY <1>4 DEF ServeLogout, Served
  <2>1. Grows
    BY <1>4, <1>p, NoChangeGrows, RevokeGrows DEF ServeLogout, Known
  <2>2. \E s \in {"ok", "unavailable", "refused"}, e \in {"clear", "keep"} : Respond(c, s, e, None)
    BY <1>4 DEF ServeLogout, WriteError
  <2>3. CallsOK'
    BY <2>1, <2>2, RespondTyped DEF Status, Known
  <2>4. BrowserOK' /\ excused' \subseteq superseded'
    BY <2>0, <2>1, BrowserKept DEF Grows
  <2>5. orphans' \subseteq Request'
    BY <1>4, <2>1, OrphanTyped, PendingTyped, KnownGrows DEF ServeLogout
  <2>. QED BY <2>1, <2>3, <2>4, <2>5 DEF Typed
<1>5. CASE ServeChange(c)
  <2>0. /\ UNCHANGED <<cookie, client>> /\ UNCHANGED orphans
        /\ excused' = excused \union (superseded' \ superseded)
    BY <1>5 DEF ServeChange, Served
  <2>1. Grows
    BY <1>5, <1>p, NoChangeGrows, ChangeGrows DEF ServeChange
  <2>2. CallsOK'
    <3>1. CASE ChangePassword(call[c].bearer) /\ WriteBrowserSession(c)
      BY <1>p, <3>1, <2>1, ChangeGrows, WriteBrowserSessionTyped
    <3>2. CASE \E s \in {"refused", "unavailable", "invalid"} : WriteError(c, s)
      BY <3>2, <2>1, WriteErrorTyped DEF Status
    <3>. QED BY <1>5, <3>1, <3>2 DEF ServeChange
  <2>3. BrowserOK' /\ orphans' \subseteq Request' /\ excused' \subseteq superseded'
    BY <2>0, <2>1, BrowserKept, KnownGrows DEF Grows
  <2>. QED BY <2>1, <2>2, <2>3 DEF Typed
<1>6. CASE ServeFetch(c)
  <2>0. UNCHANGED <<cookie, client>> /\ UNCHANGED <<orphans, excused>>
    BY <1>6 DEF ServeFetch, Served
  <2>1. Grows BY <1>6, NoChangeGrows DEF ServeFetch
  <2>2. CallsOK'
    BY <1>6, <2>1, WriteErrorTyped DEF ServeFetch, Status
  <2>3. BrowserOK' /\ orphans' \subseteq Request' /\ excused' \subseteq superseded'
    BY <2>0, <2>1, BrowserKept, KnownGrows DEF Grows
  <2>. QED BY <2>1, <2>2, <2>3 DEF Typed
<1>7. CASE ServeUnavailable(c)
  <2>0. UNCHANGED <<cookie, client>> /\ UNCHANGED excused
    BY <1>7 DEF ServeUnavailable, Served
  <2>1. Grows BY <1>7, NoChangeGrows DEF ServeUnavailable
  <2>2. CallsOK'
    BY <1>7, <2>1, WriteErrorTyped DEF ServeUnavailable, Status
  <2>3. BrowserOK' /\ excused' \subseteq superseded'
    BY <2>0, <2>1, BrowserKept DEF Grows
  <2>4. orphans' \subseteq Request'
    BY <1>7, <2>1, OrphanTyped, PendingTyped DEF ServeUnavailable
  <2>. QED BY <2>1, <2>2, <2>3, <2>4 DEF Typed
<1>. QED BY <1>1, <1>2, <1>3, <1>4, <1>5, <1>6, <1>7 DEF Serve

\* ServeOrphan keeps the types.
LEMMA ServeOrphanTyped ==
  ASSUME Inv, ServeOrphan
  PROVE  Typed
<1>. USE DEF Inv
<1>1. PICK r \in orphans :
        /\ orphans' = orphans \ {r}
        /\ \/ r.endpoint = "refresh" /\ (Rotate(r.carries) \/ Detect(r.carries))
           \/ r.endpoint = "logout" /\ Revoke(r.carries)
           \/ r.endpoint = "change" /\ ChangePassword(r.carries)
           \/ r.endpoint = "change" /\ NoChange
        /\ excused' = excused \union (superseded' \ superseded)
        /\ UNCHANGED <<cookie, client, call>>
  BY DEF ServeOrphan
<1>2. r.carries \in 1..issued /\ r.carries \in Known
  BY DEF Request, Known
<1>3. Grows
  BY <1>1, <1>2, RotateGrows, DetectGrows, RevokeGrows, ChangeGrows, NoChangeGrows
<1>4. BrowserOK' /\ CallsOK'
  BY <1>1, <1>3, BrowserKept, CallsKept
<1>5. excused' \subseteq superseded' /\ orphans' \subseteq Request'
  BY <1>1, <1>3, KnownGrows DEF Grows
<1>. QED BY <1>3, <1>4, <1>5 DEF Typed

\* The steps that issue nothing and leave the requests that outlive their caller alone.
LEMMA LocalTyped ==
  ASSUME Inv, UNCHANGED <<identity, excused>>, BrowserOK', CallsOK'
  PROVE  Typed
<1>1. Grows BY Unchanged DEF identity
<1>. QED BY <1>1, KnownGrows DEF Typed, Inv, identity, credentials

\* The network keeps the types.
LEMMA NetworkTyped ==
  ASSUME Inv, NEW c \in Call, Leave(c) \/ Deliver(c) \/ NetworkFails(c)
  PROVE  Typed
<1>. USE DEF Inv
<1>p. call[c] \in Progress /\ call[c].answer \in Answer
  BY DEF CallsOK, Progress
<1>0. Grows
  BY Unchanged DEF Leave, Deliver, NetworkFails, identity
<1>k. Known' = Known /\ Known \subseteq Credential \union {None}
  BY SessionAssumption
     DEF Leave, Deliver, NetworkFails, identity, credentials, Known, CredentialsOK, Credential
<1>1. CASE Leave(c)
  <2> DEFINE k == [call[c] EXCEPT !.pc = "sent",
              !.presented = IF Endpoint(c) \in {"refresh", "logout"} THEN cookie ELSE None]
  <2>1. BrowserOK' BY <1>1, <1>0, <1>k DEF Leave, BrowserOK, client
  <2>2. k \in Progress BY <1>p, <1>k DEF Progress, BrowserOK
  <2>3. k.presented \in Known' /\ k.bearer \in Known' /\ k.answer.session \in Known'
    BY <1>p, <1>k DEF CallsOK, BrowserOK, Progress, Known
  <2>4. call' = [call EXCEPT ![c] = k] BY <1>1 DEF Leave
  <2>5. CallsOK' BY ONLY CallsOK, <1>0, <2>2, <2>3, <2>4, CallReplaced
  <2>. QED BY <1>1, <2>1, <2>5, LocalTyped DEF Leave
<1>2. CASE Deliver(c)
  <2> DEFINE a == call[c].answer
  <2>1. a.session \in Known /\ a.status \in Status
    BY <1>p DEF CallsOK, Answer
  <2>2. cookie' \in Known
    BY <1>2, <2>1 DEF Deliver, BrowserOK, Known
  <2>3. BrowserOK' BY <1>2, <1>k, <2>2 DEF Deliver, BrowserOK, client
  <2>4. \E n \in {a.session, None} : Continue(c, a.status, n)
    BY <1>2 DEF Deliver
  <2>5. CallsOK' BY <1>0, <1>k, <2>1, <2>4, ContinueTyped DEF Known
  <2>. QED BY <1>2, <2>3, <2>5, LocalTyped DEF Deliver
<1>3. CASE NetworkFails(c)
  <2>1. BrowserOK' BY <1>3, <1>0, BrowserKept DEF NetworkFails
  <2>2. CallsOK' BY <1>0, <1>3, ContinueTyped DEF NetworkFails, Known, Status
  <2>3. orphans' \subseteq Request'
    BY <1>0, <1>3, OrphanTyped, PendingTyped DEF NetworkFails, Abandon
  <2>4. excused' \subseteq superseded'
    BY <1>3 DEF NetworkFails, Abandon, credentials
  <2>. QED BY <1>0, <2>1, <2>2, <2>3, <2>4 DEF Typed
<1>. QED BY <1>1, <1>2, <1>3

\* A refresh that joins or leads keeps the types.
LEMMA JoinOrLeadTyped ==
  ASSUME Inv, Grows, NEW c \in Call, NEW p \in Progress,
         p.presented \in Known', p.bearer \in Known', p.answer.session \in Known',
         JoinOrLead(c, p)
  PROVE  CallsOK' /\ refreshInFlight' \in [Tab -> Call \union {None}]
<1>1. PICK q \in {"joined", "lock"} : call' = [call EXCEPT ![c] = [p EXCEPT !.pc = q]]
  BY DEF JoinOrLead
<1> DEFINE k == [p EXCEPT !.pc = q]
<1>2. k \in Progress BY DEF Progress
<1>3. k.presented \in Known' /\ k.bearer \in Known' /\ k.answer.session \in Known'
  BY DEF Progress
<1>4. CallsOK'
  <2>. HIDE DEF k
  <2>. CallsOK BY DEF Inv
  <2>. QED BY <1>1, <1>2, <1>3, CallReplaced DEF k
<1>5. refreshInFlight' \in [Tab -> Call \union {None}]
  BY DEF JoinOrLead, Inv, BrowserOK
<1>. QED BY <1>4, <1>5

\* A caller that begins keeps the types.
LEMMA BeginTyped ==
  ASSUME Inv, NEW c \in Call, NEW t \in Tab, NEW o \in Ops, Begin(c, t, o)
  PROVE  Typed
<1>. USE DEF Inv
<1>0. Grows /\ Known' = Known
  BY Unchanged DEF Begin, identity, credentials, Known
<1>o. o \in Op BY SessionAssumption
<1>1. CASE o = "refresh" /\ JoinOrLead(c, [Idle EXCEPT !.tab = t, !.op = o, !.stage = "refresh"])
  <2> DEFINE p == [Idle EXCEPT !.tab = t, !.op = o, !.stage = "refresh"]
  <2>1. p \in Progress BY <1>o, IdleTyped DEF Progress
  <2>2. p.presented \in Known' /\ p.bearer \in Known' /\ p.answer.session \in Known'
    BY IdleTyped DEF Progress, Known
  <2>3. JoinOrLead(c, p) BY <1>1
  <2>4. CallsOK' /\ refreshInFlight' \in [Tab -> Call \union {None}]
    <3>. HIDE DEF p
    <3>. QED BY <1>0, <2>1, <2>2, <2>3, JoinOrLeadTyped
  <2>5. BrowserOK' BY <1>0, <2>4 DEF Begin, BrowserOK
  <2>. QED BY <2>4, <2>5, LocalTyped DEF Begin
<1>2. CASE o # "refresh"
  <2> DEFINE k == [Idle EXCEPT !.pc = "leaving", !.tab = t, !.op = o, !.bearer = accessToken[t]]
  <2>0. accessToken[t] \in Known /\ accessToken[t] \in Credential \union {None}
    BY SessionAssumption DEF BrowserOK, Known, CredentialsOK, Credential
  <2>1. k \in Progress BY <1>o, <2>0, IdleTyped DEF Progress
  <2>2. k.presented \in Known' /\ k.bearer \in Known' /\ k.answer.session \in Known'
    BY <1>0, <2>0, IdleTyped DEF Progress, Known
  <2>3. call' = [call EXCEPT ![c] = k] BY <1>2 DEF Begin
  <2>4. CallsOK' BY ONLY CallsOK, <1>0, <2>1, <2>2, <2>3, CallReplaced
  <2>5. BrowserOK' BY <1>0, <1>2 DEF Begin, BrowserOK
  <2>. QED BY <2>4, <2>5, LocalTyped DEF Begin
<1>. QED BY <1>1, <1>2 DEF Begin

\* The lock manager keeps the types.
LEMMA AcquireTyped ==
  ASSUME Inv, NEW c \in Call, Acquire(c)
  PROVE  Typed
<1>. USE DEF Inv
<1>0. Grows /\ Known' = Known
  BY Unchanged DEF Acquire, identity, credentials, Known
<1> DEFINE k == [call[c] EXCEPT !.pc = "leaving"]
<1>1. call[c] \in Progress /\ k \in Progress BY DEF CallsOK, Progress
<1>2. k.presented \in Known' /\ k.bearer \in Known' /\ k.answer.session \in Known'
  BY <1>0, <1>1 DEF CallsOK, Progress
<1>3. call' = [call EXCEPT ![c] = k] BY DEF Acquire
<1>4. CallsOK' BY ONLY CallsOK, <1>0, <1>1, <1>2, <1>3, CallReplaced
<1>5. BrowserOK' BY <1>0 DEF Acquire, BrowserOK
<1>. QED BY <1>4, <1>5, LocalTyped DEF Acquire

\* A client that reads an answer keeps the types.
LEMMA ReceiveTyped ==
  ASSUME Inv, NEW c \in Call, Receive(c)
  PROVE  Typed
<1>. USE DEF Inv
<1>0. UNCHANGED <<identity, excused, cookie>>
  BY DEF Receive, ReceiveLogin, ReceiveLogout, ReceiveRefusal, ReceiveResult, ReceiveRefresh,
         Received
<1>g. Grows /\ Known' = Known
  BY <1>0, Unchanged DEF identity, credentials, Known
<1>p. call[c] \in Progress /\ call[c].answer.session \in Known
  BY DEF CallsOK
<1>s. /\ Accept(c) => accessToken' \in [Tab -> Known]
      /\ ClearSession(c) => accessToken' \in [Tab -> Known]
      /\ UNCHANGED accessToken => accessToken' \in [Tab -> Known]
  BY <1>p DEF Accept, ClearSession, BrowserOK, Known
<1>1. CASE ReceiveLogin(c) \/ ReceiveLogout(c) \/ ReceiveResult(c)
  <2>1. Finish({c}) /\ UNCHANGED <<refreshInFlight, lock>>
    BY <1>1 DEF ReceiveLogin, ReceiveLogout, ReceiveResult
  <2>2. accessToken' \in [Tab -> Known]
    BY <1>1, <1>s DEF ReceiveLogin, ReceiveLogout, ReceiveResult
  <2>3. BrowserOK' BY <1>0, <1>g, <2>1, <2>2 DEF BrowserOK
  <2>4. CallsOK' BY <1>g, <2>1, FinishTyped
  <2>. QED BY <1>0, <2>3, <2>4, LocalTyped
<1>2. CASE ReceiveRefusal(c)
  <2> DEFINE p == [call[c] EXCEPT !.stage = "refresh", !.answer = NoAnswer]
  <2>1. p \in Progress BY <1>p DEF Progress, NoAnswer, Answer, Status
  <2>2. p.presented \in Known' /\ p.bearer \in Known' /\ p.answer.session \in Known'
    BY <1>g, <1>p DEF CallsOK, Progress, NoAnswer, Known
  <2>3. JoinOrLead(c, p) /\ UNCHANGED <<accessToken, lock>> BY <1>2 DEF ReceiveRefusal
  <2>4. CallsOK' /\ refreshInFlight' \in [Tab -> Call \union {None}]
    <3>. HIDE DEF p
    <3>. QED BY <1>g, <2>1, <2>2, <2>3, JoinOrLeadTyped
  <2>5. BrowserOK' BY <1>0, <1>g, <2>3, <2>4 DEF BrowserOK
  <2>. QED BY <1>0, <2>4, <2>5, LocalTyped
<1>3. CASE ReceiveRefresh(c)
  <2> DEFINE k == [call[c] EXCEPT !.pc = "settling"]
  <2>1. k \in Progress BY <1>p DEF Progress
  <2>2. k.presented \in Known' /\ k.bearer \in Known' /\ k.answer.session \in Known'
    BY <1>g, <1>p DEF CallsOK, Progress
  <2>3. call' = [call EXCEPT ![c] = k] BY <1>3 DEF ReceiveRefresh
  <2>4. CallsOK' BY ONLY CallsOK, <1>g, <2>1, <2>2, <2>3, CallReplaced
  <2>5. accessToken' \in [Tab -> Known] /\ lock' \in Call \union {None}
        /\ UNCHANGED refreshInFlight
    BY <1>3, <1>s DEF ReceiveRefresh, BrowserOK
  <2>6. BrowserOK' BY <1>0, <1>g, <2>5 DEF BrowserOK
  <2>. QED BY <1>0, <2>4, <2>6, LocalTyped
<1>. QED BY <1>1, <1>2, <1>3 DEF Receive

\* A call under way belongs to a tab.
TabsOK == \A c \in Call : call[c].pc # "idle" => call[c].tab \in Tab

\* A call that is sent again is a call.
LEMMA ReplayedTyped ==
  ASSUME Inv, NEW d \in Call, call[d].tab \in Tab
  PROVE  /\ Replayed(d) \in Progress
         /\ Replayed(d).presented \in Known /\ Replayed(d).bearer \in Known
         /\ Replayed(d).answer.session \in Known
<1>1. call[d] \in Progress /\ call[d].presented \in Known
  BY DEF Inv, CallsOK
<1>2. accessToken[call[d].tab] \in Known /\ accessToken[call[d].tab] \in Credential \union {None}
  BY SessionAssumption DEF Inv, BrowserOK, Known, CredentialsOK, Credential
<1>. QED BY <1>1, <1>2 DEF Replayed, Progress, NoAnswer, Answer, Status, Known

\* A refresh that settles keeps the types.
LEMMA SettleTyped ==
  ASSUME Inv, TabsOK, NEW c \in Call, Settle(c)
  PROVE  Typed
<1>. USE DEF Inv
<1>0. UNCHANGED <<identity, excused, cookie, lock>> BY DEF Settle
<1>g. Grows /\ Known' = Known
  BY <1>0, Unchanged DEF identity, credentials, Known
<1>1. accessToken' \in [Tab -> Known] /\ refreshInFlight' \in [Tab -> Call \union {None}]
  BY DEF Settle, ClearSession, BrowserOK, Known
<1>2. BrowserOK' BY <1>0, <1>1, <1>g DEF BrowserOK
<1>t. \A d \in Waiting(c) : d \in Call /\ call[d].tab \in Tab
  BY DEF Settle, Waiting, TabsOK
<1>3. CASE Finish(Waiting(c))
  BY <1>0, <1>2, <1>3, <1>g, FinishTyped, LocalTyped
<1>4. CASE call' = [d \in Call |-> IF d \notin Waiting(c) THEN call[d]
                                   ELSE IF call[d].op = "refresh" THEN Idle ELSE Replayed(d)]
  <2>1. \A d \in Call : call'[d] \in {call[d], Idle} \/ (d \in Waiting(c) /\ call'[d] = Replayed(d))
    BY <1>4
  <2>2. ASSUME NEW d \in Call
        PROVE  /\ call'[d] \in Progress
               /\ call'[d].presented \in Known /\ call'[d].bearer \in Known
               /\ call'[d].answer.session \in Known
    <3>2. CASE call'[d] = call[d] BY <3>2 DEF CallsOK
    <3>3. CASE call'[d] = Idle BY <3>3, IdleTyped DEF Known
    <3>4. CASE d \in Waiting(c) /\ call'[d] = Replayed(d) BY <1>t, <3>4, ReplayedTyped
    <3>. QED BY <2>1, <3>2, <3>3, <3>4
  <2>3. call' \in [Call -> Progress] BY <1>4, <2>2
  <2>4. CallsOK' BY <1>g, <2>2, <2>3 DEF CallsOK
  <2>. QED BY <1>0, <1>2, <2>4, LocalTyped
<1>. QED BY <1>3, <1>4 DEF Settle

\* A reload keeps the types.
LEMMA ReloadTyped ==
  ASSUME Inv, NEW t \in Tab, Reload(t)
  PROVE  Typed
<1>. USE DEF Inv
<1> DEFINE gone == {c \in Call : call[c].tab = t}
<1>0. UNCHANGED <<credentials, cookie>> /\ Abandon(gone) /\ Finish(gone) BY DEF Reload
<1>1. Grows /\ Known' = Known BY <1>0, Unchanged DEF credentials, Known
<1>2. CallsOK' BY <1>0, <1>1, FinishTyped
<1>3. BrowserOK' BY <1>0, <1>1 DEF Reload, BrowserOK, Known
<1>4. orphans' \subseteq Request'
  <2>1. PICK rs : /\ rs = UNION {Pending(c) : c \in {d \in gone : call[d].pc = "sent"}}
                  /\ Orphan(rs)
    BY <1>0 DEF Abandon
  <2>2. rs \subseteq Request BY <2>1, PendingTyped
  <2>. QED BY <1>1, <2>1, <2>2, OrphanTyped
<1>5. excused' \subseteq superseded' BY <1>0 DEF Abandon, credentials
<1>. QED BY <1>1, <1>2, <1>3, <1>4, <1>5 DEF Typed

\* The types hold at first.
LEMMA InitTyped == Init => Inv /\ TabsOK
<1>. SUFFICES ASSUME Init PROVE Inv /\ TabsOK OBVIOUS
<1>1. CredentialsOK
  BY SessionAssumption DEF Init, CredentialsOK, Credential
<1>2. BrowserOK BY DEF Init, BrowserOK, Known
<1>3. CallsOK BY IdleTyped DEF Init, CallsOK, Known
<1>4. TabsOK BY DEF Init, TabsOK, Idle
<1>. QED BY <1>1, <1>2, <1>3, <1>4 DEF Inv, Init

\* Every step keeps the types.
LEMMA StepTyped == Inv /\ TabsOK /\ [Next]_vars => Inv'
<1>. SUFFICES ASSUME Inv, TabsOK, [Next]_vars PROVE Inv' OBVIOUS
<1>1. ASSUME UNCHANGED vars PROVE Typed
  <2>1. Grows BY <1>1, Unchanged DEF vars, identity
  <2>. QED BY <1>1, <2>1, BrowserKept, CallsKept, LocalTyped DEF Inv, vars
<1>2. ASSUME NEW c \in Call, Step(c) PROVE Typed
  BY <1>2, AcquireTyped, NetworkTyped, ServeTyped, ReceiveTyped, SettleTyped DEF Step
<1>3. ASSUME Environment PROVE Typed
  BY <1>3, BeginTyped, ServeOrphanTyped, ReloadTyped DEF Environment
<1>4. Typed BY <1>1, <1>2, <1>3 DEF Next
<1>. QED BY <1>4 DEF Typed, Grows, Inv

----------------------------------------------------------------------------
(* Refreshes: who leads, who is on the wire, who holds the lock.           *)

Leads(c) == call[c].stage = "refresh" /\ call[c].pc \notin {"idle", "joined"}

\* A call that was asked to refresh is at no other exchange; a call that leads a refresh
\* is the one its tab's promise stands for; and with navigator.locks, a refresh on the
\* wire holds the lock.
FlightOK ==
  \A c \in Call :
    /\ call[c].pc # "idle" /\ call[c].op = "refresh" => call[c].stage = "refresh"
    /\ Leads(c) => refreshInFlight[call[c].tab] = c
    /\ Locks /\ RefreshOnTheWire(c) => lock = c

FlightInv == TabsOK /\ FlightOK

\* The stages at which a call that is neither waiting for the lock nor done may be.
OnTheWire == {"leaving", "sent", "answered", "received"}

\* A call moves along its exchange.
LEMMA MovesAlong ==
  ASSUME CallsOK, FlightInv, NEW c \in Call, NEW k,
         call[c].pc \in OnTheWire, k.pc \in OnTheWire,
         k.tab = call[c].tab, k.op = call[c].op, k.stage = call[c].stage,
         call' = [call EXCEPT ![c] = k], UNCHANGED <<lock, refreshInFlight>>
  PROVE  FlightInv'
<1>1. \A d \in Call : call'[d] = IF d = c THEN k ELSE call[d]
  BY DEF CallsOK
<1>. QED BY <1>1 DEF FlightInv, TabsOK, FlightOK, Leads, RefreshOnTheWire, Endpoint, OnTheWire

\* Respond keeps the flight.
LEMMA RespondMoves ==
  ASSUME CallsOK, FlightInv, NEW c \in Call, call[c].pc = "sent", UNCHANGED client,
         NEW s, NEW e, NEW n, Respond(c, s, e, n)
  PROVE  FlightInv'
<1> DEFINE k == [call[c] EXCEPT !.pc = "answered", !.bearer = None,
                   !.answer = [status |-> s, cookie |-> e, session |-> n]]
<1>1. call[c] \in Progress BY DEF CallsOK
<1>2. /\ k.pc \in OnTheWire /\ call[c].pc \in OnTheWire
      /\ k.tab = call[c].tab /\ k.op = call[c].op /\ k.stage = call[c].stage
  BY <1>1 DEF Progress, OnTheWire
<1>3. call' = [call EXCEPT ![c] = k] /\ UNCHANGED <<lock, refreshInFlight>>
  BY DEF Respond, client
<1>. QED BY ONLY CallsOK, FlightInv, <1>2, <1>3, MovesAlong

\* Continue keeps the flight.
LEMMA ContinueMoves ==
  ASSUME CallsOK, FlightInv, NEW c \in Call, call[c].pc \in {"sent", "answered"},
         UNCHANGED client, NEW s, NEW n, Continue(c, s, n)
  PROVE  FlightInv'
<1> DEFINE k == [call[c] EXCEPT !.pc = "received", !.presented = None, !.bearer = None,
                   !.answer = [status |-> s, cookie |-> "keep", session |-> n]]
<1>1. call[c] \in Progress BY DEF CallsOK
<1>2. /\ k.pc \in OnTheWire /\ call[c].pc \in OnTheWire
      /\ k.tab = call[c].tab /\ k.op = call[c].op /\ k.stage = call[c].stage
  BY <1>1 DEF Progress, OnTheWire
<1>3. call' = [call EXCEPT ![c] = k] /\ UNCHANGED <<lock, refreshInFlight>>
  BY DEF Continue, client
<1>. QED BY ONLY CallsOK, FlightInv, <1>2, <1>3, MovesAlong

\* Serve keeps the flight.
LEMMA ServeMoves ==
  ASSUME CallsOK, FlightInv, NEW c \in Call, Serve(c)
  PROVE  FlightInv'
<1>1. call[c].pc = "sent" /\ UNCHANGED client
  BY DEF Serve, ServeLogin, ServeRefresh, ServeInvalidRefresh, ServeLogout, ServeChange,
         ServeFetch, ServeUnavailable, Served
<1>2. \E s, e, n : Respond(c, s, e, n)
  BY DEF Serve, ServeLogin, ServeRefresh, ServeInvalidRefresh, ServeLogout, ServeChange,
         ServeFetch, ServeUnavailable, WriteBrowserSession, WriteError
<1>. QED BY <1>1, <1>2, RespondMoves

\* Network keeps the flight.
LEMMA NetworkMoves ==
  ASSUME CallsOK, FlightInv, NEW c \in Call, Leave(c) \/ Deliver(c) \/ NetworkFails(c)
  PROVE  FlightInv'
<1>1. CASE Leave(c)
  <2> DEFINE k == [call[c] EXCEPT !.pc = "sent",
              !.presented = IF Endpoint(c) \in {"refresh", "logout"} THEN cookie ELSE None]
  <2>1. call[c] \in Progress BY DEF CallsOK
  <2>2. /\ k.pc \in OnTheWire /\ call[c].pc \in OnTheWire
        /\ k.tab = call[c].tab /\ k.op = call[c].op /\ k.stage = call[c].stage
    BY <1>1, <2>1 DEF Leave, Progress, OnTheWire
  <2>3. call' = [call EXCEPT ![c] = k] /\ UNCHANGED <<lock, refreshInFlight>>
    BY <1>1 DEF Leave, client
  <2>. QED BY ONLY CallsOK, FlightInv, <2>2, <2>3, MovesAlong
<1>2. CASE Deliver(c)
  BY <1>2, ContinueMoves DEF Deliver
<1>3. CASE NetworkFails(c)
  BY <1>3, ContinueMoves DEF NetworkFails
<1>. QED BY <1>1, <1>2, <1>3

\* A refresh joins the one in flight in its tab, or leads; p is not on the wire.
LEMMA JoinOrLeadMoves ==
  ASSUME Inv, FlightInv, NEW c \in Call, NEW p \in Progress, p.tab \in Tab,
         p.stage = "refresh", ~Leads(c), JoinOrLead(c, p), UNCHANGED lock
  PROVE  FlightInv'
<1>1. PICK q \in {"joined", "lock"} :
        /\ call' = [call EXCEPT ![c] = [p EXCEPT !.pc = q]]
        /\ q = "joined" => UNCHANGED refreshInFlight
        /\ q = "lock" => /\ refreshInFlight[p.tab] = None
                         /\ refreshInFlight' = [refreshInFlight EXCEPT ![p.tab] = c]
  BY DEF JoinOrLead
<1> DEFINE k == [p EXCEPT !.pc = q]
<1>2. k.pc = q /\ k.tab = p.tab /\ k.op = p.op /\ k.stage = "refresh"
  BY DEF Progress
<1>3. \A d \in Call : call'[d] = IF d = c THEN k ELSE call[d]
  BY <1>1 DEF Inv, CallsOK
<1>4. refreshInFlight \in [Tab -> Call \union {None}] /\ None \notin Call
  BY NoneAssumption DEF Inv, BrowserOK
<1>. HIDE DEF k
<1>5. TabsOK' BY <1>2, <1>3 DEF FlightInv, TabsOK
<1>6. ASSUME NEW d \in Call, Leads(d)' PROVE refreshInFlight'[call'[d].tab] = d
  <2>1. CASE d = c BY <1>1, <1>2, <1>3, <1>4, <1>6, <2>1 DEF Leads
  <2>2. CASE d # c
    <3>1. call'[d] = call[d] /\ Leads(d) BY <1>3, <1>6, <2>2 DEF Leads
    <3>2. call[d].tab \in Tab /\ refreshInFlight[call[d].tab] = d
      BY <3>1 DEF FlightInv, TabsOK, FlightOK, Leads
    <3>. QED BY <1>1, <1>4, <3>1, <3>2
  <2>. QED BY <2>1, <2>2
<1>7. FlightOK'
  BY <1>1, <1>2, <1>3, <1>6 DEF FlightInv, FlightOK, RefreshOnTheWire, Endpoint
<1>. QED BY <1>5, <1>7 DEF FlightInv

\* Calls that end take no part in any refresh.
LEMMA EndedCalls ==
  ASSUME Inv, FlightInv, NEW ended, NEW moved,
         \A d \in Call : call'[d] = IF d \notin ended THEN call[d]
                                    ELSE IF d \in moved THEN Replayed(d) ELSE Idle,
         \A d \in ended : d \in moved => call[d].tab \in Tab /\ call[d].op # "refresh",
         \A d \in Call \ ended : Leads(d) => refreshInFlight'[call[d].tab] = d,
         \A d \in Call \ ended : lock = d => lock' = d
  PROVE  FlightInv'
<1>1. ASSUME NEW d \in Call, d \in ended, d \in moved
      PROVE  /\ call'[d].pc = "leaving" /\ call'[d].stage = "replay"
             /\ call'[d].op = call[d].op /\ call'[d].tab = call[d].tab
  BY <1>1 DEF Inv, CallsOK, Progress, Replayed
<1>2. ASSUME NEW d \in Call, d \in ended, d \notin moved PROVE call'[d].pc = "idle"
  BY <1>2 DEF Idle
<1>3. TabsOK' BY <1>1, <1>2 DEF FlightInv, TabsOK
<1>4. FlightOK'
  <2>. SUFFICES ASSUME NEW d \in Call
                PROVE  /\ call'[d].pc # "idle" /\ call'[d].op = "refresh" => call'[d].stage = "refresh"
                       /\ Leads(d)' => refreshInFlight'[call'[d].tab] = d
                       /\ Locks /\ RefreshOnTheWire(d)' => lock' = d
    BY DEF FlightOK
  <2>1. CASE d \notin ended
    BY <2>1 DEF FlightInv, FlightOK, Leads, RefreshOnTheWire, Endpoint
  <2>2. CASE d \in ended /\ d \in moved
    BY <1>1, <2>2 DEF Leads, RefreshOnTheWire, Endpoint
  <2>3. CASE d \in ended /\ d \notin moved
    BY <1>2, <2>3 DEF Leads, RefreshOnTheWire
  <2>. QED BY <2>1, <2>2, <2>3
<1>. QED BY <1>3, <1>4 DEF FlightInv

\* Finish keeps the flight.
LEMMA FinishMoves ==
  ASSUME Inv, FlightInv, NEW ended, Finish(ended),
         \A d \in Call \ ended : Leads(d) => refreshInFlight'[call[d].tab] = d,
         \A d \in Call \ ended : lock = d => lock' = d
  PROVE  FlightInv'
<1>1. \A d \in Call : call'[d] = IF d \notin ended THEN call[d]
                                 ELSE IF d \in {} THEN Replayed(d) ELSE Idle
  BY DEF Finish
<1>. QED BY <1>1, EndedCalls

\* A caller that begins keeps the flight.
LEMMA BeginMoves ==
  ASSUME Inv, FlightInv, NEW c \in Call, NEW t \in Tab, NEW o \in Ops, Begin(c, t, o)
  PROVE  FlightInv'
<1>o. o \in Op BY SessionAssumption
<1>1. CASE o = "refresh" /\ JoinOrLead(c, [Idle EXCEPT !.tab = t, !.op = o, !.stage = "refresh"])
  <2> DEFINE p == [Idle EXCEPT !.tab = t, !.op = o, !.stage = "refresh"]
  <2>1. p \in Progress /\ p.tab \in Tab /\ p.stage = "refresh"
    BY <1>o, IdleTyped DEF Progress
  <2>2. ~Leads(c) /\ UNCHANGED lock BY DEF Begin, Leads
  <2>3. JoinOrLead(c, p) BY <1>1
  <2>. HIDE DEF p
  <2>. QED BY <2>1, <2>2, <2>3, JoinOrLeadMoves
<1>2. CASE o # "refresh"
  <2> DEFINE k == [Idle EXCEPT !.pc = "leaving", !.tab = t, !.op = o, !.bearer = accessToken[t]]
  <2>1. k.pc = "leaving" /\ k.tab = t /\ k.op = o /\ k.stage = "first" BY DEF Idle
  <2>2. \A d \in Call : call'[d] = IF d = c THEN k ELSE call[d]
    BY <1>2 DEF Begin, Inv, CallsOK
  <2>3. UNCHANGED <<lock, refreshInFlight>> BY <1>2 DEF Begin
  <2>. HIDE DEF k
  <2>. QED BY <1>2, <2>1, <2>2, <2>3
           DEF FlightInv, TabsOK, FlightOK, Leads, RefreshOnTheWire, Endpoint
<1>. QED BY <1>1, <1>2 DEF Begin

\* The lock manager keeps it.
LEMMA AcquireMoves ==
  ASSUME Inv, FlightInv, NEW c \in Call, Acquire(c)
  PROVE  FlightInv'
<1> DEFINE k == [call[c] EXCEPT !.pc = "leaving"]
<1>1. call[c] \in Progress BY DEF Inv, CallsOK
<1>2. /\ k.pc = "leaving" /\ call[c].pc = "lock"
      /\ k.tab = call[c].tab /\ k.op = call[c].op /\ k.stage = call[c].stage
  BY <1>1 DEF Acquire, Progress
<1>3. \A d \in Call : call'[d] = IF d = c THEN k ELSE call[d]
  BY DEF Acquire, Inv, CallsOK
<1>4. /\ UNCHANGED refreshInFlight
      /\ Locks => lock = None /\ lock' = c
  BY SessionAssumption DEF Acquire
<1>. HIDE DEF k
<1>. QED BY <1>2, <1>3, <1>4, NoneAssumption
         DEF FlightInv, TabsOK, FlightOK, Leads, RefreshOnTheWire, Endpoint

\* A client that reads an answer keeps it.
LEMMA ReceiveMoves ==
  ASSUME Inv, FlightInv, NEW c \in Call, Receive(c)
  PROVE  FlightInv'
<1>p. call[c] \in Progress BY DEF Inv, CallsOK
<1>1. CASE ReceiveLogin(c) \/ ReceiveLogout(c) \/ ReceiveResult(c)
  <2>1. Finish({c}) /\ UNCHANGED <<refreshInFlight, lock>>
    BY <1>1 DEF ReceiveLogin, ReceiveLogout, ReceiveResult
  <2>. QED BY <2>1, FinishMoves DEF FlightInv, FlightOK
<1>2. CASE ReceiveRefusal(c)
  <2> DEFINE p == [call[c] EXCEPT !.stage = "refresh", !.answer = NoAnswer]
  <2>1. p \in Progress /\ p.tab \in Tab /\ p.stage = "refresh"
    BY <1>2, <1>p DEF ReceiveRefusal, Received, FlightInv, TabsOK, Progress, NoAnswer, Answer, Status
  <2>2. ~Leads(c) /\ UNCHANGED lock BY <1>2 DEF ReceiveRefusal, Replays, Leads
  <2>3. JoinOrLead(c, p) BY <1>2 DEF ReceiveRefusal
  <2>. HIDE DEF p
  <2>. QED BY <2>1, <2>2, <2>3, JoinOrLeadMoves
<1>3. CASE ReceiveRefresh(c)
  <2> DEFINE k == [call[c] EXCEPT !.pc = "settling"]
  <2>1. /\ k.pc = "settling" /\ call[c].pc = "received"
        /\ k.tab = call[c].tab /\ k.op = call[c].op /\ k.stage = call[c].stage
    BY <1>3, <1>p DEF ReceiveRefresh, Received, Progress
  <2>2. \A d \in Call : call'[d] = IF d = c THEN k ELSE call[d]
    BY <1>3 DEF ReceiveRefresh, Inv, CallsOK
  <2>3. UNCHANGED refreshInFlight /\ (lock # c => lock' = lock)
    BY <1>3 DEF ReceiveRefresh
  <2>. HIDE DEF k
  <2>. QED BY <2>1, <2>2, <2>3
           DEF FlightInv, TabsOK, FlightOK, Leads, RefreshOnTheWire, Endpoint
<1>. QED BY <1>1, <1>2, <1>3 DEF Receive

\* Settle keeps the flight.
LEMMA SettleMoves ==
  ASSUME Inv, FlightInv, NEW c \in Call, Settle(c)
  PROVE  FlightInv'
<1>1. c \in Waiting(c) /\ lock' = lock BY DEF Waiting, Settle
<1>2. \A d \in Call \ Waiting(c) : Leads(d) => refreshInFlight'[call[d].tab] = d
  <2>1. TAKE d \in Call \ Waiting(c)
  <2>2. HAVE Leads(d)
  <2>3. d # c /\ call[d].tab \in Tab /\ refreshInFlight[call[d].tab] = d
    BY <1>1, <2>2 DEF FlightInv, TabsOK, FlightOK, Leads
  <2>. QED BY <2>3 DEF Settle, Inv, BrowserOK
<1>3. CASE Finish(Waiting(c)) BY <1>1, <1>2, <1>3, FinishMoves
<1>4. CASE call' = [d \in Call |-> IF d \notin Waiting(c) THEN call[d]
                                   ELSE IF call[d].op = "refresh" THEN Idle ELSE Replayed(d)]
  <2> DEFINE moved == {d \in Call : call[d].op # "refresh"}
  <2>1. \A d \in Call : call'[d] = IF d \notin Waiting(c) THEN call[d]
                                   ELSE IF d \in moved THEN Replayed(d) ELSE Idle
    BY <1>4
  <2>2. \A d \in Waiting(c) : d \in moved => call[d].tab \in Tab /\ call[d].op # "refresh"
    BY DEF FlightInv, TabsOK, Waiting, Settle
  <2>. HIDE DEF moved
  <2>. QED BY <1>1, <1>2, <2>1, <2>2, EndedCalls
<1>. QED BY <1>3, <1>4 DEF Settle

\* Reload keeps the flight.
LEMMA ReloadMoves ==
  ASSUME Inv, FlightInv, NEW t \in Tab, Reload(t)
  PROVE  FlightInv'
<1> DEFINE gone == {c \in Call : call[c].tab = t}
<1>1. Finish(gone) BY DEF Reload
<1>2. \A d \in Call \ gone : Leads(d) => refreshInFlight'[call[d].tab] = d
  BY DEF Reload, FlightInv, TabsOK, FlightOK, Leads, Inv, BrowserOK
<1>3. \A d \in Call \ gone : lock = d => lock' = d
  BY DEF Reload
<1>. QED BY <1>1, <1>2, <1>3, FinishMoves

\* Every step keeps the flight.
LEMMA StepMoves == Inv /\ FlightInv /\ [Next]_vars => FlightInv'
<1>. SUFFICES ASSUME Inv, FlightInv, [Next]_vars PROVE FlightInv' OBVIOUS
<1>. CallsOK BY DEF Inv
<1>1. ASSUME UNCHANGED <<call, client>> PROVE FlightInv'
  BY <1>1 DEF client, FlightInv, TabsOK, FlightOK, Leads, RefreshOnTheWire, Endpoint
<1>2. ASSUME NEW c \in Call, Step(c) PROVE FlightInv'
  BY <1>2, AcquireMoves, NetworkMoves, ServeMoves, ReceiveMoves, SettleMoves DEF Step
<1>3. ASSUME Environment PROVE FlightInv'
  BY <1>1, <1>3, BeginMoves, ReloadMoves DEF Environment, ServeOrphan
<1>. QED BY <1>1, <1>2, <1>3 DEF Next, vars

\* Two refreshes on the wire lead in different tabs, and only without the lock.
LEMMA OneExchange == Inv /\ FlightInv => OneRefreshInFlight
<1>. SUFFICES ASSUME Inv, FlightInv, NEW c \in Call, NEW d \in Call, c # d,
                     RefreshOnTheWire(c), RefreshOnTheWire(d)
              PROVE  ~Locks /\ call[c].tab # call[d].tab
  BY DEF OneRefreshInFlight
<1>1. Leads(c) /\ Leads(d)
  BY DEF FlightInv, FlightOK, RefreshOnTheWire, Endpoint, Leads
<1>2. refreshInFlight[call[c].tab] = c /\ refreshInFlight[call[d].tab] = d
  BY <1>1 DEF FlightInv, FlightOK
<1>3. ~Locks BY DEF FlightInv, FlightOK
<1>. QED BY <1>2, <1>3

----------------------------------------------------------------------------
(* The theorems.                                                           *)

\* The inductive invariant holds throughout, for any tabs, calls and bounds.
LEMMA Invariance == Spec => [](Inv /\ FlightInv)
<1>1. Init => Inv /\ FlightInv
  <2>1. Init => FlightOK BY DEF Init, FlightOK, Leads, RefreshOnTheWire, Idle
  <2>. QED BY <2>1, InitTyped DEF FlightInv
<1>2. Inv /\ FlightInv /\ [Next]_vars => (Inv /\ FlightInv)'
  BY StepTyped, StepMoves DEF FlightInv
<1>. QED BY <1>1, <1>2, PTL DEF Spec

\* Types: every credential that a tab, the cookie, a request or a late request carries
\* was issued by Identity, through all losses and reloads.
THEOREM TypeCorrect == Spec => []TypeOK
<1>1. Inv => TypeOK BY TypeParts DEF Inv
<1>. QED BY <1>1, Invariance, PTL

\* Refreshes of one tab share one exchange, and with navigator.locks so do those of all
\* tabs: refresh coalesces, and #withCrossTabRefreshLock excludes.
THEOREM RefreshesShareOneExchange == Spec => []OneRefreshInFlight
<1>1. Inv /\ FlightInv => OneRefreshInFlight
  BY OneExchange
<1>. QED BY <1>1, Invariance, PTL

----------------------------------------------------------------------------
(* The cookie: which credential it is, and what answers make of it.        *)

\* Credentials that were rotated away by a refresh whose answer reached the browser,
\* or still may.
Retired == superseded \ excused

\* An answer on its way that sets the cookie, and one to a refresh that changes it.
Brings(c) == call[c].pc = "answered" /\ call[c].answer.cookie = "set"
Replaces(c) ==
  Endpoint(c) = "refresh" /\ call[c].pc = "answered" /\ call[c].answer.cookie \in {"set", "clear"}

\* With navigator.locks, or in a lone tab, refreshes follow one another.
Serial == Locks \/ (\A s, t \in Tab : s = t)

\* A credential that is on its way into the cookie is nobody's yet.
NewOK ==
  \A c \in Call : Brings(c) =>
    /\ call[c].answer.session \in 1..issued
    /\ call[c].answer.session # cookie
    /\ call[c].answer.session \notin Retired
    /\ \A d \in Call : /\ call[d].presented # call[c].answer.session
                       /\ d # c /\ Brings(d) => call[d].answer.session # call[c].answer.session

\* The cookie is expired by a logout, by a session without a credential, or by a refresh
\* that was refused.
ClearOK ==
  \A c \in Call : call[c].pc = "answered" /\ call[c].answer.cookie = "clear" =>
    \/ Endpoint(c) = "logout"
    \/ call[c].answer.status = "incomplete"
    \/ Endpoint(c) = "refresh" /\ call[c].answer.status \in {"refused", "invalid"}

\* No refresh presents a retired credential, and the cookie is one only while the
\* answer that replaces it is on its way.
RetiredOK ==
  Serial =>
    /\ \A c \in Call : Endpoint(c) = "refresh" /\ call[c].pc = "sent" =>
         call[c].presented \notin Retired
    /\ cookie \in Retired => \E c \in Call : Replaces(c) /\ call[c].presented = cookie

CookieOK == NewOK /\ ClearOK /\ RetiredOK

\* What Identity does forgets no revocation, moves no credential to another family and
\* supersedes only credentials it had issued before.
Remembers ==
  /\ superseded \subseteq superseded' /\ superseded' \subseteq 1..issued
  /\ revoked \subseteq revoked'
  /\ \A n \in 1..issued : family'[n] = family[n]
  /\ issued' = issued \/ (issued' = issued + 1)

\* Every operation of Identity remembers.
LEMMA IdentityRemembers ==
  ASSUME CredentialsOK, NEW p \in Known,
         \/ NoChange \/ Rotate(p) \/ Detect(p) \/ Revoke(p) \/ ChangePassword(p)
         \/ Issue(None) /\ UNCHANGED <<superseded, revoked>>
  PROVE  Remembers
<1>0. issued \in Nat /\ superseded \subseteq 1..issued
  BY SessionAssumption DEF CredentialsOK
<1>1. ASSUME NEW f, Issue(f)
      PROVE  issued' = issued + 1 /\ \A n \in 1..issued : family'[n] = family[n]
  BY <1>0, <1>1 DEF Issue, CredentialsOK, Credential
<1>2. CASE NoChange BY <1>0, <1>2 DEF NoChange, credentials, Remembers
<1>3. CASE Rotate(p)
  BY <1>0, <1>1, <1>3 DEF Rotate, Valid, Known, Remembers
<1>4. CASE Detect(p) \/ Revoke(p) BY <1>0, <1>4 DEF Detect, Revoke, Remembers
<1>5. CASE ChangePassword(p) BY <1>0, <1>1, <1>5 DEF ChangePassword, Remembers
<1>6. CASE Issue(None) /\ UNCHANGED <<superseded, revoked>>
  BY <1>0, <1>1, <1>6 DEF Remembers
<1>. QED BY <1>2, <1>3, <1>4, <1>5, <1>6

\* Refreshes that follow one another: only one is on the wire.
LEMMA SerialRefresh ==
  ASSUME Inv, FlightInv, Serial, NEW c \in Call, NEW d \in Call,
         RefreshOnTheWire(c), RefreshOnTheWire(d)
  PROVE  c = d
<1>1. call[c].tab \in Tab /\ call[d].tab \in Tab
  BY DEF FlightInv, TabsOK, RefreshOnTheWire
<1>. QED BY <1>1, OneExchange DEF OneRefreshInFlight, Serial

\* A step that answers a call leaves the rest to the answer: what it sets is new, what
\* it clears is for cause, and only a refresh retires, and then the credential it was
\* presented, with an answer that replaces the cookie.
LEMMA AnswerKeeps ==
  ASSUME Inv, FlightInv, CookieOK, Grows, Remembers, NEW c \in Call, call[c].pc = "sent",
         UNCHANGED cookie, NEW s, NEW e, NEW n, Respond(c, s, e, n),
         e = "set" => n = issued' /\ issued' = issued + 1,
         e = "clear" => \/ Endpoint(c) = "logout" \/ s = "incomplete"
                        \/ Endpoint(c) = "refresh" /\ s \in {"refused", "invalid"},
         \/ Retired' \subseteq Retired
         \/ /\ Endpoint(c) = "refresh" /\ e \in {"set", "clear"}
            /\ Retired' \subseteq Retired \union {call[c].presented}
  PROVE  CookieOK'
<1>1. /\ \A d \in Call : call'[d].presented = call[d].presented /\ Endpoint(d)' = Endpoint(d)
      /\ \A d \in Call \ {c} : call'[d] = call[d]
      /\ call'[c].pc = "answered"
      /\ call'[c].answer.status = s /\ call'[c].answer.cookie = e /\ call'[c].answer.session = n
  <2>1. call[c] \in Progress /\ \A d \in Call : d \in DOMAIN call
    BY DEF Inv, CallsOK
  <2>2. /\ \A d \in Call \ {c} : call'[d] = call[d]
        /\ call'[c].pc = "answered"
        /\ call'[c].presented = call[c].presented
        /\ call'[c].stage = call[c].stage /\ call'[c].op = call[c].op
        /\ call'[c].answer = [status |-> s, cookie |-> e, session |-> n]
    BY <2>1 DEF Respond, Progress
  <2>. QED BY <2>2 DEF Endpoint
<1>2. /\ issued \in Nat /\ issued' \in 0..MaxIssued /\ 1..issued \subseteq 1..issued'
      /\ cookie \in Known /\ \A d \in Call : call[d].presented \in Known
  BY SessionAssumption DEF Grows, Inv, CredentialsOK, BrowserOK, CallsOK
<1>3. e = "set" => /\ n \in 1..issued' /\ n \notin 1..issued /\ n \notin Retired' /\ n \notin Known
  BY <1>2, NoneAssumption DEF Remembers, Retired, Known, Credential
<1>4. NewOK'
  <2>. SUFFICES ASSUME NEW x \in Call, Brings(x)'
                PROVE  /\ call'[x].answer.session \in 1..issued'
                       /\ call'[x].answer.session # cookie
                       /\ call'[x].answer.session \notin Retired'
                       /\ \A d \in Call :
                            /\ call'[d].presented # call'[x].answer.session
                            /\ d # x /\ Brings(d)' => call'[d].answer.session # call'[x].answer.session
    BY DEF NewOK
  <2>0. \A d \in Call \ {c} : Brings(d)' <=> Brings(d)
    BY <1>1 DEF Brings
  <2>1. \A d \in Call : Brings(d) => call[d].answer.session \in 1..issued
    BY DEF CookieOK, NewOK
  <2>2. CASE x = c
    <3>1. e = "set" /\ call'[x].answer.session = n
      BY <1>1, <2>2 DEF Brings
    <3>. QED BY <1>1, <1>2, <1>3, <2>0, <2>1, <2>2, <3>1
  <2>3. CASE x # c
    <3>1. /\ Brings(x) /\ call'[x].answer.session = call[x].answer.session
          /\ call[x].answer.session \in 1..issued
          /\ call[x].answer.session # cookie /\ call[x].answer.session \notin Retired
          /\ \A d \in Call :
               /\ call[d].presented # call[x].answer.session
               /\ d # x /\ Brings(d) => call[d].answer.session # call[x].answer.session
      BY <1>1, <2>0, <2>3 DEF CookieOK, NewOK
    <3>2. call[x].answer.session \notin Retired'
      BY <3>1
    <3>3. Brings(c)' => call'[c].answer.session # call[x].answer.session
      BY <1>1, <1>3, <3>1 DEF Brings
    <3>. QED BY <1>1, <1>2, <2>0, <2>3, <3>1, <3>2, <3>3
  <2>. QED BY <2>2, <2>3
<1>5. ClearOK'
  <2>. SUFFICES ASSUME NEW x \in Call, call'[x].pc = "answered", call'[x].answer.cookie = "clear"
                PROVE  \/ Endpoint(x)' = "logout" \/ call'[x].answer.status = "incomplete"
                       \/ Endpoint(x)' = "refresh" /\ call'[x].answer.status \in {"refused", "invalid"}
    BY DEF ClearOK
  <2>1. CASE x = c BY <1>1, <2>1
  <2>2. CASE x # c BY <1>1, <2>2 DEF CookieOK, ClearOK
  <2>. QED BY <2>1, <2>2
<1>6. RetiredOK'
  <2>. SUFFICES ASSUME Serial
                PROVE  /\ \A d \in Call : Endpoint(d)' = "refresh" /\ call'[d].pc = "sent" =>
                            call'[d].presented \notin Retired'
                       /\ cookie \in Retired' =>
                            \E d \in Call : Replaces(d)' /\ call'[d].presented = cookie
    BY DEF RetiredOK, Serial
  <2>1. /\ \A d \in Call : Endpoint(d) = "refresh" /\ call[d].pc = "sent" => call[d].presented \notin Retired
        /\ cookie \in Retired => \E d \in Call : Replaces(d) /\ call[d].presented = cookie
    BY DEF CookieOK, RetiredOK
  <2>2. \A d \in Call \ {c} : Replaces(d)' <=> Replaces(d)
    BY <1>1 DEF Replaces
  <2>3. ~Replaces(c) BY DEF Replaces
  <2>4. CASE Retired' \subseteq Retired BY <1>1, <2>1, <2>2, <2>3, <2>4
  <2>5. CASE /\ Endpoint(c) = "refresh" /\ e \in {"set", "clear"}
             /\ Retired' \subseteq Retired \union {call[c].presented}
    <3>1. RefreshOnTheWire(c) BY <2>5 DEF RefreshOnTheWire
    <3>2. \A d \in Call : RefreshOnTheWire(d) => d = c
      BY <3>1, SerialRefresh
    <3>3. \A d \in Call : ~Replaces(d)
      BY <2>3, <3>2 DEF Replaces, RefreshOnTheWire
    <3>4. Replaces(c)'
      BY <1>1, <2>5 DEF Replaces
    <3>5. \A d \in Call : ~(Endpoint(d)' = "refresh" /\ call'[d].pc = "sent")
      BY <1>1, <3>2 DEF RefreshOnTheWire
    <3>. QED BY <1>1, <2>1, <2>5, <3>3, <3>4, <3>5
  <2>. QED BY <2>4, <2>5
<1>. QED BY <1>4, <1>5, <1>6 DEF CookieOK

\* Each answer of the gateway is one of these.
LEMMA ServeKeeps ==
  ASSUME Inv, FlightInv, CookieOK, NEW c \in Call, Serve(c)
  PROVE  CookieOK'
<1> DEFINE p == call[c].presented
           b == call[c].bearer
<1>p. p \in Known /\ b \in Known /\ None \in Known /\ CredentialsOK
  BY DEF Inv, CallsOK, Known
<1>0. Grows /\ call[c].pc = "sent" /\ UNCHANGED cookie
  BY ServeTyped DEF Typed, Serve, ServeLogin, ServeRefresh, ServeInvalidRefresh, ServeLogout,
     ServeChange, ServeFetch, ServeUnavailable, Served
<1>s. \A f : Issue(f) => issued' = issued + 1 BY DEF Issue
<1>1. CASE ServeLogin(c)
  <2>1. Retired' = Retired /\ Remembers
    BY <1>1, <1>p, IdentityRemembers DEF ServeLogin, Retired, NoChange, credentials
  <2>2. \E s, e, n : /\ Respond(c, s, e, n)
                     /\ e = "set" => n = issued' /\ issued' = issued + 1
                     /\ e = "clear" => s = "incomplete"
    BY <1>1, <1>s DEF ServeLogin, WriteBrowserSession, WriteError
  <2>. QED BY <1>0, <2>1, <2>2, AnswerKeeps
<1>2. CASE ServeRefresh(c)
  <2>0. Endpoint(c) = "refresh" BY <1>2 DEF ServeRefresh, Served
  <2>1. Remembers
    BY <1>2, <1>p, IdentityRemembers DEF ServeRefresh
  <2>2. CASE Rotate(p) /\ WriteBrowserSession(c) /\ UNCHANGED excused
    <3>1. Retired' \subseteq Retired \union {p} BY <2>2 DEF Rotate, Retired
    <3>2. \E s, e, n : /\ Respond(c, s, e, n)
                       /\ e = "set" => n = issued' /\ issued' = issued + 1
                       /\ e = "clear" => s = "incomplete"
                       /\ e \in {"set", "clear"}
      BY <1>s, <2>2 DEF Rotate, WriteBrowserSession
    <3>. QED BY <1>0, <2>0, <2>1, <3>1, <3>2, AnswerKeeps
  <2>3. CASE \E s : WriteError(c, s) /\ Retired' \subseteq Retired
    <3>1. PICK s : WriteError(c, s) /\ Retired' \subseteq Retired BY <2>3
    <3>2. Respond(c, s, "keep", None) BY <3>1 DEF WriteError
    <3>. QED BY <1>0, <2>1, <3>1, <3>2, AnswerKeeps
  <2>4. CASE Rotate(p) /\ WriteError(c, "unavailable") /\ excused' = excused \union {p}
    BY <2>3, <2>4 DEF Rotate, Retired
  <2>5. CASE NoChange /\ UNCHANGED excused /\ \E s : WriteError(c, s)
    BY <2>3, <2>5 DEF NoChange, credentials, Retired
  <2>6. CASE Detect(p) /\ WriteError(c, "unavailable") /\ UNCHANGED excused
    BY <2>3, <2>6 DEF Detect, Retired
  <2>. QED BY <1>2, <2>2, <2>4, <2>5, <2>6 DEF ServeRefresh
<1>3. CASE ServeInvalidRefresh(c)
  <2>1. /\ Endpoint(c) = "refresh"
        /\ \/ (Detect(p) \/ NoChange) /\ UNCHANGED excused
           \/ Rotate(p) /\ excused' = excused \union {p}
    BY <1>3 DEF ServeInvalidRefresh, Served
  <2>2. Remembers BY <1>p, <2>1, IdentityRemembers
  <2>3. Retired' \subseteq Retired
    BY <2>1 DEF Detect, Rotate, NoChange, credentials, Retired
  <2>4. PICK s \in {"refused", "invalid"} : Respond(c, s, "clear", None)
    BY <1>3 DEF ServeInvalidRefresh
  <2>. QED BY <1>0, <2>1, <2>2, <2>3, <2>4, AnswerKeeps
<1>4. CASE ServeLogout(c)
  <2>1. /\ Endpoint(c) = "logout" /\ (Revoke(p) \/ NoChange) /\ UNCHANGED excused
        /\ \E s, e : Respond(c, s, e, None) /\ e # "set"
    BY <1>4 DEF ServeLogout, Served, WriteError
  <2>2. Remembers BY <1>p, <2>1, IdentityRemembers
  <2>3. Retired' = Retired BY <2>1 DEF Revoke, NoChange, credentials, Retired
  <2>. QED BY <1>0, <2>1, <2>2, <2>3, AnswerKeeps
<1>5. CASE ServeChange(c)
  <2>1. /\ ChangePassword(b) \/ NoChange
        /\ excused' = excused \union (superseded' \ superseded)
    BY <1>5 DEF ServeChange
  <2>2. Remembers BY <1>p, <2>1, IdentityRemembers
  <2>3. Retired' \subseteq Retired BY <2>1 DEF Retired
  <2>4. \E s, e, n : /\ Respond(c, s, e, n)
                     /\ e = "set" => n = issued' /\ issued' = issued + 1
                     /\ e = "clear" => s = "incomplete"
    BY <1>5, <1>s DEF ServeChange, ChangePassword, WriteBrowserSession, WriteError
  <2>. QED BY <1>0, <2>2, <2>3, <2>4, AnswerKeeps
<1>6. CASE ServeFetch(c) \/ ServeUnavailable(c)
  <2>1. NoChange /\ UNCHANGED excused /\ \E s : Respond(c, s, "keep", None)
    BY <1>6 DEF ServeFetch, ServeUnavailable, WriteError
  <2>2. Remembers BY <1>p, <2>1, IdentityRemembers
  <2>3. Retired' = Retired BY <2>1 DEF NoChange, credentials, Retired
  <2>. QED BY <1>0, <2>1, <2>2, <2>3, AnswerKeeps
<1>. QED BY <1>1, <1>2, <1>3, <1>4, <1>5, <1>6 DEF Serve

\* A step away from the cookie: calls that move are neither sent nor answered after it
\* and present what they presented, and what an answer it loses retired is excused.
LEMMA QuietKeeps ==
  ASSUME Inv, CookieOK, UNCHANGED <<credentials, cookie>>, Retired' \subseteq Retired,
         \A d \in Call :
           \/ call'[d] = call[d]
           \/ /\ call'[d].pc \notin {"sent", "answered"}
              /\ call'[d].presented \in {call[d].presented, None}
              /\ Replaces(d) => call[d].presented \notin Retired'
  PROVE  CookieOK'
<1>1. /\ \A d \in Call : Brings(d)' => Brings(d) /\ call'[d] = call[d]
      /\ \A d \in Call : call'[d].pc \in {"sent", "answered"} => call'[d] = call[d]
      /\ \A d \in Call : call'[d].presented \in {call[d].presented, None}
      /\ \A d \in Call : call'[d] = call[d] => Endpoint(d)' = Endpoint(d) /\ (Replaces(d)' <=> Replaces(d))
  BY DEF Brings, Replaces, Endpoint
<1>2. /\ issued' = issued /\ superseded' = superseded /\ revoked' = revoked /\ family' = family
      /\ cookie' = cookie
  BY DEF credentials
<1>3. \A n \in 1..issued : n # None
  BY SessionAssumption, NoneAssumption DEF Inv, CredentialsOK, Credential
<1>4. NewOK'
  BY <1>1, <1>2, <1>3 DEF CookieOK, NewOK
<1>5. ClearOK'
  BY <1>1 DEF CookieOK, ClearOK
<1>6. RetiredOK'
  BY <1>1, <1>2 DEF CookieOK, RetiredOK, Serial
<1>. QED BY <1>4, <1>5, <1>6 DEF CookieOK

\* The steps of the client and of the network that leave the cookie alone.
LEMMA ClientKeeps ==
  ASSUME Inv, CookieOK,
         \/ \E c \in Call : Acquire(c) \/ Receive(c) \/ Settle(c) \/ NetworkFails(c)
         \/ \E c \in Call, t \in Tab, o \in Ops : Begin(c, t, o)
         \/ \E t \in Tab : Reload(t)
  PROVE  CookieOK'
<1>p. /\ call \in [Call -> Progress]
      /\ \A d \in Call : call[d] \in Progress
  BY DEF Inv, CallsOK
<1>i. Idle.pc = "idle" /\ Idle.presented = None
  BY DEF Idle
<1> DEFINE Still(d) == call'[d] = call[d]
           Aside(d) == call'[d].pc \notin {"sent", "answered"} /\ call'[d].presented \in {call[d].presented, None}
<1>j. ASSUME NEW c \in Call, NEW k \in Progress, k.presented \in {call[c].presented, None}, JoinOrLead(c, k)
      PROVE  \A d \in Call : Still(d) \/ (d = c /\ Aside(d))
  <2>1. PICK q \in {"joined", "lock"} : call' = [call EXCEPT ![c] = [k EXCEPT !.pc = q]]
    BY <1>j DEF JoinOrLead
  <2>2. /\ \A d \in Call \ {c} : call'[d] = call[d]
        /\ call'[c] = [k EXCEPT !.pc = q]
    BY <1>p, <2>1
  <2>3. [k EXCEPT !.pc = q].pc = q /\ [k EXCEPT !.pc = q].presented = k.presented
    BY DEF Progress
  <2>. QED BY <1>j, <2>2, <2>3
<1>f. ASSUME NEW ended, Finish(ended)
      PROVE  \A d \in Call : Still(d) \/ (d \in ended /\ Aside(d))
  BY <1>f, <1>i DEF Finish
<1>1. ASSUME NEW c \in Call, Acquire(c) \/ Receive(c) PROVE CookieOK'
  <2>1. UNCHANGED <<credentials, cookie>> /\ Retired' = Retired /\ call[c].pc \in {"lock", "received"}
    BY <1>1 DEF Acquire, Receive, ReceiveLogin, ReceiveLogout, ReceiveRefusal, ReceiveResult,
       ReceiveRefresh, Received, identity, credentials, Retired
  <2>2. \A d \in Call : Still(d) \/ (d = c /\ Aside(d))
    <3>1. CASE Acquire(c)
      <4>1. call' = [call EXCEPT ![c] = [call[c] EXCEPT !.pc = "leaving"]] BY <3>1 DEF Acquire
      <4>. QED BY <1>p, <4>1 DEF Progress
    <3>2. CASE ReceiveLogin(c) \/ ReceiveLogout(c) \/ ReceiveResult(c)
      <4>1. Finish({c}) BY <3>2 DEF ReceiveLogin, ReceiveLogout, ReceiveResult
      <4>. QED BY <1>f, <4>1
    <3>3. CASE ReceiveRefusal(c)
      <4> DEFINE k == [call[c] EXCEPT !.stage = "refresh", !.answer = NoAnswer]
      <4>1. k \in Progress /\ k.presented = call[c].presented
        BY <1>p DEF Progress, NoAnswer, Answer, Status
      <4>2. JoinOrLead(c, k) BY <3>3 DEF ReceiveRefusal
      <4>. HIDE DEF k
      <4>. QED BY <1>j, <4>1, <4>2
    <3>4. CASE ReceiveRefresh(c)
      <4>1. call' = [call EXCEPT ![c] = [call[c] EXCEPT !.pc = "settling"]] BY <3>4 DEF ReceiveRefresh
      <4>. QED BY <1>p, <4>1 DEF Progress
    <3>. QED BY <1>1, <3>1, <3>2, <3>3, <3>4 DEF Receive
  <2>. HIDE DEF Still, Aside
  <2>3. ~Replaces(c) BY <2>1 DEF Replaces
  <2>. QED BY <2>1, <2>2, <2>3, QuietKeeps DEF Still, Aside
<1>2. ASSUME NEW c \in Call, Settle(c) PROVE CookieOK'
  <2>1. UNCHANGED <<credentials, cookie>> /\ Retired' = Retired
    BY <1>2 DEF Settle, identity, credentials, Retired
  <2>2. \A d \in Call : Still(d) \/ (d \in Waiting(c) /\ Aside(d))
    <3>1. CASE Finish(Waiting(c)) BY <1>f, <3>1
    <3>2. CASE call' = [d \in Call |-> IF d \notin Waiting(c) THEN call[d]
                                       ELSE IF call[d].op = "refresh" THEN Idle ELSE Replayed(d)]
      <4>1. \A d \in Call : Replayed(d).pc = "leaving" /\ Replayed(d).presented = call[d].presented
        BY <1>p DEF Replayed, Progress
      <4>. QED BY <1>i, <3>2, <4>1
    <3>. QED BY <1>2, <3>1, <3>2 DEF Settle
  <2>3. \A d \in Waiting(c) : ~Replaces(d)
    BY <1>2 DEF Settle, Waiting, Replaces
  <2>. HIDE DEF Still, Aside
  <2>. QED BY <2>1, <2>2, <2>3, QuietKeeps DEF Still, Aside
<1>a. ASSUME NEW cs, cs \subseteq Call, Abandon(cs), UNCHANGED <<credentials, cookie>>
      PROVE  /\ Retired' \subseteq Retired
             /\ \A d \in cs : Replaces(d) => call[d].presented \notin Retired'
  <2>1. excused' = excused \union (superseded \intersect
                     {call[c].presented : c \in {d \in cs : call[d].pc = "answered" /\ Endpoint(d) = "refresh"}})
    BY <1>a DEF Abandon
  <2>2. superseded' = superseded BY <1>a DEF credentials
  <2>. QED BY <2>1, <2>2 DEF Retired, Replaces
<1>3. ASSUME NEW c \in Call, NetworkFails(c) PROVE CookieOK'
  <2>1. UNCHANGED <<credentials, cookie>> /\ Abandon({c}) /\ Continue(c, "failed", None)
    BY <1>3 DEF NetworkFails
  <2>2. \A d \in Call : Still(d) \/ (d = c /\ Aside(d))
    <3> DEFINE k == [call[c] EXCEPT !.pc = "received", !.presented = None, !.bearer = None,
                       !.answer = [status |-> "failed", cookie |-> "keep", session |-> None]]
    <3>1. call' = [call EXCEPT ![c] = k] BY <2>1 DEF Continue
    <3>2. k.pc = "received" /\ k.presented = None BY <1>p DEF Progress
    <3>. HIDE DEF k
    <3>. QED BY <1>p, <3>1, <3>2
  <2>3. Retired' \subseteq Retired /\ (Replaces(c) => call[c].presented \notin Retired')
    BY <1>a, <2>1
  <2>. HIDE DEF Still, Aside
  <2>. QED BY <2>1, <2>2, <2>3, QuietKeeps DEF Still, Aside
<1>4. ASSUME NEW c \in Call, NEW t \in Tab, NEW o \in Ops, Begin(c, t, o) PROVE CookieOK'
  <2>1. UNCHANGED <<credentials, cookie>> /\ Retired' = Retired /\ call[c].pc = "idle" /\ o \in Op
    BY <1>4, SessionAssumption DEF Begin, identity, credentials, Retired
  <2>2. \A d \in Call : Still(d) \/ (d = c /\ Aside(d))
    <3>1. CASE o = "refresh" /\ JoinOrLead(c, [Idle EXCEPT !.tab = t, !.op = o, !.stage = "refresh"])
      <4> DEFINE k == [Idle EXCEPT !.tab = t, !.op = o, !.stage = "refresh"]
      <4>1. k \in Progress /\ k.presented = None
        BY <2>1, IdleTyped DEF Progress
      <4>2. JoinOrLead(c, k) BY <3>1
      <4>. HIDE DEF k
      <4>. QED BY <1>j, <4>1, <4>2
    <3>2. CASE call' = [call EXCEPT ![c] = [Idle EXCEPT !.pc = "leaving", !.tab = t, !.op = o,
                                                       !.bearer = accessToken[t]]]
      <4> DEFINE k == [Idle EXCEPT !.pc = "leaving", !.tab = t, !.op = o, !.bearer = accessToken[t]]
      <4>1. k.pc = "leaving" /\ k.presented = None BY DEF Idle
      <4>2. call' = [call EXCEPT ![c] = k] BY <3>2
      <4>. HIDE DEF k
      <4>. QED BY <1>p, <4>1, <4>2
    <3>. QED BY <1>4, <3>1, <3>2 DEF Begin
  <2>3. ~Replaces(c) BY <2>1 DEF Replaces
  <2>. HIDE DEF Still, Aside
  <2>. QED BY <2>1, <2>2, <2>3, QuietKeeps DEF Still, Aside
<1>5. ASSUME NEW t \in Tab, Reload(t) PROVE CookieOK'
  <2> DEFINE gone == {c \in Call : call[c].tab = t}
  <2>1. UNCHANGED <<credentials, cookie>> /\ Abandon(gone) /\ Finish(gone)
    BY <1>5 DEF Reload
  <2>2. gone \subseteq Call OBVIOUS
  <2>. HIDE DEF gone
  <2>3. \A d \in Call : Still(d) \/ (d \in gone /\ Aside(d))
    BY <1>f, <2>1
  <2>4. Retired' \subseteq Retired /\ \A d \in gone : Replaces(d) => call[d].presented \notin Retired'
    BY <1>a, <2>1, <2>2
  <2>. HIDE DEF Still, Aside
  <2>. QED BY <2>1, <2>3, <2>4, QuietKeeps DEF Still, Aside
<1>. QED BY <1>1, <1>2, <1>3, <1>4, <1>5

\* A request that leaves takes the cookie along: a refresh finds it retired only while
\* another refresh is on the wire.
LEMMA LeaveKeeps ==
  ASSUME Inv, FlightInv, CookieOK, NEW c \in Call, Leave(c)
  PROVE  CookieOK'
<1> DEFINE taken == IF Endpoint(c) \in {"refresh", "logout"} THEN cookie ELSE None
<1>1. /\ call[c].pc = "leaving"
      /\ \A d \in Call \ {c} : call'[d] = call[d]
      /\ call'[c].pc = "sent" /\ call'[c].presented = taken
      /\ call'[c].stage = call[c].stage /\ call'[c].op = call[c].op
  <2>1. call \in [Call -> Progress] BY DEF Inv, CallsOK
  <2>2. call' = [call EXCEPT ![c] = [call[c] EXCEPT !.pc = "sent", !.presented = taken]]
    BY DEF Leave
  <2> DEFINE k == [call[c] EXCEPT !.pc = "sent", !.presented = taken]
  <2>3. /\ k.pc = "sent" /\ k.presented = taken
        /\ k.stage = call[c].stage /\ k.op = call[c].op
    <3>1. call[c] \in Progress BY <2>1
    <3>. HIDE DEF taken
    <3>. QED BY <3>1 DEF Progress
  <2>4. call' = [call EXCEPT ![c] = k] BY <2>2
  <2>. HIDE DEF k, taken
  <2>. QED BY <2>1, <2>3, <2>4 DEF Leave
<1>2. taken \in {cookie, None} /\ (Endpoint(c) = "refresh" => taken = cookie)
  OBVIOUS
<1>. HIDE DEF taken
<1>3. /\ issued' = issued /\ superseded' = superseded /\ revoked' = revoked /\ family' = family
      /\ cookie' = cookie /\ excused' = excused /\ Retired' = Retired
  BY DEF Leave, identity, credentials, Retired
<1>4. /\ \A d \in Call : Endpoint(d)' = Endpoint(d)
      /\ \A d \in Call : Brings(d)' <=> Brings(d) /\ d # c
      /\ \A d \in Call : Replaces(d)' <=> Replaces(d) /\ d # c
      /\ ~Brings(c) /\ ~Replaces(c)
  BY <1>1 DEF Endpoint, Brings, Replaces
<1>5. \A n \in 1..issued : n # None
  BY SessionAssumption, NoneAssumption DEF Inv, CredentialsOK, Credential
<1>6. NewOK'
  <2>. SUFFICES ASSUME NEW x \in Call, Brings(x)'
                PROVE  /\ call'[x].answer.session \in 1..issued
                       /\ call'[x].answer.session # cookie
                       /\ call'[x].answer.session \notin Retired
                       /\ \A d \in Call :
                            /\ call'[d].presented # call'[x].answer.session
                            /\ d # x /\ Brings(d)' => call'[d].answer.session # call'[x].answer.session
    BY <1>3 DEF NewOK
  <2>1. /\ x # c /\ call'[x] = call[x] /\ Brings(x)
        /\ call[x].answer.session \in 1..issued
        /\ call[x].answer.session # cookie
        /\ call[x].answer.session \notin Retired
        /\ \A d \in Call : /\ call[d].presented # call[x].answer.session
                           /\ d # x /\ Brings(d) => call[d].answer.session # call[x].answer.session
    BY <1>1, <1>4 DEF CookieOK, NewOK
  <2>. QED BY <1>1, <1>2, <1>4, <1>5, <2>1
<1>7. ClearOK'
  BY <1>1, <1>4 DEF CookieOK, ClearOK
<1>8. RetiredOK'
  <2>. SUFFICES ASSUME Serial
                PROVE  /\ \A d \in Call : Endpoint(d)' = "refresh" /\ call'[d].pc = "sent" =>
                            call'[d].presented \notin Retired
                       /\ cookie \in Retired =>
                            \E d \in Call : Replaces(d)' /\ call'[d].presented = cookie
    BY <1>3 DEF RetiredOK, Serial
  <2>1. /\ \A d \in Call : Endpoint(d) = "refresh" /\ call[d].pc = "sent" => call[d].presented \notin Retired
        /\ cookie \in Retired => \E d \in Call : Replaces(d) /\ call[d].presented = cookie
    BY DEF CookieOK, RetiredOK
  <2>2. ASSUME Endpoint(c) = "refresh" PROVE cookie \notin Retired
    <3>1. RefreshOnTheWire(c) BY <1>1, <2>2 DEF RefreshOnTheWire
    <3>2. \A d \in Call : ~Replaces(d)
      BY <1>4, <3>1, SerialRefresh DEF Replaces, RefreshOnTheWire
    <3>. QED BY <2>1, <3>2
  <2>. QED BY <1>1, <1>2, <1>4, <2>1, <2>2
<1>. QED BY <1>6, <1>7, <1>8 DEF CookieOK

\* What the arrival of an answer does to its call and to the cookie.
LEMMA DeliverEffect ==
  ASSUME Inv, NEW c \in Call, Deliver(c)
  PROVE  /\ call[c].pc = "answered" /\ call'[c].pc = "received"
         /\ \A d \in Call \ {c} : call'[d] = call[d]
         /\ call'[c].presented = None
         /\ call[c].answer.cookie \in {"set", "clear", "keep"}
         /\ call[c].answer.cookie = "set" => cookie' = call[c].answer.session
         /\ call[c].answer.cookie = "clear" => cookie' = None
         /\ call[c].answer.cookie = "keep" => cookie' = cookie
<1>1. call \in [Call -> Progress] /\ call[c] \in Progress BY DEF Inv, CallsOK
<1>2. PICK n : Continue(c, call[c].answer.status, n) BY DEF Deliver
<1> DEFINE k == [call[c] EXCEPT !.pc = "received", !.presented = None, !.bearer = None,
                   !.answer = [status |-> call[c].answer.status, cookie |-> "keep", session |-> n]]
<1>3. call' = [call EXCEPT ![c] = k] BY <1>2 DEF Continue
<1>4. k.pc = "received" /\ k.presented = None BY <1>1 DEF Progress
<1>. HIDE DEF k
<1>5. /\ call'[c].pc = "received" /\ call'[c].presented = None
      /\ \A d \in Call \ {c} : call'[d] = call[d]
  BY <1>1, <1>3, <1>4
<1>6. call[c].answer.cookie \in {"set", "clear", "keep"}
  BY <1>1 DEF Progress, Answer
<1>. QED BY <1>5, <1>6 DEF Deliver

\* The cookie that an answer sets is new, so that nothing else refers to it.
LEMMA DeliverKeeps ==
  ASSUME Inv, CookieOK, NEW c \in Call, Deliver(c)
  PROVE  CookieOK'
<1>1. /\ call[c].pc = "answered" /\ call'[c].pc = "received"
      /\ \A d \in Call \ {c} : call'[d] = call[d]
      /\ call'[c].presented = None
      /\ call[c].answer.cookie \in {"set", "clear", "keep"}
      /\ call[c].answer.cookie = "set" => cookie' = call[c].answer.session
      /\ call[c].answer.cookie = "clear" => cookie' = None
      /\ call[c].answer.cookie = "keep" => cookie' = cookie
  BY DeliverEffect
<1>2. /\ issued' = issued /\ superseded' = superseded /\ revoked' = revoked /\ family' = family
      /\ Retired' = Retired
  BY DEF Deliver, identity, credentials, Retired
<1>3. /\ \A d \in Call : Brings(d)' <=> Brings(d) /\ d # c
      /\ \A d \in Call : Replaces(d)' <=> Replaces(d) /\ d # c
      /\ \A d \in Call \ {c} : Endpoint(d)' = Endpoint(d)
      /\ Brings(c) <=> call[c].answer.cookie = "set"
  BY <1>1 DEF Endpoint, Brings, Replaces
<1>4. /\ \A n \in 1..issued : n # None
      /\ None \notin Retired
  <2>1. \A n \in 1..issued : n # None
    BY SessionAssumption, NoneAssumption DEF Inv, CredentialsOK, Credential
  <2>2. Retired \subseteq 1..issued BY DEF Inv, CredentialsOK, Retired
  <2>. QED BY <2>1, <2>2
<1>5. \A x \in Call : Brings(x) =>
        /\ call[x].answer.session \in 1..issued
        /\ call[x].answer.session # cookie
        /\ call[x].answer.session \notin Retired
        /\ \A d \in Call : /\ call[d].presented # call[x].answer.session
                           /\ d # x /\ Brings(d) => call[d].answer.session # call[x].answer.session
  BY DEF CookieOK, NewOK
<1>6. NewOK'
  <2>. SUFFICES ASSUME NEW x \in Call, Brings(x)'
                PROVE  /\ call'[x].answer.session \in 1..issued
                       /\ call'[x].answer.session # cookie'
                       /\ call'[x].answer.session \notin Retired
                       /\ \A d \in Call :
                            /\ call'[d].presented # call'[x].answer.session
                            /\ d # x /\ Brings(d)' => call'[d].answer.session # call'[x].answer.session
    BY <1>2 DEF NewOK
  <2>1. x # c /\ Brings(x) /\ call'[x] = call[x] BY <1>1, <1>3
  <2>2. call[x].answer.session # cookie' BY <1>1, <1>3, <1>4, <1>5, <2>1
  <2>. QED BY <1>1, <1>3, <1>4, <1>5, <2>1, <2>2
<1>7. ClearOK'
  <2>1. \A d \in Call : call'[d].pc = "answered" => d # c BY <1>1
  <2>. QED BY <1>1, <1>3, <2>1 DEF CookieOK, ClearOK
<1>8. RetiredOK'
  <2>1. cookie' \in Retired => call[c].answer.cookie = "keep" /\ cookie' = cookie
    BY <1>1, <1>3, <1>4, <1>5
  <2>2. call[c].answer.cookie = "keep" => ~Replaces(c) BY DEF Replaces
  <2>. QED BY <1>1, <1>2, <1>3, <2>1, <2>2 DEF CookieOK, RetiredOK, Serial
<1>. QED BY <1>6, <1>7, <1>8 DEF CookieOK

\* A request that outlived its caller retires nothing that is not excused.
LEMMA OrphanKeeps ==
  ASSUME Inv, CookieOK, ServeOrphan
  PROVE  CookieOK'
<1>1. PICK r \in orphans :
        /\ \/ Rotate(r.carries) \/ Detect(r.carries) \/ Revoke(r.carries)
           \/ ChangePassword(r.carries) \/ NoChange
        /\ excused' = excused \union (superseded' \ superseded)
        /\ UNCHANGED <<cookie, call>>
  BY DEF ServeOrphan
<1>2. r.carries \in Known /\ CredentialsOK /\ issued \in Nat
  BY SessionAssumption DEF Inv, Request, Known, CredentialsOK
<1>3. Remembers BY <1>1, <1>2, IdentityRemembers
<1>4. Retired' \subseteq Retired BY <1>1 DEF Retired
<1>5. /\ call' = call /\ cookie' = cookie
      /\ \A d \in Call : call[d].presented \in Known
      /\ 1..issued \subseteq 1..issued'
  BY <1>1, <1>2, <1>3 DEF Inv, CallsOK, Remembers
<1>6. NewOK' BY <1>4, <1>5 DEF CookieOK, NewOK, Brings
<1>7. ClearOK' BY <1>5 DEF CookieOK, ClearOK, Endpoint
<1>8. RetiredOK' BY <1>4, <1>5 DEF CookieOK, RetiredOK, Serial, Endpoint, Replaces
<1>. QED BY <1>6, <1>7, <1>8 DEF CookieOK

\* CookieOK is inductive, beside the types and what is known of refreshes in flight.
LEMMA StepKeeps == Inv /\ FlightInv /\ CookieOK /\ [Next]_vars => CookieOK'
<1>. SUFFICES ASSUME Inv, FlightInv, CookieOK, [Next]_vars PROVE CookieOK' OBVIOUS
<1>1. CASE UNCHANGED vars
  BY <1>1 DEF vars, identity, credentials, CookieOK, NewOK, ClearOK, RetiredOK, Retired, Brings,
     Replaces, Endpoint, Serial
<1>2. ASSUME NEW c \in Call, Step(c) PROVE CookieOK'
  BY <1>2, ClientKeeps, LeaveKeeps, ServeKeeps, DeliverKeeps DEF Step
<1>3. ASSUME Environment PROVE CookieOK'
  BY <1>3, ClientKeeps, OrphanKeeps DEF Environment
<1>. QED BY <1>1, <1>2, <1>3 DEF Next

\* The invariant of the cookie holds throughout.
LEMMA CookieInvariance == Spec => [](Inv /\ FlightInv /\ CookieOK)
<1>1. Init => CookieOK
  BY DEF Init, CookieOK, NewOK, ClearOK, RetiredOK, Retired, Brings, Replaces, Idle
<1>. QED BY <1>1, StepKeeps, Invariance, PTL DEF Spec

\* With navigator.locks, or in a lone tab, no refresh presents a credential that was
\* rotated away, unless the answer that carried its successor was lost or a password
\* change superseded it: overlapping tabs, logins, logouts and refreshes never make
\* Identity revoke the family.
THEOREM RefreshReusesOnlyAfterLoss == Spec => []ReuseOnlyAfterLoss
<1>1. CookieOK => ReuseOnlyAfterLoss
  BY DEF CookieOK, RetiredOK, ReuseOnlyAfterLoss, Serial, Retired
<1>. QED BY <1>1, CookieInvariance, PTL

\* With navigator.locks, or in a lone tab, the cookie is a credential that a refresh
\* rotated away only while the answer that replaces or clears it is on its way: answers
\* that arrive late or out of order never bring a spent credential back.
THEOREM SpentCookieIsReplaced == Spec => []SpentCookieAwaitsAnswer
<1>1. CookieOK => SpentCookieAwaitsAnswer
  BY DEF CookieOK, RetiredOK, SpentCookieAwaitsAnswer, Serial, Retired, Replaces
<1>. QED BY <1>1, CookieInvariance, PTL

\* A cookie that Identity would still accept goes only by a logout, by a refresh that was
\* refused, or by a session that came without a credential: no outage and no answer to
\* any other request drops it.
THEOREM LiveCookieGoesForCause == Spec => LiveCookieDroppedForCause
<1> DEFINE Cause(c) ==
      /\ call[c].pc = "answered" /\ call'[c].pc = "received"
      /\ \/ Endpoint(c) = "logout"
         \/ call[c].answer.status = "incomplete"
         \/ Endpoint(c) = "refresh" /\ call[c].answer.status \in {"refused", "invalid"}
<1>1. ASSUME Inv, CookieOK, [Next]_vars, Valid(cookie), cookie' = None
      PROVE  \E c \in Call : Cause(c)
  <2>1. cookie # None BY <1>1 DEF Valid
  <2>2. PICK c \in Call : Deliver(c)
    <3>1. CASE UNCHANGED vars BY <1>1, <2>1, <3>1 DEF vars
    <3>2. CASE Environment
      BY <1>1, <2>1, <3>2 DEF Environment, Begin, ServeOrphan, Reload
    <3>3. ASSUME NEW c \in Call, Step(c) PROVE Deliver(c)
      BY <1>1, <2>1, <3>3 DEF Step, Acquire, Leave, NetworkFails, Settle,
         Serve, ServeLogin, ServeRefresh, ServeInvalidRefresh, ServeLogout, ServeChange,
         ServeFetch, ServeUnavailable, Served,
         Receive, ReceiveLogin, ReceiveLogout, ReceiveRefusal, ReceiveResult, ReceiveRefresh, Received
    <3>. QED BY <1>1, <3>1, <3>2, <3>3 DEF Next
  <2>3. /\ call[c].pc = "answered" /\ call'[c].pc = "received"
        /\ call[c].answer.cookie \in {"set", "clear", "keep"}
        /\ call[c].answer.cookie = "set" => cookie' = call[c].answer.session
        /\ call[c].answer.cookie = "keep" => cookie' = cookie
    BY <1>1, <2>2, DeliverEffect
  <2>4. call[c].answer.cookie # "set"
    <3>1. \A n \in 1..issued : n # None
      BY <1>1, SessionAssumption, NoneAssumption DEF Inv, CredentialsOK, Credential
    <3>. QED BY <1>1, <2>3, <3>1 DEF CookieOK, NewOK, Brings
  <2>5. call[c].answer.cookie = "clear" BY <1>1, <2>1, <2>3, <2>4
  <2>. QED BY <1>1, <2>3, <2>5 DEF CookieOK, ClearOK, Cause
<1>2. Inv /\ CookieOK /\ [Next]_vars =>
        [Valid(cookie) /\ cookie' = None => \E c \in Call : Cause(c)]_vars
  BY <1>1
<1>. QED BY <1>2, CookieInvariance, PTL DEF Spec, LiveCookieDroppedForCause

=============================================================================
