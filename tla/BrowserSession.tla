--------------------------- MODULE BrowserSession ---------------------------
(***************************************************************************)
(* One browser's session: the IdentityClient of each tab                   *)
(* (browser/src/client.ts), the refresh cookie the tabs share, the         *)
(* gateway's session handlers (browsergateway/session.go, credentials.go)  *)
(* and the Identity service, which rotates a refresh credential when it is *)
(* used and revokes its family when it is used again.                      *)
(*                                                                         *)
(* A refresh credential and the access token issued with it are one        *)
(* number; a family is named by its first credential.  An exchange is      *)
(* Leave (the cookie is attached), one of the Serve actions, Deliver (the  *)
(* cookie is changed) and a Receive action, the tab's continuation; the    *)
(* network may fail before or after Serve.                                 *)
(***************************************************************************)
EXTENDS Integers, FiniteSets

CONSTANTS
  Tab,           \* tabs of the browser
  Call,          \* calls in progress, in any tab
  Ops,           \* the operations callers use
  MaxIssued,     \* bound on the credentials issued
  MaxOrphans,    \* bound on the requests that outlive their caller
  Locks,         \* is navigator.locks there
  HostResolves,  \* is ResolveRefreshSessionWorkspace configured
  None           \* no credential, no call, no tab

\* "login" is any way to a first session; "fetch" an authorizedFetch that is
\* replay-safe, or currentSession.  One that is not changes nothing here.
Op == {"login", "refresh", "logout", "change", "fetch"}

ASSUME SessionAssumption ==
  /\ Tab # {} /\ Ops \subseteq Op
  /\ MaxIssued \in Nat /\ MaxOrphans \in Nat
  /\ Locks \in BOOLEAN /\ HostResolves \in BOOLEAN

Credential == 1..MaxIssued

ASSUME NoneAssumption == None \notin Credential \union Call \union Tab

\* "refused" is 401, and 403 in answer to a refresh, which treats them alike;
\* "invalid" 400 in answer to a refresh, any other 4xx in answer to the rest;
\* "incomplete" a session without a refresh credential; "unavailable" every other
\* error that is answered; "failed" no answer at all.
Status == {"ok", "refused", "invalid", "incomplete", "unavailable", "failed"}

\* What the gateway answers: a status, what it does to the cookie, and the session.
Answer == [status : Status, cookie : {"set", "clear", "keep"},
           session : Credential \union {None}]

\* Where a call stands, in which tab, what it does, its current exchange (the first,
\* a refresh or the replay), the cookie and the access token that exchange carries,
\* and the answer to it.
Progress ==
  [pc : {"idle", "lock", "joined", "leaving", "sent", "answered", "received", "settling"},
   tab : Tab \union {None}, op : Op, stage : {"first", "refresh", "replay"},
   presented : Credential \union {None}, bearer : Credential \union {None},
   answer : Answer]

VARIABLES
  issued,           \* number of credentials issued so far
  family,           \* the family of each
  superseded,       \* credentials that were rotated away
  revoked,          \* families that were revoked
  orphans,          \* requests Identity may yet carry out for nobody
  cookie,           \* the browser's refresh cookie
  lock,             \* the call that holds the cross-tab lock
  accessToken,      \* IdentityClient.#accessToken in each tab
  refreshInFlight,  \* IdentityClient.#refreshInFlight: the call that leads it
  call,             \* the calls' progress
  excused           \* history: credentials superseded by a password change, or by
                    \* a refresh whose answer did not reach the browser

credentials == <<issued, family, superseded, revoked>>
identity == <<credentials, orphans>>
client == <<accessToken, refreshInFlight, lock>>
vars == <<identity, cookie, client, call, excused>>

NoAnswer == [status |-> "failed", cookie |-> "keep", session |-> None]

Idle == [pc |-> "idle", tab |-> None, op |-> "login", stage |-> "first",
         presented |-> None, bearer |-> None, answer |-> NoAnswer]

Init ==
  /\ issued = 0
  /\ family = [n \in Credential |-> None]
  /\ superseded = {} /\ revoked = {} /\ orphans = {}
  /\ cookie = None
  /\ lock = None
  /\ accessToken = [t \in Tab |-> None]
  /\ refreshInFlight = [t \in Tab |-> None]
  /\ call = [c \in Call |-> Idle]
  /\ excused = {}

\* The endpoint of a call's current exchange.
Endpoint(c) == IF call[c].stage = "refresh" THEN "refresh" ELSE call[c].op

----------------------------------------------------------------------------
(* Identity.                                                               *)

Valid(n) == n # None /\ n \notin superseded /\ family[n] \notin revoked

\* An access token Identity or a downstream service may still accept; it may also have
\* expired, so that a refusal is always possible.
LiveToken(n) == n # None /\ family[n] \notin revoked

NoChange == UNCHANGED credentials

\* A new credential of family f, or of a family of its own.
Issue(f) ==
  /\ issued < MaxIssued
  /\ issued' = issued + 1
  /\ family' = [family EXCEPT ![issued + 1] = IF f = None THEN issued + 1 ELSE f]

Rotate(p) ==
  /\ Valid(p)
  /\ Issue(family[p])
  /\ superseded' = superseded \union {p}
  /\ UNCHANGED revoked

\* Presenting a superseded credential revokes its family.
Detect(p) ==
  /\ p # None /\ ~Valid(p)
  /\ revoked' = revoked \union (IF p \in superseded THEN {family[p]} ELSE {})
  /\ UNCHANGED <<issued, family, superseded>>

Revoke(p) ==
  /\ revoked' = revoked \union {family[p]}
  /\ UNCHANGED <<issued, family, superseded>>

\* A password change continues the session under a new credential, or replaces it
\* by a new session.
ChangePassword(b) ==
  /\ LiveToken(b)
  /\ \/ /\ Issue(family[b])
        /\ superseded' = superseded \union {n \in 1..issued : family[n] = family[b]}
        /\ UNCHANGED revoked
     \/ /\ Issue(None)
        /\ revoked' = revoked \union {family[b]}
        /\ UNCHANGED superseded

\* A request that the browser or the gateway has given up on reaches Identity late.
ServeOrphan ==
  \E r \in orphans :
    /\ orphans' = orphans \ {r}
    /\ \/ r.endpoint = "refresh" /\ (Rotate(r.carries) \/ Detect(r.carries))
       \/ r.endpoint = "logout" /\ Revoke(r.carries)
       \/ r.endpoint = "change" /\ ChangePassword(r.carries)
       \/ r.endpoint = "change" /\ NoChange
    /\ excused' = excused \union (superseded' \ superseded)
    /\ UNCHANGED <<cookie, client, call>>

----------------------------------------------------------------------------
(* The gateway.                                                            *)

\* The answer of the gateway; the request's token is not read again.
Respond(c, status, effect, n) ==
  call' = [call EXCEPT ![c].pc = "answered", ![c].bearer = None,
                       ![c].answer = [status |-> status, cookie |-> effect, session |-> n]]

\* Mutant: a session that came without a credential keeps the cookie.
WriteBrowserSessionKeeping(c) ==
  \/ Respond(c, "ok", "set", issued')
  \/ Respond(c, "incomplete", "keep", None)

\* writeBrowserSession: the credential just issued becomes the cookie; a session
\* that came without one expires the cookie.
WriteBrowserSession(c) ==
  \/ Respond(c, "ok", "set", issued')
  \/ Respond(c, "incomplete", "clear", None)

\* writeError and writeCode: the cookie stays as it is.
WriteError(c, status) == Respond(c, status, "keep", None)

\* Mutant: Identity is asked even when the request carries no credential.
PendingUnchecked(c) ==
  LET carried == IF Endpoint(c) = "change" THEN call[c].bearer ELSE call[c].presented IN
  IF Endpoint(c) \in {"refresh", "logout", "change"}
    THEN {[endpoint |-> Endpoint(c), carries |-> carried]} ELSE {}

\* What Identity may yet do with the credential or the token of a request.
Pending(c) ==
  LET carried == IF Endpoint(c) = "change" THEN call[c].bearer ELSE call[c].presented IN
  IF Endpoint(c) \in {"refresh", "logout", "change"} /\ carried # None
    THEN {[endpoint |-> Endpoint(c), carries |-> carried]} ELSE {}

\* Of these requests, whose caller is gone, any may still reach Identity.
Orphan(requests) ==
  \E rs \in SUBSET requests :
    /\ orphans' = orphans \union rs
    /\ rs # {} => Cardinality(orphans') <= MaxOrphans

Served(c, endpoints) ==
  /\ call[c].pc = "sent" /\ Endpoint(c) \in endpoints
  /\ UNCHANGED <<cookie, client>>

\* The gateway's own request to Identity fails, and may yet be carried out.
ServeUnavailable(c) ==
  /\ Served(c, {"login", "refresh", "change"})
  /\ Endpoint(c) = "refresh" => call[c].presented # None
  /\ WriteError(c, "unavailable")
  /\ Orphan(Pending(c))
  /\ NoChange /\ UNCHANGED excused

\* A login may be answered by a challenge, which is no session yet.
ServeLogin(c) ==
  /\ Served(c, {"login"})
  /\ \/ Issue(None) /\ UNCHANGED <<superseded, revoked>> /\ WriteBrowserSession(c)
     \/ NoChange /\ \E s \in {"ok", "invalid"} : WriteError(c, s)
  /\ UNCHANGED <<orphans, excused>>

\* Mutant: any failed refresh expires the cookie.
ServeFailedRefreshAlways(c) ==
  LET p == call[c].presented IN
  /\ Served(c, {"refresh"}) /\ p # None
  /\ \E s \in {"refused", "invalid", "unavailable"} : Respond(c, s, "clear", None)
  /\ \/ (Detect(p) \/ NoChange) /\ UNCHANGED excused
     \/ Rotate(p) /\ excused' = excused \union {p}
  /\ UNCHANGED orphans

\* invalidRefreshCredential: 400, 401 and 403 expire the cookie, whoever answers them and
\* why.  Identity may refuse the credential; the host's resolver may not know it; the
\* binding may fail to find its workspace before Identity is asked, or refuse the new
\* session after Identity has rotated the credential.
ServeInvalidRefresh(c) ==
  LET p == call[c].presented IN
  /\ Served(c, {"refresh"}) /\ p # None
  /\ \E s \in {"refused", "invalid"} : Respond(c, s, "clear", None)
  /\ \/ (Detect(p) \/ NoChange) /\ UNCHANGED excused
     \/ Rotate(p) /\ excused' = excused \union {p}
  /\ UNCHANGED orphans

\* Without a cookie there is nothing to refresh.  A rotation whose answer the gateway
\* loses leaves the cookie behind, and so does an error of the host's resolver, whatever
\* its status.
ServeRefresh(c) ==
  LET p == call[c].presented IN
  /\ Served(c, {"refresh"})
  /\ \/ p = None /\ WriteError(c, "refused") /\ NoChange /\ UNCHANGED excused
     \/ Rotate(p) /\ WriteBrowserSession(c) /\ UNCHANGED excused
     \/ Rotate(p) /\ WriteError(c, "unavailable") /\ excused' = excused \union {p}
     \/ Detect(p) /\ WriteError(c, "unavailable") /\ UNCHANGED excused
     \/ /\ p # None /\ HostResolves /\ \E s \in {"refused", "invalid"} : WriteError(c, s)
        /\ NoChange /\ UNCHANGED excused
  /\ UNCHANGED orphans

\* The cookie is expired whatever Identity answers, but not when the host's resolver
\* fails to say which workspace the credential belongs to.
ServeLogout(c) ==
  LET p == call[c].presented IN
  /\ Served(c, {"logout"})
  /\ \/ p = None /\ Respond(c, "ok", "clear", None) /\ NoChange /\ UNCHANGED orphans
     \/ /\ p # None /\ Revoke(p) /\ UNCHANGED orphans
        /\ \E s \in {"ok", "unavailable"} : Respond(c, s, "clear", None)
     \/ /\ p # None /\ Respond(c, "unavailable", "clear", None) /\ NoChange
        /\ Orphan(Pending(c))
     \/ /\ p # None /\ Respond(c, "refused", "clear", None) /\ NoChange
        /\ UNCHANGED orphans
     \/ /\ p # None /\ HostResolves /\ WriteError(c, "unavailable") /\ NoChange
        /\ UNCHANGED orphans
  /\ UNCHANGED excused

\* The binding may refuse the session that a changed password brings.
ServeChange(c) ==
  LET b == call[c].bearer IN
  /\ Served(c, {"change"})
  /\ \/ /\ ChangePassword(b)
        /\ \/ WriteBrowserSession(c)
           \/ \E s \in {"refused", "invalid", "unavailable"} : WriteError(c, s)
     \/ NoChange /\ WriteError(c, "refused")
     \/ LiveToken(b) /\ NoChange /\ WriteError(c, "invalid")
  /\ excused' = excused \union (superseded' \ superseded)
  /\ UNCHANGED orphans

\* A downstream service, or /auth/session: "ok" stands for every answer but 401, which
\* the caller gets as it is.
ServeFetch(c) ==
  /\ Served(c, {"fetch"})
  /\ \/ LiveToken(call[c].bearer) /\ WriteError(c, "ok")
     \/ WriteError(c, "refused")
  /\ NoChange /\ UNCHANGED <<orphans, excused>>

----------------------------------------------------------------------------
(* The network and the browser.                                            *)

\* Only exchanges whose handler reads the cookie record it.
Leave(c) ==
  /\ call[c].pc = "leaving"
  /\ call' = [call EXCEPT ![c].pc = "sent",
       ![c].presented = IF Endpoint(c) \in {"refresh", "logout"} THEN cookie ELSE None]
  /\ UNCHANGED <<identity, cookie, client, excused>>

\* The continuation runs with what is left of an exchange: its status and session.
Continue(c, status, session) ==
  call' = [call EXCEPT ![c].pc = "received", ![c].presented = None, ![c].bearer = None,
             ![c].answer = [status |-> status, cookie |-> "keep", session |-> session]]

\* The headers of the answer arrive and change the cookie.  When the body does not
\* follow, request() reads an empty object, a session without an access token.
Deliver(c) ==
  LET a == call[c].answer IN
  /\ call[c].pc = "answered"
  /\ cookie' = CASE a.cookie = "set" -> a.session
                 [] a.cookie = "clear" -> None
                 [] OTHER -> cookie
  /\ \E s \in {a.session, None} : Continue(c, a.status, s)
  /\ UNCHANGED <<identity, client, excused>>

\* These calls get no answer: Identity may yet carry out their requests, and the
\* browser does not learn of a rotation they brought about.
Abandon(cs) ==
  LET unserved == {c \in cs : call[c].pc = "sent"}
      unheard == {c \in cs : call[c].pc = "answered" /\ Endpoint(c) = "refresh"}
  IN
  /\ Orphan(UNION {Pending(c) : c \in unserved})
  /\ excused' = excused \union (superseded \intersect {call[c].presented : c \in unheard})

NetworkFails(c) ==
  /\ call[c].pc \in {"sent", "answered"}
  /\ Abandon({c})
  /\ Continue(c, "failed", None)
  /\ UNCHANGED <<credentials, cookie, client>>

----------------------------------------------------------------------------
(* IdentityClient.                                                         *)

Accept(c) ==
  accessToken' = [accessToken EXCEPT ![call[c].tab] = call[c].answer.session]

ClearSession(c) == accessToken' = [accessToken EXCEPT ![call[c].tab] = None]

Finish(cs) == call' = [c \in Call |-> IF c \in cs THEN Idle ELSE call[c]]

\* Mutant: every refresh leads, whether or not one is in flight.
JoinOrLeadAlways(c, p) ==
  /\ call' = [call EXCEPT ![c] = [p EXCEPT !.pc = "lock"]]
  /\ refreshInFlight' = [refreshInFlight EXCEPT ![p.tab] = c]

\* refresh() returns the promise in flight, or becomes it; p is the call's progress.
JoinOrLead(c, p) ==
  \/ /\ refreshInFlight[p.tab] # None
     /\ call' = [call EXCEPT ![c] = [p EXCEPT !.pc = "joined"]]
     /\ UNCHANGED refreshInFlight
  \/ /\ refreshInFlight[p.tab] = None
     /\ call' = [call EXCEPT ![c] = [p EXCEPT !.pc = "lock"]]
     /\ refreshInFlight' = [refreshInFlight EXCEPT ![p.tab] = c]

\* A caller starts an operation in tab t.
Begin(c, t, o) ==
  /\ call[c].pc = "idle"
  /\ \/ /\ o = "refresh"
        /\ JoinOrLead(c, [Idle EXCEPT !.tab = t, !.op = o, !.stage = "refresh"])
     \/ /\ o # "refresh"
        /\ call' = [call EXCEPT ![c] = [Idle EXCEPT
                      !.pc = "leaving", !.tab = t, !.op = o, !.bearer = accessToken[t]]]
        /\ UNCHANGED refreshInFlight
  /\ UNCHANGED <<identity, cookie, accessToken, lock, excused>>

\* Mutant: the refresh does not wait for the tab that holds the lock.
AcquireAlways(c) ==
  /\ call[c].pc = "lock"
  /\ lock' = c
  /\ call' = [call EXCEPT ![c].pc = "leaving"]
  /\ UNCHANGED <<identity, cookie, accessToken, refreshInFlight, excused>>

\* #withCrossTabRefreshLock, without effect when navigator.locks is missing.
Acquire(c) ==
  /\ call[c].pc = "lock"
  /\ \/ Locks /\ lock = None /\ lock' = c
     \/ ~Locks /\ UNCHANGED lock
  /\ call' = [call EXCEPT ![c].pc = "leaving"]
  /\ UNCHANGED <<identity, cookie, accessToken, refreshInFlight, excused>>

Received(c, endpoints) ==
  /\ call[c].pc = "received" /\ Endpoint(c) \in endpoints
  /\ UNCHANGED <<identity, cookie, excused>>

ReceiveLogin(c) ==
  /\ Received(c, {"login"})
  /\ IF call[c].answer.status = "ok" THEN Accept(c) ELSE UNCHANGED accessToken
  /\ Finish({c})
  /\ UNCHANGED <<refreshInFlight, lock>>

ReceiveLogout(c) ==
  /\ Received(c, {"logout"})
  /\ ClearSession(c)
  /\ Finish({c})
  /\ UNCHANGED <<refreshInFlight, lock>>

\* A 401 to the first attempt of a request that may be replayed leads to a refresh.
Replays(c) ==
  /\ Endpoint(c) \in {"fetch", "change"} /\ call[c].stage = "first"
  /\ call[c].answer.status = "refused"

ReceiveRefusal(c) ==
  /\ Received(c, {"fetch", "change"}) /\ Replays(c)
  /\ JoinOrLead(c, [call[c] EXCEPT !.stage = "refresh", !.answer = NoAnswer])
  /\ UNCHANGED <<accessToken, lock>>

ReceiveResult(c) ==
  /\ Received(c, {"fetch", "change"}) /\ ~Replays(c)
  /\ IF call[c].op = "change" /\ call[c].answer.status = "ok"
       THEN Accept(c) ELSE UNCHANGED accessToken
  /\ Finish({c})
  /\ UNCHANGED <<refreshInFlight, lock>>

\* Mutant: a failed refresh keeps the lock.
ReceiveRefreshKeepingLock(c) ==
  /\ Received(c, {"refresh"})
  /\ IF call[c].answer.status = "ok"
       THEN Accept(c) /\ lock' = None
       ELSE UNCHANGED <<accessToken, lock>>
  /\ call' = [call EXCEPT ![c].pc = "settling"]
  /\ UNCHANGED refreshInFlight

\* The operation under the lock ends, and with it the lock.
ReceiveRefresh(c) ==
  /\ Received(c, {"refresh"})
  /\ IF call[c].answer.status = "ok" THEN Accept(c) ELSE UNCHANGED accessToken
  /\ lock' = IF lock = c THEN None ELSE lock
  /\ call' = [call EXCEPT ![c].pc = "settling"]
  /\ UNCHANGED refreshInFlight

\* The calls that wait for the refresh that c leads.
Waiting(c) == {c} \union {d \in Call : call[d].tab = call[c].tab /\ call[d].pc = "joined"}

\* The request is sent again with the token its tab has now.
Replayed(d) ==
  [call[d] EXCEPT !.pc = "leaving", !.stage = "replay", !.answer = NoAnswer,
                  !.bearer = accessToken[call[d].tab]]

\* The promise settles, for the call that leads the refresh and those that joined it.
Settle(c) ==
  /\ call[c].pc = "settling"
  /\ refreshInFlight' = [refreshInFlight EXCEPT ![call[c].tab] = IF @ = c THEN None ELSE @]
  /\ \/ /\ call[c].answer.status = "ok"
        /\ call' = [d \in Call |-> IF d \notin Waiting(c) THEN call[d]
                                   ELSE IF call[d].op = "refresh" THEN Idle ELSE Replayed(d)]
        /\ UNCHANGED accessToken
     \/ /\ call[c].answer.status # "ok"
        /\ IF call[c].answer.status = "refused" THEN ClearSession(c) ELSE UNCHANGED accessToken
        /\ Finish(Waiting(c))
  /\ UNCHANGED <<identity, cookie, lock, excused>>

\* The page is reloaded or closed: its calls, its token and its lock are gone.
Reload(t) ==
  LET gone == {c \in Call : call[c].tab = t} IN
  /\ accessToken[t] # None \/ gone # {}
  /\ accessToken' = [accessToken EXCEPT ![t] = None]
  /\ refreshInFlight' = [refreshInFlight EXCEPT ![t] = None]
  /\ lock' = IF lock \in gone THEN None ELSE lock
  /\ Abandon(gone)
  /\ Finish(gone)
  /\ UNCHANGED <<credentials, cookie>>

----------------------------------------------------------------------------

Serve(c) ==
  \/ ServeLogin(c) \/ ServeRefresh(c) \/ ServeInvalidRefresh(c) \/ ServeLogout(c)
  \/ ServeChange(c) \/ ServeFetch(c) \/ ServeUnavailable(c)

Receive(c) ==
  \/ ReceiveLogin(c) \/ ReceiveLogout(c) \/ ReceiveRefusal(c) \/ ReceiveResult(c)
  \/ ReceiveRefresh(c)

Step(c) ==
  \/ Acquire(c) \/ Leave(c) \/ Serve(c) \/ Deliver(c) \/ NetworkFails(c)
  \/ Receive(c) \/ Settle(c)

Environment ==
  \/ \E c \in Call, t \in Tab, o \in Ops : Begin(c, t, o)
  \/ ServeOrphan
  \/ \E t \in Tab : Reload(t)

Next == Environment \/ \E c \in Call : Step(c)

Spec == Init /\ [][Next]_vars

\* An exchange ends, by an answer or by a failure, continuations run, and the lock is
\* granted in the order it was asked for.
Fairness == \A c \in Call : WF_vars(Step(c)) /\ SF_vars(Acquire(c))

FairSpec == Spec /\ Fairness

----------------------------------------------------------------------------

\* The tabs, the cookie and every request carry credentials that Identity issued, or none,
\* whatever was lost, and no rotated credential is one that was never issued.
TypeOK ==
  /\ issued \in 0..MaxIssued
  /\ family \in [Credential -> Credential \union {None}]
  /\ \A n \in Credential : IF n <= issued THEN family[n] \in 1..issued ELSE family[n] = None
  /\ superseded \subseteq 1..issued /\ revoked \subseteq 1..issued
  /\ excused \subseteq superseded
  /\ orphans \subseteq [endpoint : {"refresh", "logout", "change"}, carries : 1..issued]
  /\ cookie \in 1..issued \union {None}
  /\ lock \in Call \union {None}
  /\ accessToken \in [Tab -> 1..issued \union {None}]
  /\ refreshInFlight \in [Tab -> Call \union {None}]
  /\ call \in [Call -> Progress]
  /\ \A c \in Call :
       {call[c].presented, call[c].bearer, call[c].answer.session} \subseteq 1..issued \union {None}

RefreshOnTheWire(c) ==
  Endpoint(c) = "refresh" /\ call[c].pc \in {"leaving", "sent", "answered", "received"}

\* One rotation at a time: refreshes of one tab share a single exchange, and with
\* navigator.locks so do those of all tabs of the workspace (refresh and
\* #withCrossTabRefreshLock).
OneRefreshInFlight ==
  \A c, d \in Call : c # d /\ RefreshOnTheWire(c) /\ RefreshOnTheWire(d) =>
    ~Locks /\ call[c].tab # call[d].tab

\* With navigator.locks, or in a lone tab without it, a refresh presents a rotated
\* credential, for which Identity revokes the whole family, only after the answer that
\* carried its successor was lost, or after a password change, which takes no lock:
\* never because tabs, logins, logouts and refreshes overlap.
ReuseOnlyAfterLoss ==
  Locks \/ (\A s, t \in Tab : s = t) =>
    \A c \in Call :
      Endpoint(c) = "refresh" /\ call[c].pc = "sent" =>
        call[c].presented \notin superseded \ excused

\* With navigator.locks, or in a lone tab, the cookie is a credential that a refresh
\* rotated away only while the answer to that refresh is on its way, and that answer
\* changes the cookie: no other answer, whenever it arrives, brings a spent credential
\* back, and none leaves it there (Refresh, writeBrowserSession, clearRefreshCookie).
SpentCookieAwaitsAnswer ==
  Locks \/ (\A s, t \in Tab : s = t) =>
    (cookie \in superseded \ excused =>
       \E c \in Call : /\ Endpoint(c) = "refresh" /\ call[c].pc = "answered"
                      /\ call[c].presented = cookie
                      /\ call[c].answer.cookie \in {"set", "clear"})

\* A cookie that Identity would still accept is dropped only by a logout, by a session
\* that came without a credential, or by a refresh that somebody refused with 400, 401
\* or 403: an outage, a lost answer or the error of any other request leaves it, so
\* that the browser may try again (Refresh, invalidRefreshCredential).
LiveCookieDroppedForCause ==
  [][Valid(cookie) /\ cookie' = None =>
       \E c \in Call :
         /\ call[c].pc = "answered" /\ call'[c].pc = "received"
         /\ \/ Endpoint(c) = "logout"
            \/ call[c].answer.status = "incomplete"
            \/ Endpoint(c) = "refresh" /\ call[c].answer.status \in {"refused", "invalid"}]_vars

\* Every call ends, whichever tab holds the lock and however its refresh fails.
CallsFinish == \A c \in Call : call[c].pc # "idle" ~> call[c].pc = "idle"

\* "Logout ... always expires the browser cookie" (browsergateway/README.md:53).
LogoutExpiresCookie ==
  \A c \in Call :
    Endpoint(c) = "logout" /\ call[c].pc = "answered" => call[c].answer.cookie = "clear"

=============================================================================
