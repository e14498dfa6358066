------------------------- MODULE CatalogPublication -------------------------
(***************************************************************************)
(* How the catalogs are published.  The hosts of one application reconcile *)
(* the permissions of one source owner with the registry of Identity: a    *)
(* host reads the hash of the snapshot in force, and its PUT replaces that *)
(* snapshot only (permissions.go, remote/registration.go).  The transport  *)
(* repeats a PUT whose answer does not come, and what was given up may     *)
(* still be delivered.  The role catalog and the navigation of a workspace *)
(* are only digested, by the Runtime and by Identity: the receipts of the  *)
(* bootstrap compare the two digests.                                      *)
(*                                                                         *)
(* The registry and the comparison are external: the registry compares the *)
(* previous hash of a request, and tells a request it has applied already, *)
(* as the comment at ValidateFor says of it.                               *)
(***************************************************************************)
EXTENDS ProjectCatalog

CONSTANTS
  Host,         \* the hosts that publish; two digest a workspace's catalogs
  Definitions,  \* lists of permission definitions
  Catalogs,     \* role catalogs, [roles, administrator]
  Navigations,  \* navigation catalogs, [menus, sets]
  Records,      \* records a data policy is asked about
  Subject,      \* the claims of the account that asks
  MaxAttempts   \* how often a host sends its requests

\* A catalog is made of lists of records; a grant has one data policy at most.
List(s) == s \in Seq(Range(s))

GrantShape(g) ==
  /\ DOMAIN g = {"key", "scope", "policy", "audit"}
  /\ g.policy = <<>> \/ \E p \in Policy : g.policy = <<p>>

RoleShape(r) ==
  /\ DOMAIN r = {"key", "name", "audience", "mode", "binding", "grants", "related", "rules", "provision"}
  /\ r.provision \in BOOLEAN /\ List(r.related) /\ List(r.grants)
  /\ \A g \in Range(r.grants) : GrantShape(g)

CatalogShapes ==
  /\ \A d \in Definitions : List(d)
  /\ \A c \in Catalogs : List(c.roles) /\ \A r \in Range(c.roles) : RoleShape(r)
  /\ \A n \in Navigations : DOMAIN n = {"menus", "sets"} /\ List(n.menus) /\ List(n.sets)

\* The instance has the canonical and compiled forms of its policies.
PoliciesClosed ==
  \A p \in {q \in Policy : PolicyAccepted(q)} :
    CanonicalPolicy(p) \in Policy /\ {Compiled(p), Compiled(CanonicalPolicy(p))} \subseteq Predicate

\* The subject has every claim, of its kind.
SubjectClaims ==
  /\ \A c \in ScalarClaims : Subject[c].kind = "scalar" /\ Range(Subject[c].items) = {Subject[c].items[1]}
  /\ \A c \in CollectionClaims : Subject[c].kind = "list"
  /\ ScalarClaims \union CollectionClaims \subseteq DOMAIN Subject

ASSUME CatalogAssumption == CatalogShapes /\ PoliciesClosed /\ SubjectClaims

VARIABLES
  kind,       \* "permissions", "roles" or "navigation"
  draft,      \* what each host publishes
  held,       \* the registry's snapshot of the source owner, at most one
  stage,      \* where each host is
  base,       \* the hash each host read, none if there was no snapshot
  attempt,    \* how often each host has sent its requests
  sent,       \* the requests of each host that may still be delivered
  disturbed,  \* has another host changed the snapshot since the host read it
  seen        \* what the other side had when the host had its answer

vars == <<kind, draft, held, stage, base, attempt, sent, disturbed, seen>>

Drafts == CASE kind = "permissions" -> Definitions
            [] kind = "roles" -> Catalogs
            [] kind = "navigation" -> Navigations

Init ==
  /\ kind \in {"permissions", "roles", "navigation"}
  /\ draft \in [Host -> Drafts]
  /\ held \in {<<>>} \union
       IF kind = "permissions" THEN {<<d>> : d \in {e \in Definitions : DefinitionsAccepted(e)}} ELSE {}
  /\ stage = [h \in Host |-> "idle"]
  /\ base = [h \in Host |-> <<>>]
  /\ attempt = [h \in Host |-> 0]
  /\ sent = [h \in Host |-> {}]
  /\ disturbed = [h \in Host |-> FALSE]
  /\ seen = [h \in Host |-> {}]

-----------------------------------------------------------------------------
(* What two catalogs must share to be the same, order and spelling apart.   *)

Count(list) == [e \in Range(list) |-> Cardinality({i \in DOMAIN list : list[i] = e})]

PolicyContent(policy) ==
  LET content[p \in Policy] ==
        [operator |-> OperatorOf(p), field |-> Trim(p.field), claim |-> Trim(p.claim), path |-> p.path,
         children |-> IF OperatorOf(p) = "not" THEN Each(p.children, LAMBDA q : content[q])
                      ELSE Count(Each(p.children, LAMBDA q : content[q]))]
  IN content[policy]

GrantContent(g) == <<Trim(g.key), g.scope, Each(g.policy, PolicyContent), g.audit>>

RoleContent(r) ==
  <<Trim(r.key), Trim(r.name), Default(r.audience, "any"), Default(r.mode, "manual"), Trim(r.binding),
    CanonicalJSON(r.rules), {GrantContent(g) : g \in Range(r.grants)}, Count(Each(r.related, Trim))>>

\* For each kind, the content of a catalog, a navigation being read before.
Content(d) ==
  CASE kind = "permissions" -> {BareDefinition(e) : e \in Range(d)}
    [] kind = "roles" ->
         {<<RoleContent(r), Trim(r.key) = Trim(d.administrator)>> : r \in {s \in Range(d.roles) : s.provision}}
    [] kind = "navigation" ->
         {<<"menu", BareMenu(m)>> : m \in Range(d.menus)} \union {<<"set", BareSet(s)>> : s \in Range(d.sets)}

\* The catalogs that the same file may be read as: one, unless locales of a menu
\* trim alike.
Readings(d) == IF kind # "navigation" THEN {d} ELSE {[d EXCEPT !.menus = read] : read \in MenuReadings(d.menus)}

-----------------------------------------------------------------------------
(* Reconciling permissions *)

Snapshot == [i \in DOMAIN held |-> SnapshotHash(held[i])]
Own(h) == <<SnapshotHash(draft[h])>>

\* PermissionSourceSnapshot.ValidateFor.
SnapshotAccepted(hash, definitions) ==
  IF hash = <<>> THEN definitions = <<>>
  ELSE DefinitionsAccepted(definitions) /\ hash = <<SnapshotHash(definitions)>>

\* CurrentSourceSnapshot: the baseline.  A host reads it again when its
\* request met a conflict or an unknown fate.
ReadBaseline(h) ==
  /\ kind = "permissions" /\ attempt[h] < MaxAttempts
  /\ stage[h] \in {"idle", "conflict", "unknown"}
  /\ SnapshotAccepted(Snapshot, IF held = <<>> THEN <<>> ELSE held[1])
  /\ base' = [base EXCEPT ![h] = Snapshot]
  /\ stage' = [stage EXCEPT ![h] = "ready"]
  /\ disturbed' = [disturbed EXCEPT ![h] = FALSE]
  /\ UNCHANGED <<kind, draft, held, attempt, sent, seen>>

\* The request goes out, for the first time or again.
Send(h) ==
  /\ attempt' = [attempt EXCEPT ![h] = @ + 1]
  /\ sent' = [sent EXCEPT ![h] = @ \union {[previous |-> base[h], attempt |-> attempt[h] + 1]}]
  /\ stage' = [stage EXCEPT ![h] = "waiting"]
  /\ UNCHANGED <<kind, draft, held, base, disturbed, seen>>

\* NewPermissionReconcileRequest and Reconcile; an invalid list is refused.
Reconcile(h) ==
  /\ stage[h] = "ready" /\ DefinitionsAccepted(draft[h])
  /\ Send(h)

Refuse(h) ==
  /\ stage[h] = "ready" /\ ~DefinitionsAccepted(draft[h])
  /\ stage' = [stage EXCEPT ![h] = "invalid"]
  /\ UNCHANGED <<kind, draft, held, base, attempt, sent, disturbed, seen>>

RetryReconcile(h) ==
  /\ stage[h] = "waiting" /\ attempt[h] < MaxAttempts
  /\ Send(h)

GiveUp(h) ==
  /\ stage[h] = "waiting"
  /\ stage' = [stage EXCEPT ![h] = "unknown"]
  /\ UNCHANGED <<kind, draft, held, base, attempt, sent, disturbed, seen>>

\* Mutant: a receipt must name the previous hash of the request.
ReceiptAcceptedOfFirst(receipt, h) ==
  receipt.previous = base[h] /\ receipt.snapshot = Own(h) /\ receipt.count = Len(draft[h])

\* PermissionReconcileReceipt.ValidateFor: one application and one source owner.
ReceiptAccepted(receipt, h) ==
  /\ receipt.previous \in {base[h], Own(h)}
  /\ receipt.snapshot = Own(h)
  /\ receipt.count = Len(draft[h])

\* The registry applies a request over its previous snapshot and leaves alone
\* what has been applied; its answer reaches the host's current attempt or is
\* lost.
Applicable(h, request) == Snapshot \in {request.previous, Own(h)}

Deliver(h, request, arrives) ==
  LET current == arrives /\ stage[h] = "waiting" /\ request.attempt = attempt[h]
      applied == Applicable(h, request)
      changed == applied /\ Snapshot # Own(h) IN
  /\ sent' = [sent EXCEPT ![h] = @ \ {request}]
  /\ held' = IF changed THEN <<draft[h]>> ELSE held
  /\ disturbed' = [g \in Host |-> disturbed[g] \/ (g # h /\ changed)]
  /\ IF ~current THEN UNCHANGED <<stage, seen>>
     ELSE /\ seen' = [seen EXCEPT ![h] = Content(held'[1])]
          /\ \E previous \in IF changed THEN {request.previous} ELSE {request.previous, Own(h)} :
               LET receipt == [previous |-> previous, snapshot |-> Own(h), count |-> Len(draft[h])] IN
               stage' = [stage EXCEPT ![h] =
                 IF ~applied THEN "conflict"
                 ELSE IF ReceiptAccepted(receipt, h) THEN "acknowledged" ELSE "rejected"]
  /\ UNCHANGED <<kind, draft, base, attempt>>

Lose(h, request) ==
  /\ sent' = [sent EXCEPT ![h] = @ \ {request}]
  /\ UNCHANGED <<kind, draft, held, stage, base, attempt, disturbed, seen>>

-----------------------------------------------------------------------------
(* Comparing digests, each of a reading of its catalog *)

Digestible(d) ==
  IF kind = "roles" THEN RolesAccepted(d.roles, d.administrator) ELSE NavigationAccepted(d.menus, d.sets)

Digest(d) == IF kind = "roles" THEN RolesHash(d.roles, d.administrator) ELSE NavigationHash(d.menus, d.sets)

\* A bootstrap receipt of the other side, over its reading theirs, is compared
\* with the reading own that h makes of its catalog.
Compare(h, own, theirs) ==
  /\ Digestible(theirs)
  /\ stage' = [stage EXCEPT ![h] =
       IF ~Digestible(own) THEN "invalid"
       ELSE IF Digest(own) = Digest(theirs) THEN "acknowledged" ELSE "conflict"]
  /\ seen' = [seen EXCEPT ![h] = Content(theirs)]

Bootstrap(h, g) ==
  /\ kind # "permissions" /\ h # g /\ stage[h] = "idle"
  /\ \E own \in Readings(draft[h]), theirs \in Readings(draft[g]) : Compare(h, own, theirs)
  /\ UNCHANGED <<kind, draft, held, base, attempt, sent, disturbed>>

-----------------------------------------------------------------------------
Next ==
  \E h \in Host :
    \/ ReadBaseline(h) \/ Reconcile(h) \/ Refuse(h) \/ RetryReconcile(h) \/ GiveUp(h)
    \/ \E request \in sent[h] :
         \/ \E arrives \in BOOLEAN : Deliver(h, request, arrives)
         \/ Lose(h, request)
    \/ \E g \in Host : Bootstrap(h, g)

Spec == Init /\ [][Next]_vars

-----------------------------------------------------------------------------
(* Properties *)

\* A catalog is acknowledged by the side that has the very same content, in
\* whatever order it was written, with whatever spaces around its texts and
\* whichever spelling of the JSON in its roles, and meets a conflict only at a
\* side that has another.  Where locales of a menu trim alike the catalog has
\* several readings: it can meet a conflict with itself, and only such a one can.
ReceiptsProveContent ==
  \A h \in Host :
    /\ stage[h] = "acknowledged" => \E own \in Readings(draft[h]) : seen[h] = Content(own)
    /\ stage[h] = "conflict" => \E own \in Readings(draft[h]) : seen[h] # Content(own)

\* However often a request is sent, and whichever of its copies are delivered or
\* answered, a host is told of a conflict only when another host has changed
\* the snapshot since it read its baseline, and never takes the receipt of a
\* request that was applied for a wrong one.
RetriesAcknowledged ==
  \A h \in Host :
    /\ stage[h] # "rejected"
    /\ (kind = "permissions" /\ stage[h] = "conflict") => disturbed[h]

-----------------------------------------------------------------------------
(* What a data policy says of one record: its field equals the claim, or is  *)
(* one of the claim's values, and the Boolean operators are what they are.   *)

Claimed(p) == Range(Subject[Trim(p.claim)].items)

Says(policy, record) ==
  LET says[p \in Policy] ==
        CASE OperatorOf(p) = "and" -> \A q \in Range(p.children) : says[q]
          [] OperatorOf(p) = "or" -> \E q \in Range(p.children) : says[q]
          [] OperatorOf(p) = "not" -> ~\A q \in Range(p.children) : says[q]
          [] OTHER -> record[Trim(p.field)] # Absent /\ record[Trim(p.field)] \in Claimed(p)
  IN says[policy]

Local[p \in Policy] == p.path = <<>> /\ \A q \in Range(p.children) : Local[q]
Plain[p \in Policy] == Trim(p.operator) = p.operator /\ \A q \in Range(p.children) : Plain[q]

Grants == IF kind # "roles" THEN {} ELSE UNION {Range(r.grants) : r \in UNION {Range(draft[h].roles) : h \in Host}}

\* The predicate compiled from an accepted data policy is valid, and the
\* evaluator answers it with what the policy says of the record: in its
\* canonical form always, as it was written where no operator has spaces
\* around it (compileProjectDataPolicy does not trim a leaf's operator).
PoliciesMeanWhatTheySay ==
  \A g \in Grants : \A p \in {q \in Range(g.policy) : PolicyAccepted(q) /\ Local[q]} :
    \A predicate \in {Compiled(q) : q \in {CanonicalPolicy(p)} \union IF Plain[p] THEN {p} ELSE {}} :
      /\ ValidPredicate[predicate]
      /\ \A record \in Records :
           EvaluatePredicate(predicate, record, [subject |-> Subject, claims |-> <<>>])
             = Truth(Says(p, record))

=============================================================================
