---------------------------- MODULE AccessBundle ----------------------------
(***************************************************************************)
(* The access bundle an Identity service issues for one subject: when it is *)
(* valid (authorization/policy.go), how an application credential narrows   *)
(* it (restriction.go) and how a trusted operation derives an execution     *)
(* bundle from it (execution.go).                                           *)
(*                                                                         *)
(* A list of the bundle is a function from its positions, which need not be *)
(* consecutive: dropping entries keeps the positions of the others, and the *)
(* order of positions is the order of the list.  TLA+ values are copies, so *)
(* cloneAccessBundle has no counterpart beyond the use of primed values.    *)
(*   function grant  [resource, action, effect]                             *)
(*   data policy     [key, resource, action, effect, scopes, predicate,     *)
(*                    audit]            key: a sequence, so that a derived   *)
(*                                      key extends the key it comes from    *)
(*   field policy    [resource, field, read, write, export, masked, rules]  *)
(*   field rule      [key, priority, actions, effect, predicate, mask]      *)
(*   reference       [source, reference, target, display, allowed]          *)
(*   export policy   [resource, mode, fields]                               *)
(*   guardrail       [key, resource, action, field, predicate]              *)
(* An optional predicate is a sequence of at most one, an absent resource,  *)
(* action or field is "", and sets stand for lists of names.                *)
(***************************************************************************)
EXTENDS PolicyLanguage

BundleFields ==
  {"version", "revision", "expiresAt", "subject", "functionGrants", "dataPolicies",
   "fieldPolicies", "referencePolicies", "exportPolicies", "guardrails"}

\* The shape of a bundle: finite lists of records with all their fields.
FiniteList(list) == DOMAIN list \subseteq Nat \ {0} /\ IsFiniteSet(DOMAIN list)

Optional(predicate) == predicate = <<>> \/ \E p \in Predicate : predicate = <<p>>

RulesShape(rules) ==
  /\ FiniteList(rules)
  /\ \A r \in Range(rules) :
       /\ DOMAIN r = {"key", "priority", "actions", "effect", "predicate", "mask"}
       /\ r.priority \in Int /\ Optional(r.predicate)

BundleShape(b) ==
  /\ DOMAIN b = BundleFields
  /\ FiniteList(b.functionGrants) /\ FiniteList(b.dataPolicies) /\ FiniteList(b.fieldPolicies)
  /\ FiniteList(b.referencePolicies) /\ FiniteList(b.exportPolicies) /\ FiniteList(b.guardrails)
  /\ \A p \in Range(b.dataPolicies) :
       /\ DOMAIN p = {"key", "resource", "action", "effect", "scopes", "predicate", "audit"}
       /\ p.predicate \in Predicate
  /\ \A f \in Range(b.fieldPolicies) :
       /\ DOMAIN f = {"resource", "field", "read", "write", "export", "masked", "rules"}
       /\ RulesShape(f.rules)
  /\ \A g \in Range(b.guardrails) :
       /\ DOMAIN g = {"key", "resource", "action", "field", "predicate"}
       /\ Optional(g.predicate)

Keep(list, Test(_)) == [i \in {j \in DOMAIN list : Test(list[j])} |-> list[i]]

Past(list) == 1 + Cardinality(UNION {1 .. i : i \in DOMAIN list})

Appended(list, entry) ==
  [i \in DOMAIN list \union {Past(list)} |-> IF i \in DOMAIN list THEN list[i] ELSE entry]

UniqueBy(list, Key(_)) ==
  \A i, j \in DOMAIN list : Key(list[i]) = Key(list[j]) => i = j

Effects == {"allow", "deny"}
FieldEffects == {"allow", "deny", "hide", "mask"}

-----------------------------------------------------------------------------
(* AccessBundle.Validate *)

ValidIdentity(b) ==
  /\ b.version = "current"
  /\ \A part \in {b.revision, b.subject.workspace_id.items[1], b.subject.id.items[1]} : part # ""
  /\ \A claim \in {"org_scope_ids", "reporting_scope_user_ids"} :
       LET ids == b.subject[claim].items
       IN \A i, j \in DOMAIN ids : ids[i] # "" /\ (ids[i] = ids[j] => i = j)

ValidFunctionGrants(b) ==
  /\ \A g \in Range(b.functionGrants) :
       g.resource \notin {"", "*"} /\ g.action \notin {"", "*"} /\ g.effect \in Effects
  /\ UniqueBy(b.functionGrants, LAMBDA g : g)

\* The canonical scope `all' is the absence of a predicate: it stands alone, on
\* an allow.  Every other policy has a predicate of its own.
ValidDataPolicies(b) ==
  /\ \A p \in Range(b.dataPolicies) :
       /\ p.key # <<>> /\ p.resource \notin {"", "*"} /\ p.action # "" /\ p.effect \in Effects
       /\ p.scopes \subseteq {"all", "owner", "org", "org_child", "target_org"}
       /\ IF "all" \in p.scopes
          THEN p.effect = "allow" /\ p.scopes = {"all"} /\ p.predicate = ZeroPredicate
          ELSE ValidPredicate[p.predicate]
  /\ UniqueBy(b.dataPolicies, LAMBDA p : p.key)

\* A mask names its strategy and only a mask does; last_n keeps 1 to 32 places.
ValidMask(rule) ==
  IF rule.effect = "mask"
  THEN \/ rule.mask.type \in {"phone", "id_number", "email", "year_only"} /\ rule.mask.lastN = 0
       \/ rule.mask.type = "last_n" /\ rule.mask.lastN \in 1 .. 32
  ELSE rule.mask.type = ""

ValidRules(rules) ==
  /\ \A r \in Range(rules) :
       /\ r.key # "" /\ r.effect \in FieldEffects /\ r.actions # {} /\ "" \notin r.actions
       /\ \A p \in Range(r.predicate) : ValidPredicate[p]
       /\ ValidMask(r)
  /\ UniqueBy(rules, LAMBDA r : r.key)
  /\ UniqueBy(rules, LAMBDA r : r.priority)

ValidFieldPolicies(b) ==
  /\ \A f \in Range(b.fieldPolicies) : f.resource # "" /\ f.field # "" /\ ValidRules(f.rules)
  /\ UniqueBy(b.fieldPolicies, LAMBDA f : <<f.resource, f.field>>)

ValidReferencePolicies(b) ==
  /\ \A r \in Range(b.referencePolicies) :
       r.source # "" /\ r.reference # "" /\ r.target # "" /\ "" \notin r.display
  /\ UniqueBy(b.referencePolicies, LAMBDA r : <<r.source, r.reference>>)

ValidExportPolicies(b) ==
  /\ \A e \in Range(b.exportPolicies) :
       /\ e.resource # "" /\ e.mode \in {"deny", "allow_list"} /\ "" \notin e.fields
       /\ e.mode = "deny" => e.fields = {}
  /\ UniqueBy(b.exportPolicies, LAMBDA e : e.resource)

\* Without a resource a guardrail has no action, field or predicate, so that no
\* adapter can drop it while narrowing the bundle; a field needs an action.
ValidGuardrails(b) ==
  /\ \A g \in Range(b.guardrails) :
       /\ g.key # ""
       /\ g.resource = "" => g.action = "" /\ g.field = "" /\ g.predicate = <<>>
       /\ g.field # "" => g.action # ""
       /\ \A p \in Range(g.predicate) : ValidPredicate[p]
  /\ UniqueBy(b.guardrails, LAMBDA g : g.key)

ValidBundle(b, now) ==
  /\ ValidIdentity(b)
  /\ b.expiresAt > now
  /\ ValidFunctionGrants(b) /\ ValidDataPolicies(b) /\ ValidFieldPolicies(b)
  /\ ValidReferencePolicies(b) /\ ValidExportPolicies(b) /\ ValidGuardrails(b)

-----------------------------------------------------------------------------
(* CanonicalJSON of a valid bundle: entries have unique keys to be sorted by, *)
(* so a sorted list is the set of its entries.                               *)

CanonicalOption(predicate) == [i \in DOMAIN predicate |-> CanonicalPredicate(predicate[i])]

CanonicalPolicies(policies) ==
  {[p EXCEPT !.predicate = IF @ = ZeroPredicate THEN @ ELSE CanonicalPredicate(@)] : p \in Range(policies)}

CanonicalRules(rules) == {[r EXCEPT !.predicate = CanonicalOption(@)] : r \in Range(rules)}

CanonicalFields(fields) == {[f EXCEPT !.rules = CanonicalRules(@)] : f \in Range(fields)}

CanonicalSubject(subject) ==
  [subject EXCEPT !.org_scope_ids.items = Range(@), !.reporting_scope_user_ids.items = Range(@)]

Canonical(b) ==
  [b EXCEPT !.subject = CanonicalSubject(@),
            !.functionGrants = Range(@),
            !.dataPolicies = CanonicalPolicies(@),
            !.fieldPolicies = CanonicalFields(@),
            !.referencePolicies = Range(@),
            !.exportPolicies = Range(@),
            !.guardrails = CanonicalRules(@)]

-----------------------------------------------------------------------------
(* RestrictAccess: scopes is a set of pairs <<resource, action>>, the scopes *)
(* "resource.action" of an application credential.  Denying entries stay,    *)
(* except that a field, reference or export entry is dropped with its scope. *)

RestrictedFields(fields, scopes) ==
  LET narrowed == [i \in DOMAIN fields |-> [fields[i] EXCEPT
        !.read = @ /\ <<fields[i].resource, "read">> \in scopes,
        !.write = @ /\ \E action \in {"create", "update"} : <<fields[i].resource, action>> \in scopes,
        !.export = @ /\ <<fields[i].resource, "export">> \in scopes]]
  IN Keep(narrowed, LAMBDA f : f.read \/ f.write \/ f.export)

\* Mutant: guardrails are intersected with the scopes like every other list.
RestrictedWithGuardrails(b, scopes) ==
  [b EXCEPT
    !.functionGrants = Keep(@, LAMBDA g : g.effect = "deny" \/ <<g.resource, g.action>> \in scopes),
    !.dataPolicies = Keep(@, LAMBDA p : p.effect = "deny" \/ <<p.resource, p.action>> \in scopes),
    !.fieldPolicies = RestrictedFields(@, scopes),
    !.guardrails = Keep(@, LAMBDA g : <<g.resource, g.action>> \in scopes)]

Restricted(b, scopes) ==
  [b EXCEPT
    !.functionGrants = Keep(@, LAMBDA g : g.effect = "deny" \/ <<g.resource, g.action>> \in scopes),
    !.dataPolicies = Keep(@, LAMBDA p : p.effect = "deny" \/ <<p.resource, p.action>> \in scopes),
    !.fieldPolicies = RestrictedFields(@, scopes),
    !.referencePolicies = Keep(@, LAMBDA r : <<r.source, "read">> \in scopes),
    !.exportPolicies = Keep(@, LAMBDA e : <<e.resource, "export">> \in scopes)]

-----------------------------------------------------------------------------
(* DeriveExecutionAccess: grant is [resource, action, fields, source], source *)
(* a sequence of at most one pair <<resource, action>>.                      *)

Target(grant) == <<grant.resource, grant.action>>

FunctionEffects(b, pair) ==
  {g.effect : g \in {f \in Range(b.functionGrants) : <<f.resource, f.action>> = pair}}

\* The checks before anything is derived: an explicit deny of the source or of
\* the target is authoritative, and a named source must be granted.
Derivable(b, grant, now) ==
  /\ ValidBundle(b, now)
  /\ grant.resource # "" /\ grant.action # ""
  /\ \A source \in Range(grant.source) :
       /\ source[1] # "" /\ source[2] # ""
       /\ FunctionEffects(b, source) = {"allow"}
  /\ "deny" \notin FunctionEffects(b, Target(grant))

\* Mutant: off by one, the grant goes to the last position and not behind it:
\* it is lost there, and stands before the first position of an empty list.
DerivedGrantsOffByOne(b, grant) ==
  IF FunctionEffects(b, Target(grant)) = {}
  THEN [i \in DOMAIN b.functionGrants \union {Past(b.functionGrants) - 1} |->
          IF i \in DOMAIN b.functionGrants THEN b.functionGrants[i]
          ELSE [resource |-> grant.resource, action |-> grant.action, effect |-> "allow"]]
  ELSE b.functionGrants

DerivedGrants(b, grant) ==
  IF FunctionEffects(b, Target(grant)) = {}
  THEN Appended(b.functionGrants, [resource |-> grant.resource, action |-> grant.action, effect |-> "allow"])
  ELSE b.functionGrants

\* Mutant: the target keeps its own allows beside the projected policies.
ProjectedBesideAllows(policies, grant) ==
  LET moved == Keep(policies, LAMBDA p : <<p.resource, p.action>> = grant.source[1])
      projected == [i \in DOMAIN moved |-> [moved[i] EXCEPT
                      !.key = @ \o Target(grant), !.resource = grant.resource, !.action = grant.action]]
      fresh == Keep(projected, LAMBDA p : p.key \notin {q.key : q \in Range(policies)})
      shift == Past(policies)
  IN [i \in DOMAIN policies \union {shift + j : j \in DOMAIN fresh} |->
        IF i \in DOMAIN policies THEN policies[i] ELSE fresh[i - shift]]

\* The target's allows go, and the source's policies are projected onto the
\* target behind the policies kept; a key already taken is not added again.
ProjectedPolicies(policies, grant) ==
  LET kept == Keep(policies, LAMBDA p : ~(<<p.resource, p.action>> = Target(grant) /\ p.effect = "allow"))
      moved == Keep(policies, LAMBDA p : <<p.resource, p.action>> = grant.source[1])
      projected == [i \in DOMAIN moved |-> [moved[i] EXCEPT
                      !.key = @ \o Target(grant), !.resource = grant.resource, !.action = grant.action]]
      fresh == Keep(projected, LAMBDA p : p.key \notin {q.key : q \in Range(kept)})
      shift == Past(policies)
  IN [i \in DOMAIN kept \union {shift + j : j \in DOMAIN fresh} |->
        IF i \in DOMAIN kept THEN kept[i] ELSE fresh[i - shift]]

DerivedPolicies(b, grant) ==
  IF grant.source # <<>> /\ grant.source # <<Target(grant)>>
  THEN ProjectedPolicies(b.dataPolicies, grant) ELSE b.dataPolicies

\* Mutant: an effect field without a policy becomes readable too.
DerivedFieldsReadable(b, grant) ==
  LET named(f) == f.resource = grant.resource /\ f.field \in grant.fields
      opened == [i \in DOMAIN b.fieldPolicies |->
                   [b.fieldPolicies[i] EXCEPT !.write = @ \/ named(b.fieldPolicies[i])]]
      added == grant.fields \ ({""} \union {f.field : f \in {g \in Range(opened) : named(g)}})
      order == CHOOSE s \in [1 .. Cardinality(added) -> added] : Range(s) = added
      shift == Past(opened)
  IN [i \in DOMAIN opened \union {shift + j : j \in DOMAIN order} |->
        IF i \in DOMAIN opened THEN opened[i]
        ELSE [resource |-> grant.resource, field |-> order[i - shift], read |-> TRUE, write |-> TRUE,
              export |-> FALSE, masked |-> FALSE, rules |-> <<>>]]

\* A declared effect field becomes writable where its own policy exists, and
\* gets a policy with write access only where it does not.
DerivedFields(b, grant) ==
  LET named(f) == f.resource = grant.resource /\ f.field \in grant.fields
      opened == [i \in DOMAIN b.fieldPolicies |->
                   [b.fieldPolicies[i] EXCEPT !.write = @ \/ named(b.fieldPolicies[i])]]
      added == grant.fields \ ({""} \union {f.field : f \in {g \in Range(opened) : named(g)}})
      order == CHOOSE s \in [1 .. Cardinality(added) -> added] : Range(s) = added
      shift == Past(opened)
  IN [i \in DOMAIN opened \union {shift + j : j \in DOMAIN order} |->
        IF i \in DOMAIN opened THEN opened[i]
        ELSE [resource |-> grant.resource, field |-> order[i - shift], read |-> FALSE, write |-> TRUE,
              export |-> FALSE, masked |-> FALSE, rules |-> <<>>]]

Derived(b, grant) ==
  [b EXCEPT !.functionGrants = DerivedGrants(b, grant),
            !.dataPolicies = DerivedPolicies(b, grant),
            !.fieldPolicies = DerivedFields(b, grant)]

=============================================================================
