---------------------------- MODULE AccessPolicy ----------------------------
(***************************************************************************)
(* The life of one access bundle inside a business Runtime.  The Identity   *)
(* service issues it; an application credential's scopes narrow it          *)
(* (RestrictAccess) and trusted operations derive execution bundles from it *)
(* (DeriveExecutionAccess), in any order, until it expires.  The decisions  *)
(* and filters of AccessEvaluator are pure: the properties quantify over    *)
(* the records, the business claims and the requests they are asked about.  *)
(*                                                                         *)
(* issued, origin and admitted are history variables: the bundle as issued, *)
(* the pair whose data policies now govern a pair, and the pairs every      *)
(* restriction so far let through.                                          *)
(***************************************************************************)
EXTENDS AccessEvaluator

CONSTANTS
  IssuedBundle,   \* the bundles the Identity service may issue
  ScopeSet,       \* the scope sets of application credentials
  Grant,          \* the execution grants of trusted operations
  Resource, Action, Field,   \* what requests may name
  Record,         \* the facts of the records there are
  BusinessClaims, \* the business claims a request may carry
  MaxTime, MaxSteps

\* A record has every column.  A policy's key is a sequence of texts: the key k of
\* an issued policy is <<k>>, and a text that spells the key a derivation makes of
\* k for a pair, k.execution.resource.action, is <<k, resource, action>>.
ASSUME RequestAssumption ==
  /\ MaxTime \in Nat /\ MaxSteps \in Nat
  /\ \A record \in Record : Columns \subseteq DOMAIN record
  /\ \A b \in IssuedBundle :
       /\ BundleShape(b)
       /\ \A p \in Range(b.dataPolicies) : p.key \in Seq(Range(p.key))
  /\ \A grant \in Grant :
       /\ Target(grant) \in Resource \X Action
       /\ IsFiniteSet(grant.fields)
       /\ grant.source = <<>> \/ \E pair \in Resource \X Action : grant.source = <<pair>>

VARIABLES bundle, now, issued, origin, admitted, steps

vars == <<bundle, now, issued, origin, admitted, steps>>

Pair == Resource \X Action
Context(b, claims) == [subject |-> b.subject, claims |-> claims]
Allowed(b, pair, field, claims) ==
  AllowedRows(b, pair[1], pair[2], field, Record, Context(b, claims), now)
Selected(b, pair, claims) ==
  SelectedRows(b, pair[1], pair[2], Record, Context(b, claims), now)
Complete == {record \in Record : Absent \notin Range(record)}
FieldEffect(b, pair, field, record, claims) ==
  EvaluateField(b, pair[1], field, pair[2], record, Context(b, claims))
DataVisible(b, pair, record, claims) ==
  DataVerdict(PoliciesFor(b, pair[1], pair[2]), record, Context(b, claims)).allowed

Init ==
  /\ issued \in IssuedBundle
  /\ bundle = issued
  /\ now = 0
  /\ origin = [pair \in Pair |-> pair]
  /\ admitted = [pair \in Pair |-> TRUE]
  /\ steps = 0

\* An application credential's scopes are intersected with the bundle.
RestrictAccess(scopes) ==
  /\ steps < MaxSteps
  /\ bundle' = Restricted(bundle, scopes)
  /\ admitted' = [pair \in Pair |-> admitted[pair] /\ pair \in scopes]
  /\ steps' = steps + 1
  /\ UNCHANGED <<now, issued, origin>>

\* A trusted operation derives the bundle it runs with.  A bundle the grant
\* makes invalid is refused, as is a grant that is not derivable.
DeriveExecutionAccess(grant) ==
  /\ steps < MaxSteps
  /\ Derivable(bundle, grant, now)
  /\ ValidBundle(Derived(bundle, grant), now)
  /\ bundle' = Derived(bundle, grant)
  /\ LET projecting == grant.source # <<>>
     IN /\ origin' = IF projecting THEN [origin EXCEPT ![Target(grant)] = origin[grant.source[1]]] ELSE origin
        /\ admitted' = IF projecting THEN [admitted EXCEPT ![Target(grant)] = admitted[grant.source[1]]] ELSE admitted
  /\ steps' = steps + 1
  /\ UNCHANGED <<now, issued>>

Tick ==
  /\ now < MaxTime
  /\ now' = now + 1
  /\ UNCHANGED <<bundle, issued, origin, admitted, steps>>

Next ==
  \/ \E scopes \in ScopeSet : RestrictAccess(scopes)
  \/ \E grant \in Grant : DeriveExecutionAccess(grant)
  \/ Tick

Spec == Init /\ [][Next]_vars

-----------------------------------------------------------------------------
(* Properties *)

\* The bundle keeps its shape through every restriction and derivation, the model's
\* clock and steps their bounds, and projections end at pairs of the instance.
TypeOK ==
  /\ issued \in IssuedBundle
  /\ now \in 0 .. MaxTime
  /\ steps \in 0 .. MaxSteps
  /\ origin \in [Pair -> Pair]
  /\ admitted \in [Pair -> BOOLEAN]
  /\ BundleShape(bundle)

\* A decision that allows a record and a field passed every layer: a function
\* grant and no function deny, no whole-record guardrail that matches or fails,
\* no data policy that denies or fails, and a field effect of allow or mask
\* (EvaluateWithContext's early returns and loops, whatever the lists' order).
NoGuardrailHits(b, r, a, record, ctx) ==
  \A i \in DOMAIN b.guardrails :
    LET g == b.guardrails[i]
    IN MatchesOrBlank(g.resource, r) /\ MatchesOrBlank(g.action, a) /\ g.field = ""
         => Matching(g.predicate, record, ctx) = "false"

NoPolicyForbids(b, r, a, record, ctx) ==
  \A i \in DOMAIN b.dataPolicies :
    LET p == b.dataPolicies[i]
    IN p.resource = r /\ p.action = a
         => /\ PolicyMatch(p, record, ctx) # "error"
            /\ p.effect = "deny" => PolicyMatch(p, record, ctx) # "true"

PassesEveryLayer(pair, field, record, ctx) ==
  /\ bundle.expiresAt > now
  /\ FunctionEffects(bundle, pair) = {"allow"}
  /\ NoGuardrailHits(bundle, pair[1], pair[2], record, ctx)
  /\ NoPolicyForbids(bundle, pair[1], pair[2], record, ctx)
  /\ field # "" => EvaluateField(bundle, pair[1], field, pair[2], record, ctx) \in {"allow", "mask"}

AllowedPassesEveryLayer ==
  \A pair \in Pair, field \in Field \union {""}, claims \in BusinessClaims :
    \A record \in Allowed(bundle, pair, field, claims) :
      PassesEveryLayer(pair, field, record, Context(bundle, claims))

\* Whatever the evaluator allows, the coarse permission check of the request
\* (Principal.HasPermission) had already let through.
PermissionIsNecessary ==
  \A pair \in Pair, claims \in BusinessClaims :
    Allowed(bundle, pair, "", claims) # {} =>
      HasPermission(bundle, pair[1], pair[2]) /\ pair \in PermissionKeys(bundle)

\* A row the compiled SQL filter returns is one the evaluator allows, NULL
\* columns and missing claims included: three-valued logic only hides rows.  The
\* one exception: an unrestricted filter leaves the other allows uncompiled, and
\* the evaluator refuses the record when one of those cannot be evaluated.
SelectedOnlyIfAllowed ==
  \A pair \in Pair, claims \in BusinessClaims :
    LET ctx == Context(bundle, claims)
        filter == RecordFilter(bundle, pair[1], pair[2])
    IN \A record \in Selected(bundle, pair, claims) \ Allowed(bundle, pair, "", claims) :
         /\ Layers(bundle, pair[1], pair[2], "", record, ctx).code = "data_policy_invalid"
         /\ filter.unrestricted
         /\ \E p \in filter.allow : ~Compiles(p, ctx)

\* Whether some leaf compares its fact with a value that is null: SQL answers
\* "unknown" where the evaluator knows that no fact equals it.
ComparesNull(predicate, ctx) ==
  LET compares[p \in Predicate] ==
        \/ p.operator \in {"eq", "neq"} /\ ResolveValue(p.value, ctx).kind = "nil"
        \/ \E q \in Parts(p) : compares[q]
  IN compares[predicate]

\* On a record without absent facts, a filter that compiles and compares with no
\* null returns every row the evaluator allows, but for those a guardrail of one
\* field matches: the evaluator leaves them to EvaluateField, the filter hides the
\* whole record.
ExactOnCompleteRecords ==
  \A pair \in Pair, claims \in BusinessClaims :
    LET ctx == Context(bundle, claims)
        guardrails == Range(FilterGuardrails(bundle, pair[1], pair[2]))
        filter == RecordFilter(bundle, pair[1], pair[2])
    IN FilterCompiles(filter, ctx) /\ (\A p \in filter.allow \union filter.deny : ~ComparesNull(p, ctx)) =>
         \A record \in (Allowed(bundle, pair, "", claims) \intersect Complete) \ Selected(bundle, pair, claims) :
           \E g \in guardrails : g.field # "" /\ Matching(g.predicate, record, ctx) = "true"

\* A planner told that a field needs no policy evaluation may use its static
\* envelope: the field's effect is the same for every record and claim, and
\* agrees with the fields the listings call readable.
StaticFieldIsStatic ==
  \A pair \in Pair, field \in Field :
    ~FieldRequiresPolicyEvaluation(bundle, pair[1], field, pair[2]) =>
      \A r1, r2 \in Record, claims \in BusinessClaims :
        /\ FieldEffect(bundle, pair, field, r1, claims) = FieldEffect(bundle, pair, field, r2, claims)
        /\ /\ pair[2] = "read"
           /\ FieldEffect(bundle, pair, field, r1, claims) # "hide"
           => ReadableFields(bundle, pair[1]) \intersect {field, "*"} # {}

\* The mirror image of a bundle: every list of it is reversed, predicates' parts included.
Reversed(list) ==
  [i \in {Past(list) - j : j \in DOMAIN list} |-> list[Past(list) - i]]

MirroredPredicate(predicate) ==
  LET mirrored[p \in Predicate] ==
        [p EXCEPT !.all = Reversed([i \in DOMAIN p.all |-> mirrored[p.all[i]]]),
                  !.any = Reversed([i \in DOMAIN p.any |-> mirrored[p.any[i]]]),
                  !.not = [i \in DOMAIN p.not |-> mirrored[p.not[i]]]]
  IN mirrored[predicate]

\* The instance has the mirror image of each of its predicates.
ASSUME MirrorAssumption == \A p \in Predicate : MirroredPredicate(p) \in Predicate

MirroredPolicies(list) ==
  Reversed([i \in DOMAIN list |-> [list[i] EXCEPT !.predicate = MirroredPredicate(@)]])

MirroredOptions(list) ==
  Reversed([i \in DOMAIN list |-> [list[i] EXCEPT !.predicate = [j \in DOMAIN @ |-> MirroredPredicate(@[j])]]])

MirroredFields(list) ==
  Reversed([i \in DOMAIN list |-> [list[i] EXCEPT !.rules = MirroredOptions(@)]])

Mirrored(b) ==
  [b EXCEPT !.functionGrants = Reversed(@), !.dataPolicies = MirroredPolicies(@),
            !.fieldPolicies = MirroredFields(@),
            !.referencePolicies = Reversed(@), !.exportPolicies = Reversed(@), !.guardrails = MirroredOptions(@)]

Undecided == {"data_policy_invalid", "guardrail_invalid", "field_policy_invalid"}

\* The canonical form, which a digest or a cache may stand for, forgets the order
\* of every list, predicates' parts included.  The evaluator reads lists in order
\* and stops early: reversing them all changes no decision, unless one of the two
\* met a predicate that cannot be evaluated.
OrderDecidesNothing ==
  ValidBundle(bundle, now) =>
    LET both == {bundle, Mirrored(bundle)}
    IN /\ \A b \in both : ValidBundle(b, now)
       /\ Cardinality({<<Canonical(b), PermissionKeys(b)>> : b \in both}) = 1
       /\ \A pair \in PermissionKeys(bundle) \intersect Pair, field \in Field \union {""},
             record \in Record, claims \in BusinessClaims :
            LET decisions == {Layers(b, pair[1], pair[2], field, record, Context(b, claims)) : b \in both}
            IN \/ Cardinality({d.allowed : d \in decisions}) = 1
               \/ {d.code : d \in decisions} \intersect Undecided # {}

\* Key `long' is what chains of projections may make of key `short'.
Extends(long, short) ==
  \E n \in 0 .. Len(long) : /\ Len(long) = Len(short) + 2 * n
                            /\ \A i \in 1 .. Len(short) : long[i] = short[i]

\* A policy was issued under a key that a projection of p may have: where such a
\* key is taken the projection is not added, a deny no more than an allow
\* (appendPolicy, execution.go).
KeyTaken(p) == \E q \in Range(issued.dataPolicies) : q # p /\ Extends(q.key, p.key)

LetsPass(p, record, ctx) ==
  PolicyMatch(p, record, ctx) = "false" \/ (p.effect = "allow" /\ PolicyMatch(p, record, ctx) = "true")

PoliciesOf(pair) == Range(PoliciesFor(issued, pair[1], pair[2]))

\* However restrictions and derivations were chained, a record is visible under
\* a pair only if every restriction let that pair through, an allow issued for the
\* pair whose policies were projected there matches, and no deny issued for the
\* pair itself does.  Of the policies issued where the projection began, the
\* denies included, each lets the record pass, except one that the bundle as
\* issued gave a taken key: the projection leaves that one behind.
VisibleOnlyThroughScopes ==
  ValidBundle(issued, 0) =>
    \A pair \in Pair, record \in Record, claims \in BusinessClaims :
      LET ctx == Context(issued, claims)
      IN DataVisible(bundle, pair, record, claims) =>
           /\ admitted[pair]
           /\ \E p \in PoliciesOf(origin[pair]) : p.effect = "allow" /\ PolicyMatch(p, record, ctx) = "true"
           /\ \A p \in PoliciesOf(pair) : p.effect = "deny" => PolicyMatch(p, record, ctx) = "false"
           /\ \A p \in PoliciesOf(origin[pair]) : LetsPass(p, record, ctx) \/ KeyTaken(p)

\* An execution bundle widens nothing but its target and the writes of declared
\* fields: other pairs decide as before, no field effect but a write relaxes,
\* and exports and references stay ("it never widens record predicates,
\* exports, references, or guardrails", execution.go).
Strictness(effect) == CASE effect = "allow" -> 0 [] effect = "mask" -> 1 [] OTHER -> 2

DerivedWidensOnlyDeclared(grant) ==
  /\ \A pair \in Pair \ {Target(grant)}, claims \in BusinessClaims :
       Allowed(bundle', pair, "", claims) = Allowed(bundle, pair, "", claims)
  /\ \A pair \in Resource \X (Action \intersect (ReadActions \union {"export"})),
        field \in Field, record \in Record, claims \in BusinessClaims :
       Strictness(FieldEffect(bundle', pair, field, record, claims))
         >= Strictness(FieldEffect(bundle, pair, field, record, claims))
  /\ \A r \in Resource : /\ ExportableFields(bundle', r) \subseteq ExportableFields(bundle, r)
                         /\ AllowedReferences(bundle', r) = AllowedReferences(bundle, r)

ExecutionWidensOnlyDeclared ==
  [][\A grant \in Grant : DeriveExecutionAccess(grant) => DerivedWidensOnlyDeclared(grant)]_vars

\* A valid bundle, restricted, allows no record it did not allow, and none
\* outside the scopes.  (An invalid one may become valid: RestrictAccess can
\* drop the entry that made it so, and does not validate.)
RestrictionNarrowsRecords ==
  [][\A scopes \in ScopeSet : RestrictAccess(scopes) /\ ValidBundle(bundle, now) =>
       \A pair \in Pair, claims \in BusinessClaims :
         Allowed(bundle', pair, "", claims) \subseteq
           IF pair \in scopes THEN Allowed(bundle, pair, "", claims) ELSE {}]_vars

\* "RestrictAccess intersects an AccessBundle with an application credential's
\* explicit resource.action scopes. Denies and guardrails are always retained"
\* (restriction.go): no field becomes readable that was not.
RestrictionNarrowsFields ==
  [][\A scopes \in ScopeSet : RestrictAccess(scopes) =>
       \A pair \in Pair, field \in Field, record \in Record, claims \in BusinessClaims :
         Strictness(FieldEffect(bundle', pair, field, record, claims))
           >= Strictness(FieldEffect(bundle, pair, field, record, claims))]_vars

\* "Missing facts fail closed" (README.md): a record that lacks facts is not
\* allowed where the record with these facts is not.
MissingFactsFailClosed ==
  \A pair \in Pair, claims \in BusinessClaims :
    \A partial \in Allowed(bundle, pair, "", claims), record \in Record :
      (\A fact \in DOMAIN record : partial[fact] \in {record[fact], Absent}) =>
        record \in Allowed(bundle, pair, "", claims)

=============================================================================
