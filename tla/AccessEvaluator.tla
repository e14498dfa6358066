-------------------------- MODULE AccessEvaluator --------------------------
(***************************************************************************)
(* Local enforcement of an access bundle: the decision on one record        *)
(* (evaluator.go), the decision on one field (field.go), the record filter  *)
(* a query is compiled to (filter.go) and the permission view of a          *)
(* principal (principal.go).  A decision is [allowed, code, audit]; codes   *)
(* that end in "invalid" are returned together with an error.               *)
(***************************************************************************)
EXTENDS AccessBundle

Matches(configured, requested) == configured \in {requested, "*"}
MatchesOrBlank(configured, requested) == configured = "" \/ Matches(configured, requested)

ReadActions == {"read", "list", "view", "search", "report", "audit"}
WriteActions == {"write", "create", "update"}

\* The first position of a list whose entry passes the test; the list has one.
First(list, Test(_)) == list[Least({i \in DOMAIN list : Test(list[i])})]
Some(list, Test(_)) == \E i \in DOMAIN list : Test(list[i])

\* An optional predicate: no predicate always matches.
Matching(optional, facts, ctx) ==
  IF optional = <<>> THEN "true" ELSE EvaluatePredicate(optional[1], facts, ctx)

-----------------------------------------------------------------------------
(* EvaluateField and its static envelope *)

\* "write" stands for create and update, in the policy as in the request.
FieldActionMatches(candidate, expected) ==
  \/ Matches(candidate, expected)
  \/ candidate = "write" /\ expected \in {"create", "update"}
  \/ expected = "write" /\ candidate \in {"create", "update"}

FieldGuardrails(b, r, f, a) ==
  Keep(b.guardrails, LAMBDA g : Matches(g.resource, r) /\ Matches(g.field, f) /\ FieldActionMatches(g.action, a))

FieldCandidates(b, r, f) ==
  Keep(b.fieldPolicies, LAMBDA p : Matches(p.resource, r) /\ Matches(p.field, f))

Score(p, r, f) == (IF p.resource = r THEN 2 ELSE 0) + (IF p.field = f THEN 1 ELSE 0)

\* An exact resource outranks an exact field; the first of a tie stands.
BestPolicy(candidates, r, f) ==
  First(candidates, LAMBDA p : \A q \in Range(candidates) : Score(q, r, f) <= Score(p, r, f))

ActionRules(rules, a) ==
  Keep(rules, LAMBDA rule : \E candidate \in rule.actions : FieldActionMatches(candidate, a))

BaselineField(policy, a) ==
  LET open == IF a \in ReadActions THEN policy.read
              ELSE IF a = "export" THEN policy.export ELSE policy.write
  IN IF ~open THEN "hide" ELSE IF policy.masked /\ a \notin WriteActions THEN "mask" ELSE "allow"

\* Rules are tried by falling priority; the first that matches or fails decides.
EffectOfAnswers(rules, answer, baseline) ==
  LET decisive == {i \in DOMAIN answer : answer[i] # "false"}
      top == CHOOSE i \in decisive : \A j \in decisive : rules[j].priority <= rules[i].priority
  IN IF decisive = {} THEN baseline ELSE IF answer[top] = "error" THEN "error" ELSE rules[top].effect

RuleEffect(policy, a, facts, ctx) ==
  LET rules == ActionRules(policy.rules, a)
  IN EffectOfAnswers(rules, [i \in DOMAIN rules |-> Matching(rules[i].predicate, facts, ctx)], BaselineField(policy, a))

\* The first guardrail that does not answer "false" decides; without one, onward.
GuardrailAnswers(guardrails, facts, ctx) ==
  [i \in DOMAIN guardrails |-> Matching(guardrails[i].predicate, facts, ctx)]

Guarded(answer, failed, denied, onward) ==
  IF \A i \in DOMAIN answer : answer[i] = "false" THEN onward
  ELSE IF Loop(answer, "false") = "error" THEN failed ELSE denied

EvaluateField(b, r, f, a, facts, ctx) ==
  LET candidates == FieldCandidates(b, r, f)
  IN IF r = "" \/ f = "" \/ a = "" THEN "error"
     ELSE Guarded(GuardrailAnswers(FieldGuardrails(b, r, f, a), facts, ctx), "error", "hide",
                  IF DOMAIN candidates = {} THEN "hide"
                  ELSE RuleEffect(BestPolicy(candidates, r, f), a, facts, ctx))

\* Mutant: only guardrails are looked for, not rules.
FieldRequiresGuardrailEvaluation(b, r, f, a) ==
  \/ r = "" \/ f = "" \/ a = ""
  \/ DOMAIN FieldGuardrails(b, r, f, a) # {}

\* FieldRequiresPolicyEvaluation: whether a planner must not push the field
\* down on its static envelope alone.
FieldRequiresPolicyEvaluation(b, r, f, a) ==
  \/ r = "" \/ f = "" \/ a = ""
  \/ DOMAIN FieldGuardrails(b, r, f, a) # {}
  \/ \E p \in Range(FieldCandidates(b, r, f)) : DOMAIN ActionRules(p.rules, a) # {}

-----------------------------------------------------------------------------
(* EvaluateWithContext *)

Verdict(allowed, code, audit) == [allowed |-> allowed, code |-> code, audit |-> audit]

FunctionGranted(b, r, a) == FunctionEffects(b, <<r, a>>) = {"allow"}

\* The guardrails that concern the record as a whole: one that names a field
\* must not deny the record that contains it.
RecordGuardrails(b, r, a) ==
  Keep(b.guardrails, LAMBDA g : MatchesOrBlank(g.resource, r) /\ MatchesOrBlank(g.action, a) /\ g.field = "")

PoliciesFor(b, r, a) == Keep(b.dataPolicies, LAMBDA p : p.resource = r /\ p.action = a)

PolicyMatch(p, facts, ctx) ==
  IF p.effect = "allow" /\ "all" \in p.scopes THEN "true" ELSE EvaluatePredicate(p.predicate, facts, ctx)

\* Mutant: a policy that cannot be evaluated is skipped.
DataDecisiveSkipping(p, answer) == answer = "true" /\ p.effect = "deny"

\* The loop over the data policies returns at the first error or matching deny.
DataDecisive(p, answer) == answer = "error" \/ (answer = "true" /\ p.effect = "deny")

VerdictOfAnswers(policies, answer) ==
  LET decisive == {i \in DOMAIN policies : DataDecisive(policies[i], answer[i])}
  IN IF decisive # {}
     THEN IF answer[Least(decisive)] = "error"
          THEN Verdict(FALSE, "data_policy_invalid", FALSE)
          ELSE Verdict(FALSE, "data_policy_denied", policies[Least(decisive)].audit)
     ELSE IF \E i \in DOMAIN policies : policies[i].effect = "allow" /\ answer[i] = "true"
     THEN Verdict(TRUE, "allowed", FALSE)
     ELSE Verdict(FALSE, "data_policy_not_granted", Some(policies, LAMBDA p : p.audit))

DataVerdict(policies, facts, ctx) ==
  VerdictOfAnswers(policies, [i \in DOMAIN policies |-> PolicyMatch(policies[i], facts, ctx)])

\* The field stage; its audit flag, that of the field rule, is left out.
FieldVerdict(effect) ==
  CASE effect = "error" -> Verdict(FALSE, "field_policy_invalid", FALSE)
    [] effect \in {"allow", "mask"} -> Verdict(TRUE, "allowed", FALSE)
    [] OTHER -> Verdict(FALSE, "field_not_granted", FALSE)

\* A request for a field asks for its effect once the record is allowed.
WithField(data, f, effect) == IF data.allowed /\ f # "" THEN FieldVerdict(effect) ELSE data

\* The layers of a decision on a valid bundle; f = "" asks for the record alone.
Layers(b, r, a, f, facts, ctx) ==
  IF r = "" \/ a = "" THEN Verdict(FALSE, "access_request_invalid", FALSE)
  ELSE IF "deny" \in FunctionEffects(b, <<r, a>>) THEN Verdict(FALSE, "function_denied", FALSE)
  ELSE IF ~FunctionGranted(b, r, a) THEN Verdict(FALSE, "function_not_granted", FALSE)
  ELSE Guarded(GuardrailAnswers(RecordGuardrails(b, r, a), facts, ctx),
               Verdict(FALSE, "guardrail_invalid", FALSE), Verdict(FALSE, "guardrail_denied", FALSE),
               WithField(DataVerdict(PoliciesFor(b, r, a), facts, ctx), f, EvaluateField(b, r, f, a, facts, ctx)))

Evaluate(b, r, a, f, facts, ctx, now) ==
  IF ValidBundle(b, now) THEN Layers(b, r, a, f, facts, ctx)
  ELSE Verdict(FALSE, "access_bundle_invalid", FALSE)

\* The records a caller may see when it asks for each of them.
AllowedRows(b, r, a, f, rows, ctx, now) ==
  IF ValidBundle(b, now) THEN {row \in rows : Layers(b, r, a, f, row, ctx).allowed} ELSE {}

AuditDenialRequired(b, r, a) == Some(PoliciesFor(b, r, a), LAMBDA p : p.audit)

-----------------------------------------------------------------------------
(* The listings a Runtime plans queries and pages from *)

FieldsWith(b, r, Open(_)) == {p.field : p \in Range(Keep(b.fieldPolicies, LAMBDA q : Matches(q.resource, r) /\ Open(q)))}
ReadableFields(b, r) == FieldsWith(b, r, LAMBDA p : p.read)
WritableFields(b, r) == FieldsWith(b, r, LAMBDA p : p.write)

\* A deny leaves nothing; allow lists, when there are any, bound the fields.
ExportableFields(b, r) ==
  LET policies == Range(Keep(b.exportPolicies, LAMBDA e : Matches(e.resource, r)))
      lists == {e \in policies : e.mode = "allow_list"}
  IN IF lists # policies THEN {}
     ELSE FieldsWith(b, r, LAMBDA p : p.export /\ (lists = {} \/ \E e \in lists : p.field \in e.fields))

\* A guardrail denies a reference as if it were a field, and only outright.
ReferenceGuardrailDenied(b, r, reference) ==
  Some(b.guardrails, LAMBDA g : /\ Matches(g.resource, r)
                                /\ g.field = reference
                                /\ Matches(g.action, "read")
                                /\ g.predicate = <<>>)

\* One denying policy withdraws a reference whatever other policies allow; the
\* display fields of the policies that remain are merged per target.
AllowedReferences(b, r) ==
  LET mine == {p \in Range(b.referencePolicies) : Matches(p.source, r)}
      denied == {p.reference : p \in {q \in mine : ~q.allowed \/ ReferenceGuardrailDenied(b, r, q.reference)}}
      open == {p \in mine : p.reference \notin denied}
  IN {[reference |-> p.reference, target |-> p.target,
       display |-> UNION {q.display : q \in {o \in open : o.reference = p.reference /\ o.target = p.target}}] : p \in open}

-----------------------------------------------------------------------------
(* CompileRecordFilter and CompileSQLWithContext *)

NoFilter == [allow |-> {}, deny |-> {}, unrestricted |-> FALSE]

\* Every guardrail of the resource and action applies, those of a field too.
FilterGuardrails(b, r, a) ==
  Keep(b.guardrails, LAMBDA g : MatchesOrBlank(g.resource, r) /\ MatchesOrBlank(g.action, a))

\* Mutant: guardrails with a predicate are left to the evaluator.
RecordFilterWithoutGuardrails(b, r, a) ==
  LET guardrails == Range(FilterGuardrails(b, r, a))
      policies == Range(PoliciesFor(b, r, a))
      unrestricted(p) == p.effect = "allow" /\ "all" \in p.scopes
  IN IF ~FunctionGranted(b, r, a) \/ \E g \in guardrails : g.predicate = <<>> THEN NoFilter
     ELSE [allow |-> {p.predicate : p \in {q \in policies : q.effect = "allow" /\ ~unrestricted(q)}},
           deny |-> {p.predicate : p \in {q \in policies : q.effect = "deny"}},
           unrestricted |-> \E p \in policies : unrestricted(p)]

\* Mutant: one policy with a predicate is enough to restrict the filter.
RecordFilterRestricted(b, r, a) ==
  LET guardrails == Range(FilterGuardrails(b, r, a))
      policies == Range(PoliciesFor(b, r, a))
      unrestricted(p) == p.effect = "allow" /\ "all" \in p.scopes
  IN IF ~FunctionGranted(b, r, a) \/ \E g \in guardrails : g.predicate = <<>> THEN NoFilter
     ELSE [allow |-> {p.predicate : p \in {q \in policies : q.effect = "allow" /\ ~unrestricted(q)}},
           deny |-> {g.predicate[1] : g \in guardrails}
                      \union {p.predicate : p \in {q \in policies : q.effect = "deny"}},
           unrestricted |-> \A p \in policies : unrestricted(p)]

RecordFilter(b, r, a) ==
  LET guardrails == Range(FilterGuardrails(b, r, a))
      policies == Range(PoliciesFor(b, r, a))
      unrestricted(p) == p.effect = "allow" /\ "all" \in p.scopes
  IN IF ~FunctionGranted(b, r, a) \/ \E g \in guardrails : g.predicate = <<>> THEN NoFilter
     ELSE [allow |-> {p.predicate : p \in {q \in policies : q.effect = "allow" /\ ~unrestricted(q)}},
           deny |-> {g.predicate[1] : g \in guardrails}
                      \union {p.predicate : p \in {q \in policies : q.effect = "deny"}},
           unrestricted |-> \E p \in policies : unrestricted(p)]

\* The allows are not compiled for an unrestricted filter.
FilterCompiles(filter, ctx) ==
  \A p \in filter.deny \union (IF filter.unrestricted THEN {} ELSE filter.allow) : Compiles(p, ctx)

\* What the clause of a compiled filter says of one row: no allow at all is
\* 0 = 1, and the denies are negated as one group.
FilterTruth(filter, row, ctx) ==
  LET allow == IF filter.unrestricted THEN "true" ELSE SQLOr({SQLTruth(p, row, ctx) : p \in filter.allow})
      deny == SQLOr({SQLTruth(p, row, ctx) : p \in filter.deny})
  IN SQLAnd({allow, Negated(deny)})

\* The rows a query returns: those the clause is true of, none when the bundle
\* is invalid or the filter does not compile.
SelectedRows(b, r, a, rows, ctx, now) ==
  LET filter == RecordFilter(b, r, a)
  IN IF ValidBundle(b, now) /\ r # "" /\ a # "" /\ FilterCompiles(filter, ctx)
     THEN {row \in rows : FilterTruth(filter, row, ctx) = "true"} ELSE {}

-----------------------------------------------------------------------------
(* Principal.HasPermission and its presentation *)

\* Mutant: a guardrail of one field denies the permission as well.
HasPermissionForFields(b, r, a) ==
  /\ r # "" /\ a # ""
  /\ FunctionGranted(b, r, a)
  /\ Some(PoliciesFor(b, r, a), LAMBDA p : p.effect = "allow")
  /\ ~Some(b.guardrails, LAMBDA g : MatchesOrBlank(g.resource, r) /\ MatchesOrBlank(g.action, a) /\ g.predicate = <<>>)

\* The permission "resource.action", on the bundle as it stands: expiry and
\* validity are left to the caller, and predicates to the evaluator.
HasPermission(b, r, a) ==
  /\ r # "" /\ a # ""
  /\ FunctionGranted(b, r, a)
  /\ Some(PoliciesFor(b, r, a), LAMBDA p : p.effect = "allow")
  /\ ~Some(RecordGuardrails(b, r, a), LAMBDA g : g.predicate = <<>>)

HasAllPermissions(b, expected) == expected # {} /\ \A pair \in expected : HasPermission(b, pair[1], pair[2])

PermissionKeys(b) ==
  {pair \in {<<g.resource, g.action>> : g \in Range(b.functionGrants)} : FunctionEffects(b, pair) = {"allow"}}

=============================================================================
