------------------------- MODULE AccessPolicyProofs -------------------------
(***************************************************************************)
(* What holds of every bundle, however it was issued, narrowed or derived:  *)
(* the layers of a decision follow from the definitions of the evaluator,   *)
(* so that the invariants need only the types of the history variables.     *)
(***************************************************************************)
EXTENDS AccessPolicy, PolicyLanguageProofs

\* A data stage that allows met no error and no matching deny, and some allow.
LEMMA DataVerdictAllows ==
  ASSUME NEW policies, NEW facts, NEW ctx, DataVerdict(policies, facts, ctx).allowed
  PROVE  /\ \A i \in DOMAIN policies :
              /\ PolicyMatch(policies[i], facts, ctx) # "error"
              /\ policies[i].effect = "deny" => PolicyMatch(policies[i], facts, ctx) # "true"
         /\ \E i \in DOMAIN policies :
              policies[i].effect = "allow" /\ PolicyMatch(policies[i], facts, ctx) = "true"
<1> DEFINE answer == [i \in DOMAIN policies |-> PolicyMatch(policies[i], facts, ctx)]
           decisive == {i \in DOMAIN policies : DataDecisive(policies[i], answer[i])}
<1>1. \A i \in DOMAIN policies : answer[i] = PolicyMatch(policies[i], facts, ctx)
  OBVIOUS
<1>2. VerdictOfAnswers(policies, answer).allowed
  BY DEF DataVerdict
<1> HIDE DEF answer
<1>3. /\ decisive = {}
      /\ \E i \in DOMAIN policies : policies[i].effect = "allow" /\ answer[i] = "true"
  BY <1>2 DEF VerdictOfAnswers, Verdict
<1>4. \A i \in DOMAIN policies : ~DataDecisive(policies[i], answer[i])
  BY <1>3
<1> QED
  BY <1>1, <1>3, <1>4 DEF DataDecisive

\* A field stage that allows rests on an effect of allow or mask.
LEMMA FieldVerdictAllows ==
  ASSUME NEW effect, FieldVerdict(effect).allowed
  PROVE  effect \in {"allow", "mask"}
BY DEF FieldVerdict, Verdict

\* The layers of EvaluateWithContext, each passed by a decision that allows.
LEMMA LayersAllow ==
  ASSUME NEW b, NEW r, NEW a, NEW f, NEW facts, NEW ctx, Layers(b, r, a, f, facts, ctx).allowed
  PROVE  /\ r # "" /\ a # ""
         /\ FunctionGranted(b, r, a)
         /\ NoGuardrailHits(b, r, a, facts, ctx)
         /\ DataVerdict(PoliciesFor(b, r, a), facts, ctx).allowed
         /\ f # "" => EvaluateField(b, r, f, a, facts, ctx) \in {"allow", "mask"}
<1> DEFINE concerned == RecordGuardrails(b, r, a)
           answers == GuardrailAnswers(concerned, facts, ctx)
           data == DataVerdict(PoliciesFor(b, r, a), facts, ctx)
<1>1. /\ r # "" /\ a # ""
      /\ FunctionGranted(b, r, a)
      /\ \A i \in DOMAIN answers : answers[i] = "false"
      /\ data.allowed
      /\ f # "" => FieldVerdict(EvaluateField(b, r, f, a, facts, ctx)).allowed
  <2> HIDE DEF answers, data
  <2> QED BY DEF Layers, Guarded, WithField, Verdict, answers, data
<1>2. /\ DOMAIN concerned = {i \in DOMAIN b.guardrails :
           /\ MatchesOrBlank(b.guardrails[i].resource, r)
           /\ MatchesOrBlank(b.guardrails[i].action, a)
           /\ b.guardrails[i].field = ""}
      /\ \A i \in DOMAIN concerned : concerned[i] = b.guardrails[i]
  BY DEF RecordGuardrails, Keep
<1>3. \A i \in DOMAIN concerned : Matching(concerned[i].predicate, facts, ctx) = "false"
  <2> HIDE DEF concerned
  <2> QED BY <1>1 DEF GuardrailAnswers
<1>4. NoGuardrailHits(b, r, a, facts, ctx)
  <2> HIDE DEF concerned
  <2> QED BY <1>2, <1>3 DEF NoGuardrailHits
<1> HIDE DEF concerned, answers
<1> QED
  BY <1>1, <1>4, FieldVerdictAllows

-----------------------------------------------------------------------------
\* A pair is the tuple of its two parts.
LEMMA PairParts ==
  ASSUME NEW pair \in Pair
  PROVE  pair = <<pair[1], pair[2]>>
BY DEF Pair

\* The policies of a pair, in the terms of the bundle, when the data stage allows.
LEMMA VisiblePolicies ==
  ASSUME NEW b, NEW r, NEW a, NEW facts, NEW ctx,
         DataVerdict(PoliciesFor(b, r, a), facts, ctx).allowed
  PROVE  NoPolicyForbids(b, r, a, facts, ctx)
<1> DEFINE mine == PoliciesFor(b, r, a)
<1>1. \A i \in DOMAIN mine :
        /\ PolicyMatch(mine[i], facts, ctx) # "error"
        /\ mine[i].effect = "deny" => PolicyMatch(mine[i], facts, ctx) # "true"
  BY DataVerdictAllows
<1>2. \A i \in DOMAIN b.dataPolicies :
        b.dataPolicies[i].resource = r /\ b.dataPolicies[i].action = a
          => i \in DOMAIN mine /\ mine[i] = b.dataPolicies[i]
  BY DEF PoliciesFor, Keep
<1> HIDE DEF mine
<1> QED
  BY <1>1, <1>2 DEF NoPolicyForbids

\* AllowedPassesEveryLayer holds of any bundle at any time.
LEMMA AllowedPasses == AllowedPassesEveryLayer
<1> SUFFICES ASSUME NEW pair \in Pair, NEW field \in Field \union {""}, NEW claims \in BusinessClaims,
                    NEW record \in Allowed(bundle, pair, field, claims),
                    NEW ctx, ctx = Context(bundle, claims)
             PROVE  PassesEveryLayer(pair, field, record, ctx)
  BY DEF AllowedPassesEveryLayer
<1>1. ValidBundle(bundle, now) /\ Layers(bundle, pair[1], pair[2], field, record, ctx).allowed
  BY DEF Allowed, AllowedRows
<1>2. bundle.expiresAt > now
  BY <1>1 DEF ValidBundle
<1>3. /\ FunctionGranted(bundle, pair[1], pair[2])
      /\ NoGuardrailHits(bundle, pair[1], pair[2], record, ctx)
      /\ DataVerdict(PoliciesFor(bundle, pair[1], pair[2]), record, ctx).allowed
      /\ field # "" => EvaluateField(bundle, pair[1], field, pair[2], record, ctx) \in {"allow", "mask"}
  BY <1>1, LayersAllow
<1>4. FunctionEffects(bundle, pair) = {"allow"}
  BY <1>3, PairParts DEF FunctionGranted
<1> QED
  BY <1>2, <1>3, <1>4, VisiblePolicies DEF PassesEveryLayer

\* PermissionIsNecessary holds of any bundle at any time.
LEMMA AllowedHasPermission == PermissionIsNecessary
<1> SUFFICES ASSUME NEW pair \in Pair, NEW claims \in BusinessClaims,
                    NEW record \in Allowed(bundle, pair, "", claims),
                    NEW ctx, ctx = Context(bundle, claims)
             PROVE  HasPermission(bundle, pair[1], pair[2]) /\ pair \in PermissionKeys(bundle)
  BY DEF PermissionIsNecessary
<1>1. Layers(bundle, pair[1], pair[2], "", record, ctx).allowed
  BY DEF Allowed, AllowedRows
<1>2. /\ pair[1] # "" /\ pair[2] # ""
      /\ FunctionGranted(bundle, pair[1], pair[2])
      /\ NoGuardrailHits(bundle, pair[1], pair[2], record, ctx)
      /\ DataVerdict(PoliciesFor(bundle, pair[1], pair[2]), record, ctx).allowed
  BY <1>1, LayersAllow
<1>3. Some(PoliciesFor(bundle, pair[1], pair[2]), LAMBDA p : p.effect = "allow")
  BY <1>2, DataVerdictAllows DEF Some
<1>4. ~Some(RecordGuardrails(bundle, pair[1], pair[2]), LAMBDA g : g.predicate = <<>>)
  BY <1>2 DEF Some, RecordGuardrails, Keep, Matching, NoGuardrailHits
<1>5. FunctionEffects(bundle, pair) = {"allow"}
  BY <1>2, PairParts DEF FunctionGranted
<1>6. PICK g \in Range(bundle.functionGrants) : <<g.resource, g.action>> = pair
  BY <1>5 DEF FunctionEffects
<1> QED
  BY <1>2, <1>3, <1>4, <1>5, <1>6 DEF HasPermission, PermissionKeys

\* Every decision that allows, in every reachable state of every instance, has
\* passed each layer of EvaluateWithContext.
THEOREM DecisionsPassEveryLayer == Spec => []AllowedPassesEveryLayer
BY AllowedPasses, PTL

\* HasPermission never refuses what the evaluator would allow.
THEOREM PermissionCheckIsNecessary == Spec => []PermissionIsNecessary
BY AllowedHasPermission, PTL

-----------------------------------------------------------------------------
(* Finite lists *)

\* A finite set of naturals has a bound: a minimal subset without one is not
\* empty, and the bound of the rest of it or the member taken out would do.
LEMMA FiniteSetBound ==
  ASSUME NEW D, D \subseteq Nat, IsFiniteSet(D)
  PROVE  \E n \in Nat : \A i \in D : i <= n
<1> DEFINE Bounded(V) == \E n \in Nat : \A i \in V : i <= n
           T == {V \in SUBSET D : ~Bounded(V)}
<1>1. SUFFICES ASSUME T # {} PROVE FALSE
  OBVIOUS
<1>2. T \subseteq FiniteSubsetsOf(D)
  BY FS_FiniteSubsetsOfFinite
<1>3. PICK V \in T : \A W \in T : <<W, V>> \notin StrictSubsetOrdering(D)
  <2> HIDE DEF T
  <2> QED BY <1>1, <1>2, FS_StrictSubsetOrderingWellFounded, WFMin
<1>4. V \in SUBSET D /\ ~Bounded(V)
  OBVIOUS
<1>5. V # {}
  <2>1. Bounded({})
    OBVIOUS
  <2> QED BY <1>4, <2>1
<1>6. PICK x \in V : TRUE
  BY <1>5
<1>7. Bounded(V \ {x})
  <2>1. <<V \ {x}, V>> \in StrictSubsetOrdering(D)
    BY <1>4, <1>6 DEF StrictSubsetOrdering
  <2>2. V \ {x} \notin T
    BY <1>3, <2>1
  <2>3. V \ {x} \in SUBSET D
    BY <1>4
  <2> QED
    BY <2>2, <2>3
<1>8. PICK n \in Nat : \A i \in V \ {x} : i <= n
  BY <1>7
<1>9. x \in Nat /\ \A i \in V : i \in Nat
  BY <1>4, <1>6
<1>10. Bounded(V)
  <2>1. n + x \in Nat /\ \A i \in V : i <= n + x
    BY <1>8, <1>9
  <2> QED BY <2>1
<1> QED
  BY <1>4, <1>10

\* Past(list) is a position behind all of the list's.
LEMMA PastBound ==
  ASSUME NEW list, FiniteList(list)
  PROVE  Past(list) \in Nat \ {0} /\ \A i \in DOMAIN list : i < Past(list)
<1> DEFINE D == DOMAIN list
           U == UNION {1 .. i : i \in D}
<1>1. D \subseteq Nat \ {0} /\ IsFiniteSet(D)
  BY DEF FiniteList
<1>2. PICK n \in Nat : \A i \in D : i <= n
  <2> HIDE DEF D
  <2> QED BY <1>1, FiniteSetBound
<1>3. U \subseteq 1 .. n
  BY <1>1, <1>2
<1>4. IsFiniteSet(U) /\ Cardinality(U) \in Nat
  <2>1. IsFiniteSet(1 .. n)
    BY FS_Interval
  <2> HIDE DEF U
  <2> QED BY <1>3, <2>1, FS_Subset, FS_CardinalityType
<1>5. ASSUME NEW i \in D PROVE i <= Cardinality(U)
  <2>1. i \in Nat \ {0} /\ (1 .. i) \subseteq U
    BY <1>1
  <2>2. Cardinality(1 .. i) = i
    BY <2>1, FS_Interval
  <2>3. Cardinality(1 .. i) <= Cardinality(U)
    <3> HIDE DEF U
    <3> QED BY <1>4, <2>1, FS_Subset
  <2> QED
    BY <2>2, <2>3
<1>6. Past(list) = 1 + Cardinality(U)
  BY DEF Past
<1>7. \A i \in D : i \in Nat
  BY <1>1
<1> HIDE DEF U, D
<1>8. Past(list) \in Nat \ {0} /\ \A i \in D : i < Past(list)
  BY <1>4, <1>5, <1>6, <1>7
<1> QED
  BY <1>8 DEF D

\* The list `more' behind the list `list', at positions beyond shift.
Joined(list, more, shift) ==
  [i \in DOMAIN list \union {shift + j : j \in DOMAIN more} |->
     IF i \in DOMAIN list THEN list[i] ELSE more[i - shift]]

\* Joining two finite lists keeps the entries of both, in their order.
LEMMA JoinedLists ==
  ASSUME NEW list, FiniteList(list), NEW more, FiniteList(more),
         NEW shift \in Nat, \A i \in DOMAIN list : i < shift
  PROVE  /\ FiniteList(Joined(list, more, shift))
         /\ \A i \in DOMAIN list : /\ i \in DOMAIN Joined(list, more, shift)
                                   /\ Joined(list, more, shift)[i] = list[i]
         /\ \A j \in DOMAIN more : /\ shift + j \in DOMAIN Joined(list, more, shift)
                                   /\ shift + j \notin DOMAIN list
                                   /\ Joined(list, more, shift)[shift + j] = more[j]
         /\ \A i \in DOMAIN Joined(list, more, shift) :
              i \in DOMAIN list \/ \E j \in DOMAIN more : i = shift + j
<1> DEFINE J == Joined(list, more, shift)
           A == DOMAIN list
           B == DOMAIN more
           S == {shift + j : j \in B}
<1>1. /\ A \subseteq Nat \ {0} /\ IsFiniteSet(A)
      /\ B \subseteq Nat \ {0} /\ IsFiniteSet(B)
  BY DEF FiniteList
<1>2. PICK n \in Nat : \A j \in B : j <= n
  <2> HIDE DEF B
  <2> QED BY <1>1, FiniteSetBound
<1>3. /\ DOMAIN J = A \union S
      /\ \A i \in A \union S : J[i] = IF i \in A THEN list[i] ELSE more[i - shift]
  BY DEF Joined
<1>4. \A j \in B : shift + j \notin A /\ shift + j \in Nat \ {0} /\ (shift + j) - shift = j
  BY <1>1
<1>5. S \subseteq 0 .. (shift + n)
  BY <1>1, <1>2
<1>6. IsFiniteSet(S)
  <2> HIDE DEF S
  <2>1. IsFiniteSet(0 .. (shift + n))
    BY FS_Interval
  <2> QED BY <1>5, <2>1, FS_Subset
<1>7. IsFiniteSet(A \union S)
  <2> HIDE DEF A, S
  <2> QED BY <1>1, <1>6, FS_Union
<1>8. A \union S \subseteq Nat \ {0}
  BY <1>1, <1>4
<1>9. FiniteList(J)
  <2> HIDE DEF J, A, S
  <2> QED BY <1>3, <1>7, <1>8 DEF FiniteList
<1>10. \A i \in A : i \in DOMAIN J /\ J[i] = list[i]
  <2> HIDE DEF J, A, S
  <2> QED BY <1>3
<1>11. \A j \in B : shift + j \in DOMAIN J /\ shift + j \notin A /\ J[shift + j] = more[j]
  <2>1. \A j \in B : shift + j \in S
    OBVIOUS
  <2> HIDE DEF J, A, B, S
  <2> QED BY <1>3, <1>4, <2>1
<1>12. \A i \in DOMAIN J : i \in A \/ \E j \in B : i = shift + j
  BY <1>3
<1> QED
  BY <1>9, <1>10, <1>11, <1>12

\* What Keep leaves is a finite list, each entry at its place.
LEMMA KeptDomain ==
  ASSUME NEW list, FiniteList(list), NEW kept, DOMAIN kept \subseteq DOMAIN list
  PROVE  FiniteList(kept)
BY FS_Subset DEF FiniteList

-----------------------------------------------------------------------------
(* What a restriction and a derivation make of a bundle *)

\* What RestrictAccess leaves of the lists the record layers read.
LEMMA RestrictedLists ==
  ASSUME NEW b, DOMAIN b = BundleFields, NEW scopes
  PROVE  /\ DOMAIN Restricted(b, scopes) = BundleFields
         /\ Restricted(b, scopes).subject = b.subject
         /\ Restricted(b, scopes).guardrails = b.guardrails
         /\ Restricted(b, scopes).functionGrants
              = Keep(b.functionGrants, LAMBDA g : g.effect = "deny" \/ <<g.resource, g.action>> \in scopes)
         /\ Restricted(b, scopes).dataPolicies
              = Keep(b.dataPolicies, LAMBDA p : p.effect = "deny" \/ <<p.resource, p.action>> \in scopes)
         /\ Restricted(b, scopes).fieldPolicies = RestrictedFields(b.fieldPolicies, scopes)
         /\ Restricted(b, scopes).referencePolicies = Keep(b.referencePolicies, LAMBDA r : <<r.source, "read">> \in scopes)
         /\ Restricted(b, scopes).exportPolicies = Keep(b.exportPolicies, LAMBDA e : <<e.resource, "export">> \in scopes)
BY DEF Restricted, BundleFields

\* A restriction keeps the shape of a bundle.
LEMMA RestrictedShape ==
  ASSUME NEW b, BundleShape(b), NEW scopes
  PROVE  BundleShape(Restricted(b, scopes))
<1> DEFINE c == Restricted(b, scopes)
           fields == b.fieldPolicies
<1>1. /\ DOMAIN b = BundleFields
      /\ FiniteList(b.functionGrants) /\ FiniteList(b.dataPolicies) /\ FiniteList(fields) /\ FiniteList(b.guardrails)
      /\ FiniteList(b.referencePolicies) /\ FiniteList(b.exportPolicies)
  BY DEF BundleShape
<1>2. /\ DOMAIN c = BundleFields /\ c.guardrails = b.guardrails
      /\ c.functionGrants = Keep(b.functionGrants, LAMBDA g : g.effect = "deny" \/ <<g.resource, g.action>> \in scopes)
      /\ c.dataPolicies = Keep(b.dataPolicies, LAMBDA p : p.effect = "deny" \/ <<p.resource, p.action>> \in scopes)
      /\ c.fieldPolicies = RestrictedFields(fields, scopes)
      /\ c.referencePolicies = Keep(b.referencePolicies, LAMBDA r : <<r.source, "read">> \in scopes)
      /\ c.exportPolicies = Keep(b.exportPolicies, LAMBDA e : <<e.resource, "export">> \in scopes)
  BY <1>1, RestrictedLists
<1>3. FiniteList(c.functionGrants)
  <2>1. DOMAIN c.functionGrants \subseteq DOMAIN b.functionGrants
    BY <1>2 DEF Keep
  <2> QED BY <1>1, <2>1, KeptDomain
<1>4. FiniteList(c.dataPolicies) /\ \A p \in Range(c.dataPolicies) : p \in Range(b.dataPolicies)
  <2>1. /\ DOMAIN c.dataPolicies \subseteq DOMAIN b.dataPolicies
        /\ \A i \in DOMAIN c.dataPolicies : c.dataPolicies[i] = b.dataPolicies[i]
    BY <1>2 DEF Keep
  <2> QED BY <1>1, <2>1, KeptDomain DEF Range
<1>5. /\ FiniteList(c.fieldPolicies)
      /\ \A f \in Range(c.fieldPolicies) : \E g \in Range(fields) : DOMAIN f = DOMAIN g /\ f.rules = g.rules
  <2>1. /\ DOMAIN c.fieldPolicies \subseteq DOMAIN fields
        /\ \A i \in DOMAIN c.fieldPolicies :
             DOMAIN c.fieldPolicies[i] = DOMAIN fields[i] /\ c.fieldPolicies[i].rules = fields[i].rules
    <3> DEFINE Narrow(f) == [f EXCEPT
                  !.read = @ /\ <<f.resource, "read">> \in scopes,
                  !.write = @ /\ \E action \in {"create", "update"} : <<f.resource, action>> \in scopes,
                  !.export = @ /\ <<f.resource, "export">> \in scopes]
               narrowed == [i \in DOMAIN fields |-> Narrow(fields[i])]
    <3>1. /\ DOMAIN narrowed = DOMAIN fields
          /\ \A i \in DOMAIN fields : DOMAIN narrowed[i] = DOMAIN fields[i] /\ narrowed[i].rules = fields[i].rules
      <4>1. \A f : DOMAIN Narrow(f) = DOMAIN f /\ Narrow(f).rules = f.rules
        OBVIOUS
      <4> HIDE DEF Narrow
      <4> QED BY <4>1
    <3>2. c.fieldPolicies = Keep(narrowed, LAMBDA f : f.read \/ f.write \/ f.export)
      BY <1>2 DEF RestrictedFields
    <3>3. DOMAIN c.fieldPolicies \subseteq DOMAIN narrowed /\ \A i \in DOMAIN c.fieldPolicies : c.fieldPolicies[i] = narrowed[i]
      <4> HIDE DEF narrowed
      <4> QED BY <3>2 DEF Keep
    <3> HIDE DEF narrowed, c
    <3> QED BY <3>1, <3>3
  <2> HIDE DEF c, fields
  <2> QED BY <1>1, <2>1, KeptDomain DEF Range
<1>6. FiniteList(c.referencePolicies) /\ FiniteList(c.exportPolicies)
  <2>1. /\ DOMAIN c.referencePolicies \subseteq DOMAIN b.referencePolicies
        /\ DOMAIN c.exportPolicies \subseteq DOMAIN b.exportPolicies
    BY <1>2 DEF Keep
  <2> QED BY <1>1, <2>1, KeptDomain
<1> HIDE DEF c
<1> QED
  BY <1>1, <1>2, <1>3, <1>4, <1>5, <1>6 DEF BundleShape, c

\* The policies a derivation keeps, and the projections it adds behind them.
KeptPolicies(policies, grant) ==
  Keep(policies, LAMBDA p : ~(<<p.resource, p.action>> = Target(grant) /\ p.effect = "allow"))

Projection(p, grant) ==
  [p EXCEPT !.key = @ \o Target(grant), !.resource = grant.resource, !.action = grant.action]

\* A projection has its source's content, on the grant's target.
LEMMA ProjectionContent ==
  ASSUME NEW p, NEW grant
  PROVE  /\ DOMAIN Projection(p, grant) = DOMAIN p
         /\ Projection(p, grant).effect = p.effect
         /\ Projection(p, grant).scopes = p.scopes
         /\ Projection(p, grant).predicate = p.predicate
         /\ {"key", "resource", "action"} \subseteq DOMAIN p =>
              /\ Projection(p, grant).key = p.key \o Target(grant)
              /\ Projection(p, grant).resource = grant.resource
              /\ Projection(p, grant).action = grant.action
<1> DEFINE p1 == [p EXCEPT !.key = @ \o Target(grant)]
           p2 == [p1 EXCEPT !.resource = grant.resource]
           p3 == [p2 EXCEPT !.action = grant.action]
<1>1. Projection(p, grant) = p3
  BY DEF Projection
<1>2. /\ DOMAIN p1 = DOMAIN p
      /\ p1.effect = p.effect /\ p1.scopes = p.scopes /\ p1.predicate = p.predicate
      /\ "key" \in DOMAIN p => p1.key = p.key \o Target(grant)
  OBVIOUS
<1> HIDE DEF p1
<1>3. /\ DOMAIN p2 = DOMAIN p1
      /\ p2.effect = p1.effect /\ p2.scopes = p1.scopes /\ p2.predicate = p1.predicate /\ p2.key = p1.key
      /\ "resource" \in DOMAIN p1 => p2.resource = grant.resource
  OBVIOUS
<1> HIDE DEF p2
<1>4. /\ DOMAIN p3 = DOMAIN p2
      /\ p3.effect = p2.effect /\ p3.scopes = p2.scopes /\ p3.predicate = p2.predicate
      /\ p3.key = p2.key /\ p3.resource = p2.resource
      /\ "action" \in DOMAIN p2 => p3.action = grant.action
  OBVIOUS
<1> HIDE DEF p3
<1> QED
  BY <1>1, <1>2, <1>3, <1>4

ProjectedPositions(policies, grant) ==
  {i \in DOMAIN policies :
     /\ <<policies[i].resource, policies[i].action>> = grant.source[1]
     /\ \A q \in Range(KeptPolicies(policies, grant)) : q.key # Projection(policies[i], grant).key}

FreshPolicies(policies, grant) ==
  [i \in ProjectedPositions(policies, grant) |-> Projection(policies[i], grant)]

\* Projection keeps some policies and appends the fresh ones.
LEMMA ProjectionJoins ==
  ASSUME NEW policies, NEW grant
  PROVE  ProjectedPolicies(policies, grant)
           = Joined(KeptPolicies(policies, grant), FreshPolicies(policies, grant), Past(policies))
<1> DEFINE kept == KeptPolicies(policies, grant)
           moved == Keep(policies, LAMBDA p : <<p.resource, p.action>> = grant.source[1])
           projected == [i \in DOMAIN moved |-> Projection(moved[i], grant)]
           fresh == Keep(projected, LAMBDA p : p.key \notin {q.key : q \in Range(kept)})
<1>1. ProjectedPolicies(policies, grant) = Joined(kept, fresh, Past(policies))
  BY DEF ProjectedPolicies, Joined, KeptPolicies, Projection
<1>2. fresh = FreshPolicies(policies, grant)
  <2>1. /\ DOMAIN moved = {i \in DOMAIN policies : <<policies[i].resource, policies[i].action>> = grant.source[1]}
        /\ \A i \in DOMAIN moved : moved[i] = policies[i]
    BY DEF Keep
  <2>2. /\ DOMAIN projected = DOMAIN moved
        /\ \A i \in DOMAIN moved : projected[i] = Projection(policies[i], grant)
    <3> HIDE DEF moved
    <3> QED BY <2>1
  <2>3. fresh = [i \in {j \in DOMAIN projected : projected[j].key \notin {q.key : q \in Range(kept)}} |-> projected[i]]
    BY DEF Keep
  <2>4. {j \in DOMAIN projected : projected[j].key \notin {q.key : q \in Range(kept)}} = ProjectedPositions(policies, grant)
    <3> HIDE DEF moved, projected, kept
    <3> QED BY <2>1, <2>2 DEF ProjectedPositions, kept
  <2> HIDE DEF moved, projected, kept, fresh
  <2> QED BY <2>1, <2>2, <2>3, <2>4 DEF FreshPolicies
<1> HIDE DEF fresh
<1> QED
  BY <1>1, <1>2

\* The field policies with the declared effects opened, and the ones added.
Opened(fields, grant) ==
  [i \in DOMAIN fields |->
     [fields[i] EXCEPT !.write = @ \/ (fields[i].resource = grant.resource /\ fields[i].field \in grant.fields)]]

WriteOnly(resource, field) ==
  [resource |-> resource, field |-> field, read |-> FALSE, write |-> TRUE,
   export |-> FALSE, masked |-> FALSE, rules |-> <<>>]

\* A derivation adds a finite list of policies that open writes alone.
LEMMA DerivedFieldsJoin ==
  ASSUME NEW b, FiniteList(b.fieldPolicies), NEW grant, IsFiniteSet(grant.fields)
  PROVE  \E more : /\ FiniteList(more)
                   /\ \A i \in DOMAIN more : \E field : more[i] = WriteOnly(grant.resource, field)
                   /\ DerivedFields(b, grant)
                        = Joined(Opened(b.fieldPolicies, grant), more, Past(Opened(b.fieldPolicies, grant)))
<1> DEFINE opened == Opened(b.fieldPolicies, grant)
           added == grant.fields \ ({""} \union {f.field : f \in {g \in Range(opened) :
                                                 g.resource = grant.resource /\ g.field \in grant.fields}})
           order == CHOOSE s \in [1 .. Cardinality(added) -> added] : Range(s) = added
           more == [j \in DOMAIN order |-> WriteOnly(grant.resource, order[j])]
<1>1. IsFiniteSet(added) /\ Cardinality(added) \in Nat
  BY FS_Subset, FS_CardinalityType
<1>2. \E s \in [1 .. Cardinality(added) -> added] : Range(s) = added
  <2>1. ExistsBijection(1 .. Cardinality(added), added)
    <3> HIDE DEF added
    <3> QED BY <1>1, FS_CardinalityType
  <2>2. PICK s \in Bijection(1 .. Cardinality(added), added) : TRUE
    <3> HIDE DEF added
    <3> QED BY <2>1 DEF ExistsBijection
  <2> HIDE DEF added
  <2> QED BY <2>2 DEF Bijection, Surjection, Injection, Range
<1>3. order \in [1 .. Cardinality(added) -> added]
  <2> HIDE DEF added
  <2> QED BY <1>2
<1>4. FiniteList(more)
  <2>1. DOMAIN more = 1 .. Cardinality(added)
    <3> HIDE DEF order, added
    <3> QED BY <1>3
  <2>2. IsFiniteSet(1 .. Cardinality(added))
    <3> HIDE DEF added
    <3> QED BY <1>1, FS_Interval
  <2> HIDE DEF more, added
  <2> QED BY <1>1, <2>1, <2>2 DEF FiniteList
<1>5. \A i \in DOMAIN more : \E field : more[i] = WriteOnly(grant.resource, field)
  <2> HIDE DEF order
  <2> QED OBVIOUS
<1>6. DerivedFields(b, grant) = Joined(opened, more, Past(opened))
  <2>1. DerivedFields(b, grant)
          = [i \in DOMAIN opened \union {Past(opened) + j : j \in DOMAIN order} |->
               IF i \in DOMAIN opened THEN opened[i] ELSE WriteOnly(grant.resource, order[i - Past(opened)])]
    BY DEF DerivedFields, Opened, WriteOnly
  <2> HIDE DEF order, opened
  <2>2. FiniteList(opened)
    BY KeptDomain DEF Opened, opened
  <2>3. Past(opened) \in Nat /\ \A j \in DOMAIN order : j \in Nat
    <3>1. Past(opened) \in Nat
      BY <2>2, PastBound
    <3>2. DOMAIN order = 1 .. Cardinality(added)
      <4> HIDE DEF added
      <4> QED BY <1>3
    <3> HIDE DEF added
    <3> QED BY <3>1, <3>2
  <2>4. \A i \in {Past(opened) + j : j \in DOMAIN order} :
           more[i - Past(opened)] = WriteOnly(grant.resource, order[i - Past(opened)])
    BY <2>3
  <2> HIDE DEF more
  <2>5. DOMAIN more = DOMAIN order
    BY DEF more
  <2> QED BY <2>1, <2>4, <2>5 DEF Joined
<1> HIDE DEF more, opened
<1> QED
  BY <1>4, <1>5, <1>6 DEF opened

\* A derivation keeps the shape of a bundle.
LEMMA DerivedShape ==
  ASSUME NEW b, BundleShape(b), NEW grant, IsFiniteSet(grant.fields)
  PROVE  BundleShape(Derived(b, grant))
<1> DEFINE c == Derived(b, grant)
<1>1. /\ DOMAIN b = BundleFields
      /\ FiniteList(b.functionGrants) /\ FiniteList(b.dataPolicies)
      /\ FiniteList(b.fieldPolicies) /\ FiniteList(b.guardrails)
      /\ FiniteList(b.referencePolicies) /\ FiniteList(b.exportPolicies)
  BY DEF BundleShape
<1>2. /\ DOMAIN c = BundleFields /\ c.guardrails = b.guardrails
      /\ c.referencePolicies = b.referencePolicies /\ c.exportPolicies = b.exportPolicies
      /\ c.functionGrants = DerivedGrants(b, grant)
      /\ c.dataPolicies = DerivedPolicies(b, grant)
      /\ c.fieldPolicies = DerivedFields(b, grant)
  BY <1>1 DEF Derived, BundleFields
<1>3. FiniteList(c.functionGrants)
  <2>1. \A entry : FiniteList(Appended(b.functionGrants, entry))
    <3> DEFINE D == DOMAIN b.functionGrants
    <3>1. Past(b.functionGrants) \in Nat \ {0}
      BY <1>1, PastBound
    <3>2. D \subseteq Nat \ {0} /\ IsFiniteSet(D)
      BY <1>1 DEF FiniteList
    <3>3. IsFiniteSet(D \union {Past(b.functionGrants)})
      <4> HIDE DEF D
      <4> QED BY <3>2, FS_AddElement
    <3>4. \A entry : DOMAIN Appended(b.functionGrants, entry) = D \union {Past(b.functionGrants)}
      BY DEF Appended
    <3> HIDE DEF D
    <3> QED BY <3>1, <3>2, <3>3, <3>4 DEF FiniteList
  <2> QED
    BY <1>1, <1>2, <2>1 DEF DerivedGrants
<1>4. /\ FiniteList(c.dataPolicies)
      /\ \A p \in Range(c.dataPolicies) : \E q \in Range(b.dataPolicies) :
           DOMAIN p = DOMAIN q /\ p.predicate = q.predicate
  <2> DEFINE policies == b.dataPolicies
             kept == KeptPolicies(policies, grant)
             fresh == FreshPolicies(policies, grant)
             shift == Past(policies)
  <2>1. CASE c.dataPolicies = policies
    BY <1>1, <2>1
  <2>2. CASE c.dataPolicies = Joined(kept, fresh, shift)
    <3>1. /\ DOMAIN kept \subseteq DOMAIN policies
          /\ \A i \in DOMAIN kept : kept[i] = policies[i]
      BY DEF KeptPolicies, Keep
    <3>2. /\ DOMAIN fresh \subseteq DOMAIN policies
          /\ \A i \in DOMAIN fresh : /\ DOMAIN fresh[i] = DOMAIN policies[i]
                                     /\ fresh[i].predicate = policies[i].predicate
      BY ProjectionContent DEF FreshPolicies, ProjectedPositions
    <3>3. /\ FiniteList(kept) /\ FiniteList(fresh) /\ shift \in Nat
          /\ \A i \in DOMAIN kept : i < shift
      <4> HIDE DEF kept, fresh
      <4> QED BY <1>1, <3>1, <3>2, KeptDomain, PastBound
    <3>4. /\ FiniteList(Joined(kept, fresh, shift))
          /\ \A i \in DOMAIN Joined(kept, fresh, shift) :
               \/ i \in DOMAIN kept /\ Joined(kept, fresh, shift)[i] = kept[i]
               \/ \E j \in DOMAIN fresh : Joined(kept, fresh, shift)[i] = fresh[j]
      <4> HIDE DEF kept, fresh, shift
      <4> QED BY <3>3, JoinedLists
    <3> HIDE DEF kept, fresh, shift, c, policies
    <3> QED BY <2>2, <3>1, <3>2, <3>4 DEF Range, policies
  <2> QED
    BY <1>2, <2>1, <2>2, ProjectionJoins DEF DerivedPolicies
<1>5. /\ FiniteList(c.fieldPolicies)
      /\ \A f \in Range(c.fieldPolicies) :
           /\ DOMAIN f = {"resource", "field", "read", "write", "export", "masked", "rules"}
           /\ RulesShape(f.rules)
  <2> DEFINE fields == b.fieldPolicies
             opened == Opened(fields, grant)
             shift == Past(opened)
  <2>1. PICK more : /\ FiniteList(more)
                    /\ \A i \in DOMAIN more : \E field : more[i] = WriteOnly(grant.resource, field)
                    /\ c.fieldPolicies = Joined(opened, more, shift)
    BY <1>1, <1>2, DerivedFieldsJoin
  <2>2. /\ DOMAIN opened = DOMAIN fields
        /\ \A i \in DOMAIN opened : DOMAIN opened[i] = DOMAIN fields[i] /\ opened[i].rules = fields[i].rules
    BY DEF Opened
  <2>3. FiniteList(opened)
    <3> HIDE DEF opened
    <3> QED BY <1>1, <2>2, KeptDomain
  <2>4. shift \in Nat /\ \A i \in DOMAIN opened : i < shift
    BY <2>3, PastBound
  <2>5. /\ FiniteList(Joined(opened, more, shift))
        /\ \A i \in DOMAIN Joined(opened, more, shift) :
             \/ i \in DOMAIN opened /\ Joined(opened, more, shift)[i] = opened[i]
             \/ \E j \in DOMAIN more : Joined(opened, more, shift)[i] = more[j]
    <3> HIDE DEF opened, shift
    <3> QED BY <2>1, <2>3, <2>4, JoinedLists
  <2>6. \A i \in DOMAIN fields : DOMAIN fields[i] = {"resource", "field", "read", "write", "export", "masked", "rules"} /\ RulesShape(fields[i].rules)
    BY DEF BundleShape, Range
  <2>7. \A j \in DOMAIN more : DOMAIN more[j] = {"resource", "field", "read", "write", "export", "masked", "rules"} /\ RulesShape(more[j].rules)
    <3>1. \A j \in DOMAIN more : DOMAIN more[j] = {"resource", "field", "read", "write", "export", "masked", "rules"} /\ more[j].rules = <<>>
      BY <2>1 DEF WriteOnly
    <3>2. RulesShape(<<>>)
      BY FS_EmptySet DEF RulesShape, FiniteList, Range
    <3> QED BY <3>1, <3>2
  <2> HIDE DEF opened, shift, c, fields
  <2> QED BY <2>1, <2>2, <2>5, <2>6, <2>7 DEF Range
<1> HIDE DEF c
<1> QED
  BY <1>1, <1>2, <1>3, <1>4, <1>5 DEF BundleShape, c

-----------------------------------------------------------------------------
\* TypeOK is inductive: every step rewrites fields the bundle has, and grants
\* name pairs of the instance.
THEOREM TypeCorrect == Spec => []TypeOK
<1>1. Init => TypeOK
  BY RequestAssumption DEF Init, TypeOK, Pair
<1>2. TypeOK /\ [Next]_vars => TypeOK'
  <2> SUFFICES ASSUME TypeOK, [Next]_vars PROVE TypeOK'
    OBVIOUS
  <2>1. ASSUME NEW scopes \in ScopeSet, RestrictAccess(scopes) PROVE TypeOK'
    BY <2>1, RestrictedShape, RequestAssumption DEF TypeOK, RestrictAccess
  <2>2. ASSUME NEW grant \in Grant, DeriveExecutionAccess(grant) PROVE TypeOK'
    <3>1. Target(grant) \in Pair
      BY RequestAssumption DEF Pair
    <3>2. ASSUME grant.source # <<>> PROVE grant.source[1] \in Pair
      <4>1. PICK pair \in Pair : grant.source = <<pair>>
        BY <3>2, RequestAssumption DEF Pair
      <4> QED BY <4>1
    <3>3. origin' \in [Pair -> Pair] /\ admitted' \in [Pair -> BOOLEAN]
      BY <2>2, <3>1, <3>2 DEF DeriveExecutionAccess, TypeOK
    <3> QED
      BY <2>2, <3>3, DerivedShape, RequestAssumption DEF DeriveExecutionAccess, TypeOK
  <2>3. CASE Tick
    BY <2>3, RequestAssumption DEF Tick, TypeOK
  <2>4. CASE UNCHANGED vars
    BY <2>4 DEF vars, TypeOK
  <2> QED
    BY <2>1, <2>2, <2>3, <2>4 DEF Next
<1> QED
  BY <1>1, <1>2, PTL DEF Spec

\* A pair still granted after a restriction is within its scopes.
LEMMA GrantedWithinScopes ==
  ASSUME NEW b, DOMAIN b = BundleFields, NEW scopes, NEW r, NEW a,
         FunctionGranted(Restricted(b, scopes), r, a)
  PROVE  <<r, a>> \in scopes
<1> DEFINE kept == Restricted(b, scopes).functionGrants
<1>1. PICK i \in DOMAIN kept : <<kept[i].resource, kept[i].action>> = <<r, a>> /\ kept[i].effect = "allow"
  <2> HIDE DEF kept
  <2>1. PICK g \in Range(kept) : <<g.resource, g.action>> = <<r, a>> /\ g.effect = "allow"
    BY DEF FunctionGranted, FunctionEffects, kept
  <2> QED BY <2>1 DEF Range
<1>2. kept[i].effect = "deny" \/ <<kept[i].resource, kept[i].action>> \in scopes
  <2>1. kept = Keep(b.functionGrants, LAMBDA g : g.effect = "deny" \/ <<g.resource, g.action>> \in scopes)
    BY RestrictedLists
  <2> HIDE DEF kept
  <2> QED BY <2>1 DEF Keep
<1> HIDE DEF kept
<1> QED
  BY <1>1, <1>2

\* Two bundles a record decision on r and a cannot tell apart.
SameForRecords(b, c, r, a) ==
  /\ FunctionEffects(b, <<r, a>>) = FunctionEffects(c, <<r, a>>)
  /\ PoliciesFor(b, r, a) = PoliciesFor(c, r, a)
  /\ RecordGuardrails(b, r, a) = RecordGuardrails(c, r, a)

\* Within its scopes a restriction changes nothing a record decision reads.
LEMMA UnchangedWithinScopes ==
  ASSUME NEW b, DOMAIN b = BundleFields, NEW scopes, NEW r, NEW a, <<r, a>> \in scopes
  PROVE  SameForRecords(Restricted(b, scopes), b, r, a)
<1> DEFINE grants == b.functionGrants
           policies == b.dataPolicies
           keptGrants == Keep(grants, LAMBDA g : g.effect = "deny" \/ <<g.resource, g.action>> \in scopes)
           keptPolicies == Keep(policies, LAMBDA p : p.effect = "deny" \/ <<p.resource, p.action>> \in scopes)
<1>1. /\ Restricted(b, scopes).functionGrants = keptGrants
      /\ Restricted(b, scopes).dataPolicies = keptPolicies
      /\ Restricted(b, scopes).guardrails = b.guardrails
  BY RestrictedLists
<1> HIDE DEF grants, policies
<1>2. /\ DOMAIN keptGrants = {i \in DOMAIN grants :
                               grants[i].effect = "deny" \/ <<grants[i].resource, grants[i].action>> \in scopes}
      /\ \A i \in DOMAIN keptGrants : keptGrants[i] = grants[i]
  BY DEF Keep
<1>3. {f \in Range(keptGrants) : <<f.resource, f.action>> = <<r, a>>}
        = {f \in Range(grants) : <<f.resource, f.action>> = <<r, a>>}
  <2> HIDE DEF keptGrants
  <2> QED BY <1>2 DEF Range
<1>4. FunctionEffects(Restricted(b, scopes), <<r, a>>) = FunctionEffects(b, <<r, a>>)
  BY <1>1, <1>3 DEF FunctionEffects, grants
<1>5. {i \in DOMAIN keptPolicies : keptPolicies[i].resource = r /\ keptPolicies[i].action = a}
        = {i \in DOMAIN policies : policies[i].resource = r /\ policies[i].action = a}
  BY DEF Keep
<1>6. \A i \in DOMAIN keptPolicies : keptPolicies[i] = policies[i]
  BY DEF Keep
<1>7. PoliciesFor(Restricted(b, scopes), r, a) = PoliciesFor(b, r, a)
  <2>1. PoliciesFor(Restricted(b, scopes), r, a)
          = [i \in {j \in DOMAIN keptPolicies : keptPolicies[j].resource = r /\ keptPolicies[j].action = a}
               |-> keptPolicies[i]]
    BY <1>1 DEF PoliciesFor, Keep
  <2>2. PoliciesFor(b, r, a)
          = [i \in {j \in DOMAIN policies : policies[j].resource = r /\ policies[j].action = a} |-> policies[i]]
    BY DEF PoliciesFor, Keep, policies
  <2> HIDE DEF keptPolicies
  <2> QED BY <1>5, <1>6, <2>1, <2>2
<1>8. RecordGuardrails(Restricted(b, scopes), r, a) = RecordGuardrails(b, r, a)
  BY <1>1 DEF RecordGuardrails
<1> QED
  BY <1>4, <1>7, <1>8 DEF SameForRecords

\* A record decision reads the function effects, the guardrails and the data
\* policies of its pair, and nothing else of the bundle.
LEMMA LayersRead ==
  ASSUME NEW b, NEW c, NEW r, NEW a, NEW facts, NEW ctx, SameForRecords(b, c, r, a),
         Layers(b, r, a, "", facts, ctx).allowed
  PROVE  Layers(c, r, a, "", facts, ctx).allowed
BY DEF Layers, FunctionGranted, SameForRecords, Guarded, WithField

\* What a restricted bundle allows, its source allows, within the scopes.
LEMMA RestrictedAllows ==
  ASSUME NEW b, DOMAIN b = BundleFields, NEW scopes, NEW r, NEW a, NEW facts, NEW ctx,
         Layers(Restricted(b, scopes), r, a, "", facts, ctx).allowed
  PROVE  <<r, a>> \in scopes /\ Layers(b, r, a, "", facts, ctx).allowed
<1>1. FunctionGranted(Restricted(b, scopes), r, a)
  BY LayersAllow
<1>2. <<r, a>> \in scopes
  BY <1>1, GrantedWithinScopes
<1>3. SameForRecords(Restricted(b, scopes), b, r, a)
  BY <1>2, UnchangedWithinScopes
<1>4. Layers(b, r, a, "", facts, ctx).allowed
  BY <1>3, LayersRead
<1> QED
  BY <1>2, <1>4

\* RestrictAccess allows no record that was not allowed, and none outside the
\* scopes, on every bundle that is valid when it is restricted.
THEOREM RestrictionsNarrow == Spec => RestrictionNarrowsRecords
<1> DEFINE Narrows(scopes) ==
      \A pair \in Pair, claims \in BusinessClaims :
        Allowed(bundle', pair, "", claims) \subseteq
          IF pair \in scopes THEN Allowed(bundle, pair, "", claims) ELSE {}
<1>1. ASSUME TypeOK, NEW scopes \in ScopeSet, RestrictAccess(scopes), ValidBundle(bundle, now)
      PROVE  Narrows(scopes)
  <2> SUFFICES ASSUME NEW pair \in Pair, NEW claims \in BusinessClaims,
                      NEW record \in Allowed(bundle', pair, "", claims)
               PROVE  pair \in scopes /\ record \in Allowed(bundle, pair, "", claims)
    OBVIOUS
  <2>1. DOMAIN bundle = BundleFields /\ bundle' = Restricted(bundle, scopes)
    BY <1>1 DEF TypeOK, RestrictAccess, BundleShape
  <2>2. Context(bundle', claims) = Context(bundle, claims)
    BY <2>1, RestrictedLists DEF Context
  <2>3. /\ record \in Record
        /\ Layers(bundle', pair[1], pair[2], "", record, Context(bundle, claims)).allowed
    BY <2>2 DEF Allowed, AllowedRows
  <2>4. /\ <<pair[1], pair[2]>> \in scopes
        /\ Layers(bundle, pair[1], pair[2], "", record, Context(bundle, claims)).allowed
    BY <2>1, <2>3, RestrictedAllows
  <2> QED
    BY <1>1, <2>3, <2>4, PairParts DEF Allowed, AllowedRows
<1>2. TypeOK => [\A scopes \in ScopeSet : RestrictAccess(scopes) /\ ValidBundle(bundle, now) => Narrows(scopes)]_vars
  BY <1>1
<1> QED
  BY <1>2, TypeCorrect, PTL DEF RestrictionNarrowsRecords

-----------------------------------------------------------------------------
(* The record filter against the evaluator *)

\* A row passes a filter that is unrestricted or has an allow true of the row,
\* when no deny is true of it or unknown.
LEMMA FilterTruthMeans ==
  ASSUME NEW filter, NEW row, NEW ctx
  PROVE  FilterTruth(filter, row, ctx) = "true" <=>
           /\ filter.unrestricted \/ \E p \in filter.allow : SQLTruth(p, row, ctx) = "true"
           /\ \A p \in filter.deny : SQLTruth(p, row, ctx) \notin {"true", "unknown"}
<1> DEFINE allows == {SQLTruth(p, row, ctx) : p \in filter.allow}
           denies == {SQLTruth(p, row, ctx) : p \in filter.deny}
           allow == IF filter.unrestricted THEN "true" ELSE SQLOr(allows)
           deny == SQLOr(denies)
<1>1. allow = "true" <=> filter.unrestricted \/ \E p \in filter.allow : SQLTruth(p, row, ctx) = "true"
  BY DEF SQLOr
<1>2. deny = "false" <=> \A p \in filter.deny : SQLTruth(p, row, ctx) \notin {"true", "unknown"}
  BY DEF SQLOr
<1>3. allow \in {"true", "false", "unknown"} /\ deny \in {"true", "false", "unknown"}
  BY DEF SQLOr
<1>4. FilterTruth(filter, row, ctx) = SQLAnd({allow, Negated(deny)})
  BY DEF FilterTruth
<1> HIDE DEF allow, deny
<1>5. SQLAnd({allow, Negated(deny)}) = "true" <=> allow = "true" /\ deny = "false"
  BY <1>3 DEF SQLAnd, Negated
<1> QED
  BY <1>1, <1>2, <1>4, <1>5

\* The predicate of an optional predicate that is there.
Sole(optional) == optional[1]

\* An optional predicate that is there matches as the predicate does.
LEMMA SolePredicate ==
  ASSUME NEW optional, optional # <<>>
  PROVE  /\ \A facts, ctx : Matching(optional, facts, ctx) = EvaluatePredicate(Sole(optional), facts, ctx)
         /\ \A p : optional = <<p>> => Sole(optional) = p
<1>1. \A facts, ctx : Matching(optional, facts, ctx) = EvaluatePredicate(Sole(optional), facts, ctx)
  BY Zenon DEF Matching, Sole
<1>2. \A p : optional = <<p>> => Sole(optional) = p
  BY DEF Sole
<1> QED
  BY <1>1, <1>2

\* The name of nothing, kept folded: the SMT backend stops at an empty string.
Unnamed == ""

\* The filter of a pair that is granted, when each guardrail has a predicate.
Filterable(b, r, a) ==
  /\ FunctionGranted(b, r, a)
  /\ \A g \in Range(FilterGuardrails(b, r, a)) : g.predicate # <<>>

\* Any other filter selects nothing.
LEMMA FilterOfNothing ==
  ASSUME NEW b, NEW r, NEW a, NEW row, NEW ctx, FilterTruth(RecordFilter(b, r, a), row, ctx) = "true"
  PROVE  Filterable(b, r, a)
<1>1. ~Filterable(b, r, a) => RecordFilter(b, r, a) = NoFilter
  BY DEF RecordFilter, Filterable
<1>2. FilterTruth(NoFilter, row, ctx) # "true"
  <2>1. ~NoFilter.unrestricted /\ NoFilter.allow = {}
    BY DEF NoFilter
  <2> HIDE DEF NoFilter
  <2> QED BY <2>1, FilterTruthMeans
<1> QED
  BY <1>1, <1>2

\* The predicates of the filter of a pair.
LEMMA FilterContent ==
  ASSUME NEW b, NEW r, NEW a, Filterable(b, r, a)
  PROVE  /\ RecordFilter(b, r, a).unrestricted <=>
              \E p \in Range(PoliciesFor(b, r, a)) : p.effect = "allow" /\ "all" \in p.scopes
         /\ \A x : x \in RecordFilter(b, r, a).allow <=>
              \E p \in Range(PoliciesFor(b, r, a)) : p.effect = "allow" /\ "all" \notin p.scopes /\ x = p.predicate
         /\ \A x : x \in RecordFilter(b, r, a).deny <=>
              \/ \E g \in Range(FilterGuardrails(b, r, a)) : x = Sole(g.predicate)
              \/ \E p \in Range(PoliciesFor(b, r, a)) : p.effect = "deny" /\ x = p.predicate
<1>1. RecordFilter(b, r, a) =
          [allow |-> {p.predicate : p \in {q \in Range(PoliciesFor(b, r, a)) :
                                             q.effect = "allow" /\ ~(q.effect = "allow" /\ "all" \in q.scopes)}},
           deny |-> {Sole(g.predicate) : g \in Range(FilterGuardrails(b, r, a))}
                      \union {p.predicate : p \in {q \in Range(PoliciesFor(b, r, a)) : q.effect = "deny"}},
           unrestricted |-> \E p \in Range(PoliciesFor(b, r, a)) : p.effect = "allow" /\ "all" \in p.scopes]
  BY Zenon DEF RecordFilter, Filterable, Sole
<1> QED
  BY <1>1

\* What the shape of a bundle says of the entries that concern a pair.
LEMMA ConcernedEntries ==
  ASSUME NEW b, BundleShape(b), NEW r, NEW a
  PROVE  /\ \A g \in Range(FilterGuardrails(b, r, a)) :
              g.predicate = <<>> \/ \E p \in Predicate : g.predicate = <<p>>
         /\ \A i \in DOMAIN RecordGuardrails(b, r, a) :
              RecordGuardrails(b, r, a)[i] \in Range(FilterGuardrails(b, r, a))
         /\ \A i \in DOMAIN PoliciesFor(b, r, a) :
              /\ i \in Nat
              /\ PoliciesFor(b, r, a)[i] \in Range(PoliciesFor(b, r, a))
              /\ PoliciesFor(b, r, a)[i].predicate \in Predicate
              /\ PoliciesFor(b, r, a)[i] \in Range(b.dataPolicies)
<1>1. /\ \A i \in DOMAIN FilterGuardrails(b, r, a) :
           i \in DOMAIN b.guardrails /\ FilterGuardrails(b, r, a)[i] = b.guardrails[i]
      /\ \A i \in DOMAIN RecordGuardrails(b, r, a) :
           i \in DOMAIN FilterGuardrails(b, r, a) /\ RecordGuardrails(b, r, a)[i] = FilterGuardrails(b, r, a)[i]
      /\ \A i \in DOMAIN PoliciesFor(b, r, a) :
           i \in DOMAIN b.dataPolicies /\ PoliciesFor(b, r, a)[i] = b.dataPolicies[i]
  BY DEF FilterGuardrails, RecordGuardrails, PoliciesFor, Keep
<1>2. /\ \A i \in DOMAIN b.guardrails :
           b.guardrails[i].predicate = <<>> \/ \E p \in Predicate : b.guardrails[i].predicate = <<p>>
      /\ \A i \in DOMAIN b.dataPolicies :
           i \in Nat /\ b.dataPolicies[i].predicate \in Predicate /\ b.dataPolicies[i] \in Range(b.dataPolicies)
  BY DEF BundleShape, FiniteList, Range, Optional
<1> QED
  BY <1>1, <1>2 DEF Range

\* A data stage none of whose denies matches allows when some allow matches,
\* unless a policy cannot be evaluated; and then says so.
LEMMA DataVerdictWithoutDenies ==
  ASSUME NEW policies, DOMAIN policies \subseteq Nat, NEW facts, NEW ctx,
         \A i \in DOMAIN policies : policies[i].effect = "deny" => PolicyMatch(policies[i], facts, ctx) = "false",
         \E i \in DOMAIN policies : policies[i].effect = "allow" /\ PolicyMatch(policies[i], facts, ctx) = "true"
  PROVE  \/ DataVerdict(policies, facts, ctx).allowed
         \/ /\ DataVerdict(policies, facts, ctx).code = "data_policy_invalid"
            /\ ~DataVerdict(policies, facts, ctx).allowed
            /\ \E i \in DOMAIN policies : PolicyMatch(policies[i], facts, ctx) = "error"
<1> DEFINE answer == [i \in DOMAIN policies |-> PolicyMatch(policies[i], facts, ctx)]
           decisive == {i \in DOMAIN policies : DataDecisive(policies[i], answer[i])}
<1>1. \A i \in DOMAIN policies : answer[i] = PolicyMatch(policies[i], facts, ctx)
  OBVIOUS
<1>2. DataVerdict(policies, facts, ctx) = VerdictOfAnswers(policies, answer)
  BY DEF DataVerdict
<1> HIDE DEF answer
<1>3. CASE decisive = {}
  BY <1>1, <1>2, <1>3 DEF VerdictOfAnswers, Verdict
<1>4. CASE decisive # {}
  <2>1. Least(decisive) \in decisive
    <3>1. decisive \subseteq Nat
      OBVIOUS
    <3> HIDE DEF decisive
    <3> QED BY <1>4, <3>1, LeastMember
  <2>2. answer[Least(decisive)] = "error" /\ Least(decisive) \in DOMAIN policies
    BY <1>1, <2>1 DEF DataDecisive
  <2> QED
    BY <1>1, <1>2, <1>4, <2>2 DEF VerdictOfAnswers, Verdict
<1> QED
  BY <1>3, <1>4

\* Compiled denies are false of a selected row, so that no deny of the evaluator
\* matches, and some allow is true of it.
LEMMA SelectedIsAllowed ==
  ASSUME NEW b, BundleShape(b), NEW t, ValidBundle(b, t), NEW r, r # Unnamed, NEW a, a # Unnamed, NEW record, NEW ctx,
         FilterCompiles(RecordFilter(b, r, a), ctx),
         FilterTruth(RecordFilter(b, r, a), record, ctx) = "true",
         ~Layers(b, r, a, Unnamed, record, ctx).allowed
  PROVE  /\ Layers(b, r, a, Unnamed, record, ctx).code = "data_policy_invalid"
         /\ RecordFilter(b, r, a).unrestricted
         /\ \E p \in RecordFilter(b, r, a).allow : ~Compiles(p, ctx)
<1> DEFINE filter == RecordFilter(b, r, a)
           guardrails == Range(FilterGuardrails(b, r, a))
           mine == PoliciesFor(b, r, a)
           policies == Range(mine)
<1>1. FilterCompiles(filter, ctx) /\ FilterTruth(filter, record, ctx) = "true"
  OBVIOUS
<1>3. /\ filter.unrestricted \/ \E p \in filter.allow : SQLTruth(p, record, ctx) = "true"
      /\ \A p \in filter.deny : SQLTruth(p, record, ctx) \notin {"true", "unknown"}
  <2> HIDE DEF filter
  <2> QED BY <1>1, FilterTruthMeans
<1>4. Filterable(b, r, a)
  BY <1>1, FilterOfNothing
<1>5. /\ filter.unrestricted <=> \E p \in policies : p.effect = "allow" /\ "all" \in p.scopes
      /\ \A x : x \in filter.allow <=>
           \E p \in policies : p.effect = "allow" /\ "all" \notin p.scopes /\ x = p.predicate
      /\ \A x : x \in filter.deny <=>
           \/ \E g \in guardrails : x = Sole(g.predicate)
           \/ \E p \in policies : p.effect = "deny" /\ x = p.predicate
  BY <1>4, FilterContent
<1>6. /\ \A g \in guardrails : g.predicate # <<>> /\ Sole(g.predicate) \in Predicate
      /\ \A i \in DOMAIN RecordGuardrails(b, r, a) : RecordGuardrails(b, r, a)[i] \in guardrails
      /\ \A i \in DOMAIN mine : /\ i \in Nat /\ mine[i] \in policies
                                /\ mine[i].predicate \in Predicate /\ mine[i] \in Range(b.dataPolicies)
  <2>2. \A g \in guardrails : g.predicate # <<>>
    BY <1>4 DEF Filterable
  <2>3. \A g \in guardrails : g.predicate = <<>> \/ \E p \in Predicate : g.predicate = <<p>>
    BY ConcernedEntries
  <2>4. \A g \in guardrails : g.predicate # <<>> /\ Sole(g.predicate) \in Predicate
    BY <2>2, <2>3, SolePredicate
  <2> QED
    BY <2>4, ConcernedEntries
<1>7. /\ \A p \in filter.deny : Compiles(p, ctx)
      /\ ~filter.unrestricted => \A p \in filter.allow : Compiles(p, ctx)
  <2> HIDE DEF filter
  <2> QED BY <1>1 DEF FilterCompiles
<1> HIDE DEF filter, guardrails, mine, policies
<1>8. \A p \in Predicate : p \in filter.deny => EvaluatePredicate(p, record, ctx) = "false"
  BY <1>3, <1>7, ClauseNeverContradicts
<1>9. \A i \in DOMAIN RecordGuardrails(b, r, a) :
        Matching(RecordGuardrails(b, r, a)[i].predicate, record, ctx) = "false"
  <2>1. \A g \in guardrails : Matching(g.predicate, record, ctx) = "false"
    <3> SUFFICES ASSUME NEW g \in guardrails PROVE Matching(g.predicate, record, ctx) = "false"
      OBVIOUS
    <3>1. Sole(g.predicate) \in Predicate /\ Sole(g.predicate) \in filter.deny
      BY <1>5, <1>6
    <3> QED
      BY <1>6, <1>8, <3>1, SolePredicate
  <2> QED
    BY <1>6, <2>1
<1>10. Layers(b, r, a, Unnamed, record, ctx) = DataVerdict(mine, record, ctx)
  <2>1. "deny" \notin FunctionEffects(b, <<r, a>>) /\ FunctionGranted(b, r, a)
    BY <1>4 DEF Filterable, FunctionGranted
  <2>2. \A i \in DOMAIN GuardrailAnswers(RecordGuardrails(b, r, a), record, ctx) :
          GuardrailAnswers(RecordGuardrails(b, r, a), record, ctx)[i] = "false"
    BY <1>9 DEF GuardrailAnswers
  <2> QED
    BY <2>1, <2>2, Zenon DEF Layers, Guarded, WithField, mine, Unnamed
<1>11. \A i \in DOMAIN mine : mine[i].effect = "deny" => PolicyMatch(mine[i], record, ctx) = "false"
  BY <1>5, <1>6, <1>8 DEF PolicyMatch
<1>12. \E i \in DOMAIN mine : mine[i].effect = "allow" /\ PolicyMatch(mine[i], record, ctx) = "true"
  <2>1. \A p \in policies : \E i \in DOMAIN mine : p = mine[i]
    BY DEF policies, Range
  <2>2. CASE filter.unrestricted
    <3>1. PICK p \in policies : p.effect = "allow" /\ "all" \in p.scopes
      BY <1>5, <2>2
    <3> QED
      BY <2>1, <3>1 DEF PolicyMatch
  <2>3. CASE ~filter.unrestricted
    <3>1. PICK p \in policies : /\ p.effect = "allow" /\ "all" \notin p.scopes
                               /\ p.predicate \in filter.allow /\ SQLTruth(p.predicate, record, ctx) = "true"
      <4>1. PICK x \in filter.allow : SQLTruth(x, record, ctx) = "true"
        BY <1>3, <2>3
      <4>2. PICK p \in policies : p.effect = "allow" /\ "all" \notin p.scopes /\ x = p.predicate
        BY <1>5, <4>1
      <4> QED
        BY <4>1, <4>2
    <3>2. PICK i \in DOMAIN mine : p = mine[i]
      BY <2>1
    <3>3. EvaluatePredicate(p.predicate, record, ctx) = "true"
      BY <1>6, <1>7, <2>3, <3>1, <3>2, ClauseNeverContradicts
    <3> QED
      BY <3>1, <3>2, <3>3 DEF PolicyMatch
  <2> QED
    BY <2>2, <2>3
<1>13. /\ DataVerdict(mine, record, ctx).code = "data_policy_invalid"
       /\ \E i \in DOMAIN mine : PolicyMatch(mine[i], record, ctx) = "error"
  <2>1. DOMAIN mine \subseteq Nat
    BY <1>6
  <2> QED
    BY <1>10, <1>11, <1>12, <2>1, DataVerdictWithoutDenies
<1>14. PICK i \in DOMAIN mine : PolicyMatch(mine[i], record, ctx) = "error"
  BY <1>13
<1>15. mine[i].effect = "allow" /\ "all" \notin mine[i].scopes /\ EvaluatePredicate(mine[i].predicate, record, ctx) = "error"
  <2>1. mine[i].effect \in Effects
    BY <1>6, <1>14 DEF ValidBundle, ValidDataPolicies
  <2> QED
    BY <1>11, <1>14, <2>1 DEF PolicyMatch, Effects
<1>16. mine[i].predicate \in filter.allow /\ ~Compiles(mine[i].predicate, ctx)
  BY <1>5, <1>6, <1>14, <1>15, ClauseNeverContradicts
<1> QED
  BY <1>7, <1>10, <1>13, <1>16 DEF filter

\* SelectedOnlyIfAllowed holds of every bundle of the right shape.
LEMMA SelectedIsAllowedHere ==
  ASSUME BundleShape(bundle)
  PROVE  SelectedOnlyIfAllowed
<1> SUFFICES ASSUME NEW pair \in Pair, NEW claims \in BusinessClaims,
                    NEW record \in Selected(bundle, pair, claims) \ Allowed(bundle, pair, "", claims),
                    NEW ctx, ctx = Context(bundle, claims)
             PROVE  /\ Layers(bundle, pair[1], pair[2], "", record, ctx).code = "data_policy_invalid"
                    /\ RecordFilter(bundle, pair[1], pair[2]).unrestricted
                    /\ \E p \in RecordFilter(bundle, pair[1], pair[2]).allow : ~Compiles(p, ctx)
  BY DEF SelectedOnlyIfAllowed
<1>1. /\ ValidBundle(bundle, now) /\ pair[1] # "" /\ pair[2] # ""
      /\ FilterCompiles(RecordFilter(bundle, pair[1], pair[2]), ctx)
      /\ FilterTruth(RecordFilter(bundle, pair[1], pair[2]), record, ctx) = "true"
      /\ record \in Record
  BY DEF Selected, SelectedRows
<1>2. ~Layers(bundle, pair[1], pair[2], "", record, ctx).allowed
  BY <1>1 DEF Allowed, AllowedRows
<1> QED
  BY <1>1, <1>2, SelectedIsAllowed DEF Unnamed

\* A row the compiled filter of a reachable bundle returns is one the evaluator
\* allows, for every bundle, record, claim and predicate of every instance; the
\* one exception is an allow an unrestricted filter leaves uncompiled.
THEOREM FiltersSelectNothingMore == Spec => []SelectedOnlyIfAllowed
<1>1. TypeOK => SelectedOnlyIfAllowed
  BY SelectedIsAllowedHere DEF TypeOK
<1> QED
  BY <1>1, TypeCorrect, PTL

\* ComparesNull, one level unfolded.
LEMMA ComparesNullEquation ==
  ASSUME NEW p \in Predicate, NEW ctx
  PROVE  ComparesNull(p, ctx) <=>
           \/ p.operator \in {"eq", "neq"} /\ ResolveValue(p.value, ctx).kind = "nil"
           \/ \E q \in Parts(p) : ComparesNull(q, ctx)
<1> DEFINE Body(x, f) ==
             \/ x.operator \in {"eq", "neq"} /\ ResolveValue(x.value, ctx).kind = "nil"
             \/ \E q \in Parts(x) : f[q]
           Fs == [Predicate -> BOOLEAN]
           Step == [x \in Predicate |-> [f \in Fs |-> Body(x, f)]]
           G == CHOOSE f : f = [x \in Predicate |-> Body(x, f)]
<1>1. Step \in [Predicate -> [Fs -> BOOLEAN]]
  OBVIOUS
<1>2. WellDefined(Step, Fs, BOOLEAN)
  BY <1>1 DEF WellDefined, ReadsParts
<1>3. PICK f \in Fs : f = [x \in Predicate |-> Step[x][f]]
  <2> HIDE DEF Step, Fs
  <2> QED BY <1>2, RecursionHasSolution
<1>4. f = [x \in Predicate |-> Body(x, f)]
  BY <1>3
<1>5. G = [x \in Predicate |-> Body(x, G)]
  BY <1>4
<1>6. \A x : ComparesNull(x, ctx) = G[x]
  BY DEF ComparesNull
<1> HIDE DEF G
<1> QED
  BY <1>5, <1>6

\* On a row without absent columns, a clause that compares with no null is never
\* unknown: it says what the evaluator answers.
LEMMA ClauseIsExact ==
  ASSUME NEW row, Columns \subseteq DOMAIN row, Absent \notin Range(row), NEW ctx
  PROVE  \A p \in Predicate : Compiles(p, ctx) /\ ~ComparesNull(p, ctx)
           => SQLTruth(p, row, ctx) = EvaluatePredicate(p, row, ctx)
<1> DEFINE T == {p \in Predicate : Compiles(p, ctx) /\ ~ComparesNull(p, ctx) /\ SQLTruth(p, row, ctx) = "unknown"}
<1>1. SUFFICES ASSUME T # {} PROVE FALSE
  BY ClauseNeverContradicts
<1>2. PICK p \in T : \A q \in Parts(p) : q \notin T
  <2>1. T \subseteq Predicate
    OBVIOUS
  <2> HIDE DEF T
  <2> QED BY <1>1, <2>1, MinimalPredicate
<1>3. p \in Predicate /\ Compiles(p, ctx) /\ ~ComparesNull(p, ctx) /\ SQLTruth(p, row, ctx) = "unknown"
  BY <1>2
<1>4. /\ ValidPredicate[p]
      /\ \A q \in Parts(p) : Compiles(q, ctx)
      /\ HasLeaf(p) => LeafCompiles(p, ctx)
  BY <1>3, CompilesEquation
<1>5. /\ ~(p.operator \in {"eq", "neq"} /\ ResolveValue(p.value, ctx).kind = "nil")
      /\ \A q \in Parts(p) : ~ComparesNull(q, ctx)
  BY <1>3, ComparesNullEquation
<1>6. \A q \in Parts(p) : SQLTruth(q, row, ctx) # "unknown" /\ SQLTruth(q, row, ctx) \in {"true", "false", "unknown"}
  BY <1>2, <1>3, <1>4, <1>5, PartsArePredicates, ClauseNeverContradicts
<1>7. \A list \in {p.all, p.any, p.not} : \A i \in DOMAIN list :
        SQLTruth(list[i], row, ctx) \in {"true", "false"}
  BY <1>3, <1>6, PartsArePredicates
<1>8. SQLTruth(p, row, ctx) = Clause(p, row, ctx)
  BY <1>3, ClauseEquation
<1>9. ASSUME p.all # <<>> PROVE FALSE
  <2> DEFINE truths == {SQLTruth(p.all[i], row, ctx) : i \in DOMAIN p.all}
  <2>1. SQLTruth(p, row, ctx) = SQLAnd(truths)
    BY <1>8, <1>9 DEF Clause
  <2>2. "unknown" \notin truths
    BY <1>7
  <2> QED
    BY <1>3, <2>1, <2>2 DEF SQLAnd
<1>10. ASSUME p.all = <<>>, p.any # <<>> PROVE FALSE
  <2> DEFINE truths == {SQLTruth(p.any[i], row, ctx) : i \in DOMAIN p.any}
  <2>1. SQLTruth(p, row, ctx) = SQLOr(truths)
    BY <1>8, <1>10 DEF Clause
  <2>2. "unknown" \notin truths
    BY <1>7
  <2> QED
    BY <1>3, <2>1, <2>2 DEF SQLOr
<1>11. ASSUME p.all = <<>>, p.any = <<>>, p.not # <<>> PROVE FALSE
  <2>1. SQLTruth(p, row, ctx) = Negated(SQLTruth(p.not[1], row, ctx))
    BY <1>8, <1>11 DEF Clause
  <2>2. SQLTruth(p.not[1], row, ctx) \in {"true", "false"}
    <3>1. 1 \in DOMAIN p.not
      BY <1>3, <1>11, PartsArePredicates
    <3> QED BY <1>7, <3>1
  <2> QED
    BY <1>3, <2>1, <2>2 DEF Negated
<1>12. ASSUME p.all = <<>>, p.any = <<>>, p.not = <<>> PROVE FALSE
  <2>1. SQLTruth(p, row, ctx) = SQLLeaf(p, row, ctx)
    BY <1>8, <1>12 DEF Clause
  <2>2. LeafCompiles(p, ctx) /\ p.operator \in Operators
    BY <1>3, <1>4, <1>12, LeafIsWellFormed
  <2> DEFINE expected == ResolveValue(p.value, ctx)
             actual == row[p.fact]
  <2>3. /\ ValidPredicate[p] /\ ValueFits(p.operator, expected) /\ actual # Absent
        /\ ~(p.operator \in {"eq", "neq"} /\ expected.kind = "nil")
    BY <1>4, <1>5, <2>2 DEF LeafCompiles, Range
  <2> HIDE DEF expected, actual
  <2>4. SQLComparison(p.operator, actual, expected) # "unknown"
    BY <2>2, <2>3 DEF SQLComparison, ValueFits, Truth, Operators, IsScalar, Booleans
  <2> QED
    BY <1>3, <2>1, <2>4 DEF SQLLeaf, expected, actual
<1> QED
  BY <1>9, <1>10, <1>11, <1>12

\* What the evaluator allows of complete records, a filter without nulls selects,
\* unless a guardrail of a field matches.
LEMMA AllowedIsSelected ==
  ASSUME NEW b, BundleShape(b), NEW r, NEW a, NEW record, NEW ctx,
         Columns \subseteq DOMAIN record, Absent \notin Range(record),
         FilterCompiles(RecordFilter(b, r, a), ctx),
         \A p \in RecordFilter(b, r, a).allow \union RecordFilter(b, r, a).deny : ~ComparesNull(p, ctx),
         Layers(b, r, a, Unnamed, record, ctx).allowed,
         \A g \in Range(FilterGuardrails(b, r, a)) : g.field # Unnamed => Matching(g.predicate, record, ctx) # "true"
  PROVE  FilterTruth(RecordFilter(b, r, a), record, ctx) = "true"
<1> DEFINE filter == RecordFilter(b, r, a)
           guardrails == Range(FilterGuardrails(b, r, a))
           mine == PoliciesFor(b, r, a)
           policies == Range(mine)
<1>1. /\ FunctionGranted(b, r, a)
      /\ NoGuardrailHits(b, r, a, record, ctx)
      /\ DataVerdict(mine, record, ctx).allowed
  BY LayersAllow
<1>2. \A g \in guardrails : Matching(g.predicate, record, ctx) # "true"
  <2> SUFFICES ASSUME NEW g \in guardrails, g.field = Unnamed PROVE Matching(g.predicate, record, ctx) # "true"
    OBVIOUS
  <2>1. PICK i \in DOMAIN b.guardrails :
          /\ g = b.guardrails[i]
          /\ MatchesOrBlank(b.guardrails[i].resource, r) /\ MatchesOrBlank(b.guardrails[i].action, a)
    BY DEF FilterGuardrails, Keep, Range
  <2>2. Matching(g.predicate, record, ctx) = "false"
    BY Zenon, <1>1, <2>1 DEF NoGuardrailHits, Unnamed
  <2> QED
    BY <2>2
<1>3. \A g \in guardrails : g.predicate # <<>> /\ Sole(g.predicate) \in Predicate
  <2> SUFFICES ASSUME NEW g \in guardrails PROVE g.predicate # <<>> /\ Sole(g.predicate) \in Predicate
    OBVIOUS
  <2>1. g.predicate # <<>>
    <3>1. Matching(<<>>, record, ctx) = "true"
      BY Zenon DEF Matching
    <3> QED BY <1>2, <3>1
  <2>2. PICK p \in Predicate : g.predicate = <<p>>
    BY <2>1, ConcernedEntries
  <2>3. Sole(g.predicate) = p
    BY <2>2 DEF Sole
  <2> QED
    BY <2>1, <2>3
<1>4. Filterable(b, r, a)
  BY <1>1, <1>3 DEF Filterable
<1>5. /\ filter.unrestricted <=> \E p \in policies : p.effect = "allow" /\ "all" \in p.scopes
      /\ \A x : x \in filter.allow <=>
           \E p \in policies : p.effect = "allow" /\ "all" \notin p.scopes /\ x = p.predicate
      /\ \A x : x \in filter.deny <=>
           \/ \E g \in guardrails : x = Sole(g.predicate)
           \/ \E p \in policies : p.effect = "deny" /\ x = p.predicate
  BY <1>4, FilterContent
<1>6. /\ \A p \in filter.deny : Compiles(p, ctx) /\ ~ComparesNull(p, ctx)
      /\ \A p \in filter.allow : ~ComparesNull(p, ctx)
      /\ ~filter.unrestricted => \A p \in filter.allow : Compiles(p, ctx)
  <2>1. FilterCompiles(filter, ctx) /\ \A p \in filter.allow \union filter.deny : ~ComparesNull(p, ctx)
    OBVIOUS
  <2> HIDE DEF filter
  <2> QED BY <2>1 DEF FilterCompiles
<1>7. \A i \in DOMAIN mine : mine[i] \in policies /\ mine[i].predicate \in Predicate
  BY ConcernedEntries
<1>8. /\ \A i \in DOMAIN mine : mine[i].effect = "deny" => PolicyMatch(mine[i], record, ctx) \notin {"true", "error"}
      /\ \E i \in DOMAIN mine : mine[i].effect = "allow" /\ PolicyMatch(mine[i], record, ctx) = "true"
  BY <1>1, DataVerdictAllows
<1>9. \A p \in policies : \E i \in DOMAIN mine : p = mine[i]
  BY DEF Range
<1> HIDE DEF filter, guardrails, mine, policies
<1>10. \A x \in filter.deny : SQLTruth(x, record, ctx) \notin {"true", "unknown"}
  <2> SUFFICES ASSUME NEW x \in filter.deny PROVE SQLTruth(x, record, ctx) \notin {"true", "unknown"}
    OBVIOUS
  <2>1. x \in Predicate /\ EvaluatePredicate(x, record, ctx) # "true"
    <3>1. CASE \E g \in guardrails : x = Sole(g.predicate)
      BY <1>2, <1>3, <3>1, SolePredicate
    <3>2. CASE \E p \in policies : p.effect = "deny" /\ x = p.predicate
      <4>1. PICK i \in DOMAIN mine : mine[i].effect = "deny" /\ x = mine[i].predicate
        BY <1>9, <3>2
      <4> QED
        BY <1>7, <1>8, <4>1 DEF PolicyMatch
    <3> QED
      BY <1>5, <3>1, <3>2
  <2> QED
    BY <1>6, <2>1, ClauseNeverContradicts, ClauseIsExact
<1>11. filter.unrestricted \/ \E x \in filter.allow : SQLTruth(x, record, ctx) = "true"
  <2> SUFFICES ASSUME ~filter.unrestricted PROVE \E x \in filter.allow : SQLTruth(x, record, ctx) = "true"
    OBVIOUS
  <2>1. PICK i \in DOMAIN mine : mine[i].effect = "allow" /\ PolicyMatch(mine[i], record, ctx) = "true"
    BY <1>8
  <2>2. "all" \notin mine[i].scopes /\ mine[i].predicate \in filter.allow
    BY <1>5, <1>7, <2>1
  <2>3. EvaluatePredicate(mine[i].predicate, record, ctx) = "true"
    BY <2>1, <2>2 DEF PolicyMatch
  <2> QED
    BY <1>6, <1>7, <2>2, <2>3, ClauseIsExact
<1> QED
  BY <1>10, <1>11, FilterTruthMeans DEF filter

\* ExactOnCompleteRecords holds of every bundle of the right shape.
LEMMA ExactHere ==
  ASSUME BundleShape(bundle)
  PROVE  ExactOnCompleteRecords
<1> SUFFICES ASSUME NEW pair \in Pair, NEW claims \in BusinessClaims, NEW ctx, ctx = Context(bundle, claims),
                    FilterCompiles(RecordFilter(bundle, pair[1], pair[2]), ctx),
                    \A p \in RecordFilter(bundle, pair[1], pair[2]).allow
                             \union RecordFilter(bundle, pair[1], pair[2]).deny : ~ComparesNull(p, ctx),
                    NEW record \in (Allowed(bundle, pair, Unnamed, claims) \intersect Complete)
                                     \ Selected(bundle, pair, claims),
                    \A g \in Range(FilterGuardrails(bundle, pair[1], pair[2])) :
                      g.field # Unnamed => Matching(g.predicate, record, ctx) # "true"
             PROVE  FALSE
  BY Zenon DEF ExactOnCompleteRecords, Unnamed
<1>1. /\ ValidBundle(bundle, now) /\ record \in Record
      /\ Layers(bundle, pair[1], pair[2], Unnamed, record, ctx).allowed
  BY DEF Allowed, AllowedRows
<1>2. Columns \subseteq DOMAIN record /\ Absent \notin Range(record)
  BY <1>1, RequestAssumption DEF Complete
<1>3. FilterTruth(RecordFilter(bundle, pair[1], pair[2]), record, ctx) = "true"
  BY <1>1, <1>2, AllowedIsSelected
<1>4. pair[1] # "" /\ pair[2] # ""
  BY <1>1, LayersAllow
<1>5. record \in Selected(bundle, pair, claims)
  BY <1>1, <1>3, <1>4, Zenon DEF Selected, SelectedRows
<1> QED
  BY <1>5

\* On records without absent facts a compiled filter loses nothing the evaluator
\* allows, but what a guardrail of one field hides and what is compared with null.
THEOREM FiltersSelectAllOfCompleteRecords == Spec => []ExactOnCompleteRecords
<1>1. TypeOK => ExactOnCompleteRecords
  BY ExactHere DEF TypeOK
<1> QED
  BY <1>1, TypeCorrect, PTL

-----------------------------------------------------------------------------
(* The effect on a field *)

\* The positions of the candidates that no other outranks.
BestPositions(candidates, r, f) ==
  {i \in DOMAIN candidates : \A q \in Range(candidates) : Score(q, r, f) <= Score(candidates[i], r, f)}

\* Some candidate is best, and BestPolicy is the first of them.
LEMMA BestIsFirst ==
  ASSUME NEW candidates, DOMAIN candidates \subseteq Nat, DOMAIN candidates # {}, NEW r, NEW f
  PROVE  /\ BestPolicy(candidates, r, f) = candidates[Least(BestPositions(candidates, r, f))]
         /\ Least(BestPositions(candidates, r, f)) \in BestPositions(candidates, r, f)
         /\ \A i \in BestPositions(candidates, r, f) : Least(BestPositions(candidates, r, f)) <= i
<1> DEFINE score(i) == Score(candidates[i], r, f)
           gaps == {3 - score(i) : i \in DOMAIN candidates}
           best == BestPositions(candidates, r, f)
<1>1. \A i \in DOMAIN candidates : score(i) \in Nat /\ 3 - score(i) \in Nat
  BY DEF Score
<1>2. best # {}
  <2>1. gaps \subseteq Nat /\ gaps # {}
    <3> HIDE DEF score
    <3> QED BY <1>1
  <2>2. PICK gap \in gaps : \A other \in gaps : gap <= other
    <3> HIDE DEF gaps
    <3> QED BY <2>1, LeastMember
  <2>3. PICK i \in DOMAIN candidates : gap = 3 - score(i)
    BY <2>2
  <2>4. \A j \in DOMAIN candidates : score(j) <= score(i)
    <3> SUFFICES ASSUME NEW j \in DOMAIN candidates PROVE score(j) <= score(i)
      OBVIOUS
    <3>1. 3 - score(i) <= 3 - score(j)
      BY <2>2, <2>3
    <3> HIDE DEF score
    <3> QED BY <1>1, <3>1
  <2>5. i \in best
    BY <2>4 DEF BestPositions, Range
  <2> QED
    BY <2>5
<1>3. best \subseteq Nat
  BY DEF BestPositions
<1>4. Least(best) \in best /\ \A i \in best : Least(best) <= i
  <2> HIDE DEF best
  <2> QED BY <1>2, <1>3, LeastMember
<1>5. BestPolicy(candidates, r, f) = candidates[Least(best)]
  BY DEF BestPolicy, First, BestPositions
<1> QED
  BY <1>4, <1>5

\* The candidates of a field are entries of the bundle, at their positions.
LEMMA CandidateEntries ==
  ASSUME NEW b, BundleShape(b), NEW r, NEW f
  PROVE  /\ DOMAIN FieldCandidates(b, r, f) \subseteq Nat
         /\ \A i : i \in DOMAIN FieldCandidates(b, r, f) <=>
              /\ i \in DOMAIN b.fieldPolicies
              /\ Matches(b.fieldPolicies[i].resource, r) /\ Matches(b.fieldPolicies[i].field, f)
         /\ \A i \in DOMAIN FieldCandidates(b, r, f) : FieldCandidates(b, r, f)[i] = b.fieldPolicies[i]
<1>1. /\ DOMAIN FieldCandidates(b, r, f) = {i \in DOMAIN b.fieldPolicies :
           Matches(b.fieldPolicies[i].resource, r) /\ Matches(b.fieldPolicies[i].field, f)}
      /\ \A i \in DOMAIN FieldCandidates(b, r, f) : FieldCandidates(b, r, f)[i] = b.fieldPolicies[i]
  BY DEF FieldCandidates, Keep
<1>2. DOMAIN b.fieldPolicies \subseteq Nat
  BY DEF BundleShape, FiniteList
<1> QED
  BY <1>1, <1>2

\* Without guardrails and rules the effect is the static envelope of the best
\* candidate, or hide where there is none.
StaticEffect(b, r, f, a) ==
  IF DOMAIN FieldCandidates(b, r, f) = {} THEN "hide"
  ELSE BaselineField(BestPolicy(FieldCandidates(b, r, f), r, f), a)

\* A field that needs no policy evaluation has the effect of its best policy.
LEMMA EffectIsStatic ==
  ASSUME NEW b, BundleShape(b), NEW r, NEW f, NEW a, ~FieldRequiresPolicyEvaluation(b, r, f, a), NEW facts, NEW ctx
  PROVE  EvaluateField(b, r, f, a, facts, ctx) = StaticEffect(b, r, f, a)
<1> DEFINE candidates == FieldCandidates(b, r, f)
           best == BestPolicy(candidates, r, f)
<1>1. /\ r # "" /\ f # "" /\ a # ""
      /\ DOMAIN FieldGuardrails(b, r, f, a) = {}
      /\ \A p \in Range(candidates) : DOMAIN ActionRules(p.rules, a) = {}
  BY DEF FieldRequiresPolicyEvaluation
<1>2. ASSUME DOMAIN candidates # {} PROVE RuleEffect(best, a, facts, ctx) = BaselineField(best, a)
  <2>1. DOMAIN candidates \subseteq Nat
    BY CandidateEntries
  <2>2. best \in Range(candidates)
    <3> HIDE DEF candidates
    <3> QED BY <1>2, <2>1, BestIsFirst DEF BestPositions, Range
  <2>3. DOMAIN ActionRules(best.rules, a) = {}
    BY <1>1, <2>2
  <2> HIDE DEF best
  <2> QED
    BY <2>3 DEF RuleEffect, EffectOfAnswers
<1>3. DOMAIN GuardrailAnswers(FieldGuardrails(b, r, f, a), facts, ctx) = {}
  BY <1>1 DEF GuardrailAnswers
<1> QED
  BY <1>1, <1>2, <1>3, Zenon DEF EvaluateField, Guarded, StaticEffect

\* A field whose static envelope opens reading is among the readable fields.
LEMMA StaticallyReadable ==
  ASSUME NEW b, BundleShape(b), NEW r, NEW f, StaticEffect(b, r, f, "read") # "hide"
  PROVE  ReadableFields(b, r) \intersect {f, "*"} # {}
<1> DEFINE candidates == FieldCandidates(b, r, f)
<1>1. DOMAIN candidates # {} /\ BaselineField(BestPolicy(candidates, r, f), "read") # "hide"
  BY DEF StaticEffect
<1>2. DOMAIN candidates \subseteq Nat
  BY CandidateEntries
<1>3. PICK i \in DOMAIN candidates : BestPolicy(candidates, r, f) = candidates[i]
  <2> HIDE DEF candidates
  <2> QED BY <1>1, <1>2, BestIsFirst DEF BestPositions
<1>4. /\ i \in DOMAIN b.fieldPolicies /\ candidates[i] = b.fieldPolicies[i]
      /\ Matches(b.fieldPolicies[i].resource, r) /\ Matches(b.fieldPolicies[i].field, f)
  BY CandidateEntries
<1>5. b.fieldPolicies[i].read
  BY <1>1, <1>3, <1>4 DEF BaselineField, ReadActions
<1> DEFINE open == Keep(b.fieldPolicies, LAMBDA q : Matches(q.resource, r) /\ q.read)
<1>6. i \in DOMAIN open /\ open[i] = b.fieldPolicies[i]
  BY <1>4, <1>5 DEF Keep
<1>7. b.fieldPolicies[i].field \in {p.field : p \in Range(open)}
  <2> HIDE DEF open
  <2> QED BY <1>6 DEF Range
<1>8. b.fieldPolicies[i].field \in ReadableFields(b, r)
  BY <1>7 DEF ReadableFields, FieldsWith
<1> QED
  BY <1>4, <1>8 DEF Matches

\* StaticFieldIsStatic holds of every bundle of the right shape.
LEMMA StaticHere ==
  ASSUME BundleShape(bundle)
  PROVE  StaticFieldIsStatic
<1> SUFFICES ASSUME NEW pair \in Pair, NEW field \in Field,
                    ~FieldRequiresPolicyEvaluation(bundle, pair[1], field, pair[2]),
                    NEW r1 \in Record, NEW r2 \in Record, NEW claims \in BusinessClaims
             PROVE  /\ FieldEffect(bundle, pair, field, r1, claims) = FieldEffect(bundle, pair, field, r2, claims)
                    /\ pair[2] = "read" /\ FieldEffect(bundle, pair, field, r1, claims) # "hide"
                         => ReadableFields(bundle, pair[1]) \intersect {field, "*"} # {}
  BY DEF StaticFieldIsStatic
<1>1. \A record : FieldEffect(bundle, pair, field, record, claims) = StaticEffect(bundle, pair[1], field, pair[2])
  BY EffectIsStatic DEF FieldEffect
<1> QED
  BY <1>1, StaticallyReadable

\* What FieldRequiresPolicyEvaluation clears for pushing down has one effect for
\* every record and claim, and a readable such field is listed.
THEOREM ClearedFieldsAreStatic == Spec => []StaticFieldIsStatic
<1>1. TypeOK => StaticFieldIsStatic
  BY StaticHere DEF TypeOK
<1> QED
  BY <1>1, TypeCorrect, PTL

-----------------------------------------------------------------------------
(* What a derivation leaves alone *)

PairOf(p) == <<p.resource, p.action>>

\* The policies of a derived bundle: those kept, where they were, and projections
\* of the source's, each of them unless its key is taken by a policy kept.
LEMMA DerivedEntries ==
  ASSUME NEW b, BundleShape(b), NEW grant, grant.source # <<>>, grant.source # <<Target(grant)>>
  PROVE  /\ \A i \in DOMAIN b.dataPolicies :
              ~(PairOf(b.dataPolicies[i]) = Target(grant) /\ b.dataPolicies[i].effect = "allow") =>
                /\ i \in DOMAIN Derived(b, grant).dataPolicies
                /\ Derived(b, grant).dataPolicies[i] = b.dataPolicies[i]
         /\ \A i \in DOMAIN Derived(b, grant).dataPolicies :
              \/ /\ i \in DOMAIN b.dataPolicies
                 /\ Derived(b, grant).dataPolicies[i] = b.dataPolicies[i]
                 /\ ~(PairOf(b.dataPolicies[i]) = Target(grant) /\ b.dataPolicies[i].effect = "allow")
              \/ \E j \in DOMAIN b.dataPolicies :
                   /\ PairOf(b.dataPolicies[j]) = grant.source[1]
                   /\ Derived(b, grant).dataPolicies[i] = Projection(b.dataPolicies[j], grant)
         /\ \A j \in DOMAIN b.dataPolicies : PairOf(b.dataPolicies[j]) = grant.source[1] =>
              \E i \in DOMAIN Derived(b, grant).dataPolicies :
                \/ Derived(b, grant).dataPolicies[i] = Projection(b.dataPolicies[j], grant)
                \/ /\ i \in DOMAIN b.dataPolicies
                   /\ Derived(b, grant).dataPolicies[i] = b.dataPolicies[i]
                   /\ Derived(b, grant).dataPolicies[i].key = Projection(b.dataPolicies[j], grant).key
                   /\ ~(PairOf(b.dataPolicies[i]) = Target(grant) /\ b.dataPolicies[i].effect = "allow")
<1> DEFINE P == b.dataPolicies
           Q == Derived(b, grant).dataPolicies
           kept == KeptPolicies(P, grant)
           fresh == FreshPolicies(P, grant)
           shift == Past(P)
           Dropped(i) == PairOf(P[i]) = Target(grant) /\ P[i].effect = "allow"
<1>1. Q = Joined(kept, fresh, shift)
  <2>1. Q = DerivedPolicies(b, grant)
    BY DEF BundleShape, BundleFields, Derived
  <2> QED
    BY <2>1, ProjectionJoins DEF DerivedPolicies
<1>2. /\ DOMAIN kept = {i \in DOMAIN P : ~Dropped(i)}
      /\ \A i \in DOMAIN kept : kept[i] = P[i]
  BY DEF KeptPolicies, Keep, PairOf
<1>3. /\ DOMAIN fresh = ProjectedPositions(P, grant)
      /\ \A j \in DOMAIN fresh : fresh[j] = Projection(P[j], grant)
  BY DEF FreshPolicies
<1>4. /\ DOMAIN fresh \subseteq DOMAIN P
      /\ \A j \in DOMAIN fresh : PairOf(P[j]) = grant.source[1]
      /\ \A j \in DOMAIN P : PairOf(P[j]) = grant.source[1] /\ j \notin DOMAIN fresh =>
           \E i \in DOMAIN kept : kept[i].key = Projection(P[j], grant).key
  <2> HIDE DEF fresh
  <2> QED BY <1>3 DEF ProjectedPositions, PairOf, Range
<1>5. /\ FiniteList(kept) /\ FiniteList(fresh) /\ shift \in Nat
      /\ \A i \in DOMAIN kept : i < shift
  <2>1. FiniteList(P)
    BY DEF BundleShape
  <2>2. DOMAIN kept \subseteq DOMAIN P
    BY <1>2
  <2> HIDE DEF kept, fresh, P
  <2> QED BY <1>4, <2>1, <2>2, KeptDomain, PastBound
<1> HIDE DEF kept, fresh, shift, Q, P, Dropped
<1>6. /\ \A i \in DOMAIN kept : i \in DOMAIN Q /\ Q[i] = kept[i]
      /\ \A j \in DOMAIN fresh : shift + j \in DOMAIN Q /\ Q[shift + j] = fresh[j]
      /\ \A i \in DOMAIN Q : i \in DOMAIN kept \/ \E j \in DOMAIN fresh : i = shift + j
  BY <1>1, <1>5, JoinedLists
<1>7. \A i \in DOMAIN P : ~Dropped(i) => i \in DOMAIN Q /\ Q[i] = P[i]
  BY <1>2, <1>6
<1>8. \A i \in DOMAIN Q :
        \/ i \in DOMAIN P /\ Q[i] = P[i] /\ ~Dropped(i)
        \/ \E j \in DOMAIN P : PairOf(P[j]) = grant.source[1] /\ Q[i] = Projection(P[j], grant)
  <2> SUFFICES ASSUME NEW i \in DOMAIN Q, i \notin DOMAIN kept
               PROVE  \E j \in DOMAIN P : PairOf(P[j]) = grant.source[1] /\ Q[i] = Projection(P[j], grant)
    BY <1>2, <1>6
  <2>1. PICK j \in DOMAIN fresh : i = shift + j
    BY <1>6
  <2> QED
    BY <1>3, <1>4, <1>6, <2>1
<1>9. \A j \in DOMAIN P : PairOf(P[j]) = grant.source[1] =>
        \E i \in DOMAIN Q :
          \/ Q[i] = Projection(P[j], grant)
          \/ i \in DOMAIN P /\ Q[i] = P[i] /\ Q[i].key = Projection(P[j], grant).key /\ ~Dropped(i)
  <2> SUFFICES ASSUME NEW j \in DOMAIN P, PairOf(P[j]) = grant.source[1]
               PROVE  \E i \in DOMAIN Q :
                        \/ Q[i] = Projection(P[j], grant)
                        \/ /\ i \in DOMAIN P /\ Q[i] = P[i] /\ ~Dropped(i)
                           /\ Q[i].key = Projection(P[j], grant).key
    OBVIOUS
  <2>1. CASE j \in DOMAIN fresh
    BY <1>3, <1>6, <2>1
  <2>2. CASE j \notin DOMAIN fresh
    <3>1. PICK i \in DOMAIN kept : kept[i].key = Projection(P[j], grant).key
      BY <1>4, <2>2
    <3> QED
      BY <1>2, <1>6, <3>1
  <2> QED
    BY <2>1, <2>2
<1> QED
  BY <1>7, <1>8, <1>9 DEF P, Q, Dropped

\* A derivation changes nothing a record decision on another pair reads.
LEMMA DerivedOtherPairs ==
  ASSUME NEW b, BundleShape(b), NEW grant, NEW r, NEW a, <<r, a>> # Target(grant)
  PROVE  SameForRecords(Derived(b, grant), b, r, a)
<1> DEFINE c == Derived(b, grant)
<1>1. /\ c.functionGrants = DerivedGrants(b, grant)
      /\ c.dataPolicies = DerivedPolicies(b, grant)
      /\ c.guardrails = b.guardrails
  BY DEF Derived, BundleShape, BundleFields
<1>2. FunctionEffects(c, <<r, a>>) = FunctionEffects(b, <<r, a>>)
  <2> DEFINE list == b.functionGrants
             entry == [resource |-> grant.resource, action |-> grant.action, effect |-> "allow"]
  <2>1. CASE c.functionGrants = list
    BY <2>1 DEF FunctionEffects
  <2>2. CASE c.functionGrants = Appended(list, entry)
    <3>1. \A i \in DOMAIN list : i # Past(list)
      <4>1. FiniteList(list)
        BY DEF BundleShape
      <4>2. Past(list) \in Nat /\ \A i \in DOMAIN list : i < Past(list)
        BY <4>1, PastBound
      <4> QED BY <4>1, <4>2 DEF FiniteList
    <3>2. Range(c.functionGrants) = Range(list) \union {entry}
      <4> HIDE DEF entry, list, c
      <4> QED BY <2>2, <3>1 DEF Appended, Range
    <3>3. <<entry.resource, entry.action>> # <<r, a>>
      BY DEF Target
    <3>4. {g \in Range(c.functionGrants) : <<g.resource, g.action>> = <<r, a>>}
            = {g \in Range(list) : <<g.resource, g.action>> = <<r, a>>}
      <4> HIDE DEF entry, list, c
      <4> QED BY <3>2, <3>3
    <3> QED
      BY <3>4 DEF FunctionEffects
  <2> QED
    BY <1>1, <2>1, <2>2 DEF DerivedGrants
<1>3. PoliciesFor(c, r, a) = PoliciesFor(b, r, a)
  <2> DEFINE P == b.dataPolicies
             Q == c.dataPolicies
  <2>1. CASE Q = P
    BY <2>1 DEF PoliciesFor
  <2>2. CASE grant.source # <<>> /\ grant.source # <<Target(grant)>>
    <3>1. \A i \in DOMAIN P : PairOf(P[i]) # Target(grant) => i \in DOMAIN Q /\ Q[i] = P[i]
      BY <2>2, DerivedEntries
    <3>2. \A i \in DOMAIN Q : PairOf(Q[i]) # Target(grant) => i \in DOMAIN P /\ Q[i] = P[i]
      <4> SUFFICES ASSUME NEW i \in DOMAIN Q, NEW j \in DOMAIN P, Q[i] = Projection(P[j], grant)
                   PROVE  PairOf(Q[i]) = Target(grant)
        BY <2>2, DerivedEntries
      <4>1. DOMAIN P[j] = {"key", "resource", "action", "effect", "scopes", "predicate", "audit"}
        BY DEF BundleShape, Range
      <4>2. Q[i].resource = grant.resource /\ Q[i].action = grant.action
        <5> HIDE DEF P, Q
        <5> QED BY <4>1, ProjectionContent
      <4> QED
        BY <4>2 DEF PairOf, Target
    <3> HIDE DEF P, Q
    <3>3. {i \in DOMAIN Q : Q[i].resource = r /\ Q[i].action = a} = {i \in DOMAIN P : P[i].resource = r /\ P[i].action = a}
      BY <3>1, <3>2 DEF PairOf
    <3>4. /\ PoliciesFor(c, r, a) = [i \in {j \in DOMAIN Q : Q[j].resource = r /\ Q[j].action = a} |-> Q[i]]
          /\ PoliciesFor(b, r, a) = [i \in {j \in DOMAIN P : P[j].resource = r /\ P[j].action = a} |-> P[i]]
      BY DEF PoliciesFor, Keep, P, Q
    <3>5. \A i \in {j \in DOMAIN P : P[j].resource = r /\ P[j].action = a} : Q[i] = P[i]
      BY <3>1 DEF PairOf
    <3> QED
      BY <3>3, <3>4, <3>5
  <2> QED
    BY <1>1, <2>1, <2>2 DEF DerivedPolicies
<1>4. RecordGuardrails(c, r, a) = RecordGuardrails(b, r, a)
  BY <1>1 DEF RecordGuardrails
<1> QED
  BY <1>2, <1>3, <1>4 DEF SameForRecords

\* The field policies of a derived bundle: those of its source where they were,
\* changed in their write access alone, and behind them policies for writes.
LEMMA DerivedFieldEntries ==
  ASSUME NEW b, BundleShape(b), NEW grant, IsFiniteSet(grant.fields)
  PROVE  /\ \A i \in DOMAIN b.fieldPolicies :
              /\ i \in DOMAIN Derived(b, grant).fieldPolicies
              /\ \A part \in {"resource", "field", "read", "export", "masked", "rules"} :
                   Derived(b, grant).fieldPolicies[i][part] = b.fieldPolicies[i][part]
         /\ \A i \in DOMAIN Derived(b, grant).fieldPolicies : i \notin DOMAIN b.fieldPolicies =>
              \E field : Derived(b, grant).fieldPolicies[i] = WriteOnly(grant.resource, field)
<1> DEFINE fields == b.fieldPolicies
           opened == Opened(fields, grant)
           shift == Past(opened)
           new == Derived(b, grant).fieldPolicies
<1>1. PICK more : /\ FiniteList(more)
                  /\ \A i \in DOMAIN more : \E field : more[i] = WriteOnly(grant.resource, field)
                  /\ new = Joined(opened, more, shift)
  <2>1. new = DerivedFields(b, grant) /\ FiniteList(b.fieldPolicies)
    BY DEF BundleShape, BundleFields, Derived
  <2> QED
    BY <2>1, DerivedFieldsJoin
<1>2. /\ DOMAIN opened = DOMAIN fields
      /\ \A i \in DOMAIN fields : \A part \in {"resource", "field", "read", "export", "masked", "rules"} :
           opened[i][part] = fields[i][part]
  BY DEF Opened
<1>3. FiniteList(opened) /\ shift \in Nat /\ \A i \in DOMAIN opened : i < shift
  <2>1. FiniteList(fields)
    BY DEF BundleShape
  <2> HIDE DEF opened, fields
  <2>2. FiniteList(opened)
    BY <1>2, <2>1, KeptDomain
  <2> QED
    BY <2>2, PastBound DEF shift
<1> HIDE DEF fields, opened, shift, new
<1>4. /\ \A i \in DOMAIN opened : i \in DOMAIN new /\ new[i] = opened[i]
      /\ \A i \in DOMAIN new : i \notin DOMAIN opened => \E j \in DOMAIN more : new[i] = more[j]
  BY <1>1, <1>3, JoinedLists
<1> QED
  BY <1>1, <1>2, <1>4 DEF fields, new

\* The effect on a field the caller reads or exports does not relax: the best
\* policy stays the same, or is one that opens writes alone.
LEMMA DerivedFieldNotRelaxed ==
  ASSUME NEW b, BundleShape(b), NEW grant, IsFiniteSet(grant.fields),
         NEW r, NEW f, NEW a \in ReadActions \union {"export"}, NEW facts, NEW ctx
  PROVE  Strictness(EvaluateField(Derived(b, grant), r, f, a, facts, ctx))
           >= Strictness(EvaluateField(b, r, f, a, facts, ctx))
<1> DEFINE c == Derived(b, grant)
           fields == b.fieldPolicies
           new == c.fieldPolicies
           C == FieldCandidates(b, r, f)
           D == FieldCandidates(c, r, f)
           effect == RuleEffect(BestPolicy(C, r, f), a, facts, ctx)
           effect2 == RuleEffect(BestPolicy(D, r, f), a, facts, ctx)
<1>1. /\ \A i \in DOMAIN fields :
           /\ i \in DOMAIN new
           /\ new[i].resource = fields[i].resource /\ new[i].field = fields[i].field
           /\ new[i].read = fields[i].read /\ new[i].export = fields[i].export
           /\ new[i].masked = fields[i].masked /\ new[i].rules = fields[i].rules
      /\ \A i \in DOMAIN new : i \notin DOMAIN fields => \E field : new[i] = WriteOnly(grant.resource, field)
  BY DerivedFieldEntries
<1>2. BundleShape(c)
  BY DerivedShape
<1>3. /\ DOMAIN C \subseteq Nat /\ DOMAIN D \subseteq Nat
      /\ \A i : i \in DOMAIN C <=> i \in DOMAIN fields /\ Matches(fields[i].resource, r) /\ Matches(fields[i].field, f)
      /\ \A i : i \in DOMAIN D <=> i \in DOMAIN new /\ Matches(new[i].resource, r) /\ Matches(new[i].field, f)
      /\ \A i \in DOMAIN C : C[i] = fields[i]
      /\ \A i \in DOMAIN D : D[i] = new[i]
  <2> HIDE DEF c
  <2> QED BY <1>2, CandidateEntries
<1>4. \A s, t : /\ Strictness("hide") >= Strictness(t)
               /\ Strictness(t) >= Strictness(t)
  BY DEF Strictness
<1> HIDE DEF c, fields, new, C, D
<1>5. /\ \A i \in DOMAIN C : i \in DOMAIN D /\ Score(D[i], r, f) = Score(C[i], r, f)
      /\ \A i \in DOMAIN D : i \in DOMAIN fields => i \in DOMAIN C
  BY <1>1, <1>3 DEF Score
<1>6. ASSUME DOMAIN D # {} PROVE Strictness(effect2) >= Strictness(IF DOMAIN C = {} THEN "hide" ELSE effect)
  <2> DEFINE i == Least(BestPositions(D, r, f))
  <2>1. /\ BestPolicy(D, r, f) = D[i]
        /\ i \in BestPositions(D, r, f)
        /\ \A j \in BestPositions(D, r, f) : i <= j
    BY <1>3, <1>6, BestIsFirst
  <2> HIDE DEF i
  <2>2. i \in DOMAIN D /\ \A j \in DOMAIN D : Score(D[j], r, f) <= Score(D[i], r, f)
    BY <2>1 DEF BestPositions, Range
  <2>3. CASE i \notin DOMAIN fields
    <3>1. PICK field : D[i] = WriteOnly(grant.resource, field)
      BY <1>1, <1>3, <2>2, <2>3
    <3>2. ~D[i].read /\ ~D[i].export /\ D[i].rules = <<>>
      BY <3>1 DEF WriteOnly
    <3>3. BaselineField(D[i], a) = "hide"
      BY <3>2 DEF BaselineField
    <3>4. DOMAIN ActionRules(D[i].rules, a) = {}
      BY <3>2 DEF ActionRules, Keep
    <3>5. RuleEffect(D[i], a, facts, ctx) = "hide"
      BY <3>3, <3>4 DEF RuleEffect, EffectOfAnswers
    <3> QED
      BY <1>4, <2>1, <3>5
  <2>4. CASE i \in DOMAIN fields
    <3>1. i \in DOMAIN C /\ DOMAIN C # {}
      BY <1>5, <2>2, <2>4
    <3> DEFINE k == Least(BestPositions(C, r, f))
    <3>2. /\ BestPolicy(C, r, f) = C[k]
          /\ k \in BestPositions(C, r, f)
          /\ \A j \in BestPositions(C, r, f) : k <= j
      BY <1>3, <3>1, BestIsFirst
    <3> HIDE DEF k
    <3>3. k \in DOMAIN C /\ \A j \in DOMAIN C : Score(C[j], r, f) <= Score(C[k], r, f)
      BY <3>2 DEF BestPositions, Range
    <3>4. \A j \in DOMAIN D : Score(D[j], r, f) \in Nat
      BY DEF Score
    <3>5. i \in BestPositions(C, r, f)
      <4>1. \A j \in DOMAIN C : Score(C[j], r, f) <= Score(C[i], r, f)
        BY <1>5, <2>2, <3>1
      <4> QED BY <3>1, <4>1 DEF BestPositions, Range
    <3>6. k \in BestPositions(D, r, f)
      <4>1. Score(D[i], r, f) <= Score(D[k], r, f)
        BY <1>5, <3>1, <3>3
      <4>2. \A j \in DOMAIN D : Score(D[j], r, f) <= Score(D[k], r, f)
        BY <1>5, <2>2, <3>3, <3>4, <4>1
      <4> QED BY <1>5, <3>3, <4>2 DEF BestPositions, Range
    <3>7. i = k
      <4>1. k <= i /\ i <= k
        BY <2>1, <3>2, <3>5, <3>6
      <4>2. i \in Nat /\ k \in Nat
        BY <1>3, <3>1, <3>3
      <4> QED BY <4>1, <4>2
    <3>8. /\ D[i].read = C[k].read /\ D[i].export = C[k].export
          /\ D[i].masked = C[k].masked /\ D[i].rules = C[k].rules
      BY <1>1, <1>3, <2>2, <2>4, <3>3, <3>7
    <3>9. BaselineField(D[i], a) = BaselineField(C[k], a)
      BY <3>8 DEF BaselineField, ReadActions
    <3>10. RuleEffect(D[i], a, facts, ctx) = RuleEffect(C[k], a, facts, ctx)
      BY <3>8, <3>9 DEF RuleEffect
    <3> QED
      BY <1>4, <2>1, <3>1, <3>2, <3>10
  <2> QED
    BY <2>3, <2>4
<1>7. DOMAIN D = {} => DOMAIN C = {}
  BY <1>5
<1>8. FieldGuardrails(c, r, f, a) = FieldGuardrails(b, r, f, a)
  <2>1. c.guardrails = b.guardrails
    BY DEF c, Derived, BundleShape, BundleFields
  <2> QED BY <2>1 DEF FieldGuardrails
<1> DEFINE answers == GuardrailAnswers(FieldGuardrails(b, r, f, a), facts, ctx)
<1>9. /\ EvaluateField(b, r, f, a, facts, ctx)
           = IF r = Unnamed \/ f = Unnamed \/ a = Unnamed THEN "error"
             ELSE Guarded(answers, "error", "hide", IF DOMAIN C = {} THEN "hide" ELSE effect)
      /\ EvaluateField(c, r, f, a, facts, ctx)
           = IF r = Unnamed \/ f = Unnamed \/ a = Unnamed THEN "error"
             ELSE Guarded(answers, "error", "hide", IF DOMAIN D = {} THEN "hide" ELSE effect2)
  BY <1>8, Zenon DEF EvaluateField, Unnamed, C, D
<1> HIDE DEF effect, effect2, answers
<1>10. EvaluateField(c, r, f, a, facts, ctx) = EvaluateField(b, r, f, a, facts, ctx)
         \/ /\ EvaluateField(b, r, f, a, facts, ctx) = IF DOMAIN C = {} THEN "hide" ELSE effect
            /\ EvaluateField(c, r, f, a, facts, ctx) = IF DOMAIN D = {} THEN "hide" ELSE effect2
  BY <1>9 DEF Guarded
<1> QED
  BY <1>4, <1>6, <1>7, <1>10 DEF c

\* The listings of exports and references do not grow.
LEMMA DerivedListings ==
  ASSUME NEW b, BundleShape(b), NEW grant, IsFiniteSet(grant.fields), NEW r
  PROVE  /\ ExportableFields(Derived(b, grant), r) \subseteq ExportableFields(b, r)
         /\ AllowedReferences(Derived(b, grant), r) = AllowedReferences(b, r)
<1> DEFINE c == Derived(b, grant)
           fields == b.fieldPolicies
           new == c.fieldPolicies
<1>1. /\ c.exportPolicies = b.exportPolicies
      /\ c.referencePolicies = b.referencePolicies
      /\ c.guardrails = b.guardrails
  BY DEF Derived, BundleShape, BundleFields
<1>2. \A i \in DOMAIN new : new[i].export =>
        i \in DOMAIN fields /\ new[i].resource = fields[i].resource /\ new[i].field = fields[i].field /\ fields[i].export
  <2>1. /\ \A i \in DOMAIN fields :
             /\ new[i].resource = fields[i].resource /\ new[i].field = fields[i].field
             /\ new[i].export = fields[i].export
        /\ \A i \in DOMAIN new : i \notin DOMAIN fields => \E field : new[i] = WriteOnly(grant.resource, field)
    BY DerivedFieldEntries
  <2>2. \A field : ~WriteOnly(grant.resource, field).export
    BY DEF WriteOnly
  <2> HIDE DEF new, fields
  <2> QED BY <2>1, <2>2
<1>3. AllowedReferences(c, r) = AllowedReferences(b, r)
  <2> HIDE DEF c
  <2>1. \A reference : ReferenceGuardrailDenied(c, r, reference) = ReferenceGuardrailDenied(b, r, reference)
    BY <1>1, Zenon DEF ReferenceGuardrailDenied
  <2> QED BY <1>1, <2>1, Zenon DEF AllowedReferences
<1> DEFINE policies == Range(Keep(b.exportPolicies, LAMBDA e : Matches(e.resource, r)))
           lists == {e \in policies : e.mode = "allow_list"}
           Open(p) == p.export /\ (lists = {} \/ \E e \in lists : p.field \in e.fields)
           open == Keep(fields, LAMBDA q : Matches(q.resource, r) /\ Open(q))
           open2 == Keep(new, LAMBDA q : Matches(q.resource, r) /\ Open(q))
<1>4. /\ ExportableFields(b, r) = IF lists # policies THEN {} ELSE {p.field : p \in Range(open)}
      /\ ExportableFields(c, r) = IF lists # policies THEN {} ELSE {p.field : p \in Range(open2)}
  <2>1. ExportableFields(b, r) = IF lists # policies THEN {} ELSE {p.field : p \in Range(open)}
    BY DEF ExportableFields, FieldsWith
  <2> HIDE DEF c
  <2>2. c.exportPolicies = b.exportPolicies
    BY <1>1
  <2>3. ExportableFields(c, r) = IF lists # policies THEN {} ELSE {p.field : p \in Range(open2)}
    BY <2>2 DEF ExportableFields, FieldsWith
  <2> QED BY <2>1, <2>3
<1>5. \A p \in Range(open2) : \E q \in Range(open) : q.field = p.field
  <2> HIDE DEF new, fields, lists
  <2> SUFFICES ASSUME NEW i \in DOMAIN open2 PROVE \E j \in DOMAIN open : open[j].field = open2[i].field
    BY DEF Range
  <2>1. i \in DOMAIN new /\ open2[i] = new[i] /\ Matches(new[i].resource, r) /\ Open(new[i])
    BY DEF Keep
  <2>2. /\ i \in DOMAIN fields /\ new[i].field = fields[i].field
        /\ Matches(fields[i].resource, r) /\ Open(fields[i])
    BY <1>2, <2>1
  <2>3. i \in DOMAIN open /\ open[i] = fields[i]
    BY <2>2 DEF Keep
  <2> QED
    BY <2>1, <2>2, <2>3
<1> HIDE DEF open, open2, policies, lists
<1> QED
  BY <1>3, <1>4, <1>5

\* DeriveExecutionAccess widens nothing but its target and the writes of the fields
\* it declares, whatever bundle it derives from.
THEOREM ExecutionNarrows == Spec => ExecutionWidensOnlyDeclared
<1>1. ASSUME TypeOK, NEW grant \in Grant, DeriveExecutionAccess(grant) PROVE DerivedWidensOnlyDeclared(grant)
  <2>1. /\ BundleShape(bundle) /\ IsFiniteSet(grant.fields)
        /\ bundle' = Derived(bundle, grant)
        /\ ValidBundle(bundle, now) /\ ValidBundle(bundle', now)
    BY <1>1, RequestAssumption DEF TypeOK, DeriveExecutionAccess, Derivable
  <2>2. \A claims : Context(bundle', claims) = Context(bundle, claims)
    <3>1. bundle'.subject = bundle.subject
      BY <2>1 DEF Derived, BundleShape, BundleFields
    <3> QED BY <3>1 DEF Context
  <2>3. ASSUME NEW pair \in Pair \ {Target(grant)}, NEW claims \in BusinessClaims
        PROVE  Allowed(bundle', pair, "", claims) = Allowed(bundle, pair, "", claims)
    <3>1. <<pair[1], pair[2]>> # Target(grant)
      BY <2>3, PairParts
    <3>2. SameForRecords(bundle', bundle, pair[1], pair[2])
      BY <2>1, <3>1, DerivedOtherPairs
    <3>3. SameForRecords(bundle, bundle', pair[1], pair[2])
      BY <3>2 DEF SameForRecords
    <3>4. \A record : Layers(bundle', pair[1], pair[2], "", record, Context(bundle, claims)).allowed
                      <=> Layers(bundle, pair[1], pair[2], "", record, Context(bundle, claims)).allowed
      BY <3>2, <3>3, LayersRead
    <3> QED
      BY <2>1, <2>2, <3>4, Zenon DEF Allowed, AllowedRows
  <2>4. ASSUME NEW pair \in Resource \X (Action \intersect (ReadActions \union {"export"})),
               NEW field \in Field, NEW record \in Record, NEW claims \in BusinessClaims
        PROVE  Strictness(FieldEffect(bundle', pair, field, record, claims))
                 >= Strictness(FieldEffect(bundle, pair, field, record, claims))
    <3>1. pair[2] \in ReadActions \union {"export"}
      OBVIOUS
    <3> QED
      BY <2>1, <2>2, <3>1, DerivedFieldNotRelaxed DEF FieldEffect
  <2>5. \A r \in Resource : /\ ExportableFields(bundle', r) \subseteq ExportableFields(bundle, r)
                            /\ AllowedReferences(bundle', r) = AllowedReferences(bundle, r)
    BY <2>1, DerivedListings
  <2> QED
    BY <2>3, <2>4, <2>5 DEF DerivedWidensOnlyDeclared
<1>2. TypeOK => [\A grant \in Grant : DeriveExecutionAccess(grant) => DerivedWidensOnlyDeclared(grant)]_vars
  BY <1>1
<1> QED
  BY <1>2, TypeCorrect, PTL DEF ExecutionWidensOnlyDeclared

-----------------------------------------------------------------------------
(* Chains of restrictions and derivations *)

\* Every part a key of a policy may have.
KeyPart ==
  Resource \union Action \union UNION {UNION {Range(p.key) : p \in Range(b.dataPolicies)} : b \in IssuedBundle}

\* Policy c says what policy p says.
SameContent(c, p) == c.effect = p.effect /\ c.scopes = p.scopes /\ c.predicate = p.predicate

\* Policy c says what the issued policy p says, under a key made of p's.
From(c, p) == p.key \in Seq(KeyPart) /\ Extends(c.key, p.key) /\ SameContent(c, p)

\* A key extended by a pair.
Longer(key, r, a) == key \o <<r, a>>

\* A key that was extended ends in its policy's pair; a projected deny stands
\* beside the deny it was projected from.
Projected(c, present) ==
  /\ c.resource \in KeyPart /\ c.action \in KeyPart
  /\ \E base \in Seq(KeyPart) :
       /\ c.key = Longer(base, c.resource, c.action)
       /\ c.effect = "deny" => \E d \in present : d.key = base /\ SameContent(c, d)

\* A policy comes from an issued one, and is one or was projected.
Rooted(c, present, policies) ==
  /\ DOMAIN c = {"key", "resource", "action", "effect", "scopes", "predicate", "audit"}
  /\ c.key \in Seq(KeyPart) /\ c.effect \in Effects
  /\ c \in policies \/ Projected(c, present)
  /\ \E p \in policies : From(c, p)

\* Another issued policy has a key that a projection of p may have.
Taken(p, policies) == \E q \in policies : q # p /\ Extends(q.key, p.key)

\* How the policies `now' stem from those issued: the denies stay, the allows of a
\* pair come from its origin and prove the pair admitted, and each policy of the
\* origin is there for the pair, the allows while the pair is admitted, unless its
\* key was taken.
Stems(present, policies, from, let) ==
  /\ \A c \in present : Rooted(c, present, policies)
  /\ \A p \in policies : p.effect = "deny" => p \in present
  /\ \A c \in present : c.effect = "allow" /\ PairOf(c) \in Pair =>
       let[PairOf(c)] /\ \E p \in policies : PairOf(p) = from[PairOf(c)] /\ From(c, p)
  /\ \A pair \in Pair, p \in policies : PairOf(p) = from[pair] /\ (p.effect = "deny" \/ let[pair]) =>
       Taken(p, policies) \/ \E c \in present : PairOf(c) = pair /\ From(c, p)

UniqueKeys(policies) == \A p, q \in policies : p.key = q.key => p = q

\* A projected key is a key.
LEMMA LongerIsKey ==
  ASSUME NEW key \in Seq(KeyPart), NEW r \in KeyPart, NEW a \in KeyPart
  PROVE  Longer(key, r, a) \in Seq(KeyPart)
<1>1. <<r, a>> \in Seq(KeyPart)
  OBVIOUS
<1> QED
  BY <1>1 DEF Longer

\* It begins as it did, and ends in the target.
LEMMA ExtendedKey ==
  ASSUME NEW key \in Seq(KeyPart), NEW r \in KeyPart, NEW a \in KeyPart
  PROVE  /\ Len(Longer(key, r, a)) = Len(key) + 2 /\ Len(key) \in Nat
         /\ \A i \in 1 .. Len(key) : Longer(key, r, a)[i] = key[i]
         /\ Longer(key, r, a)[Len(key) + 1] = r
         /\ Longer(key, r, a)[Len(key) + 2] = a
<1>1. <<r, a>> \in Seq(KeyPart) /\ Len(<<r, a>>) = 2 /\ <<r, a>>[1] = r /\ <<r, a>>[2] = a
  OBVIOUS
<1>2. Len(key) \in Nat
  OBVIOUS
<1> QED
  BY <1>1, <1>2 DEF Longer

\* What an extended key was made of can be read off it.
LEMMA SameEnds ==
  ASSUME NEW k1 \in Seq(KeyPart), NEW r1 \in KeyPart, NEW a1 \in KeyPart,
         NEW k2 \in Seq(KeyPart), NEW r2 \in KeyPart, NEW a2 \in KeyPart,
         Longer(k1, r1, a1) = Longer(k2, r2, a2)
  PROVE  k1 = k2 /\ r1 = r2 /\ a1 = a2
<1> DEFINE long1 == Longer(k1, r1, a1)
           long2 == Longer(k2, r2, a2)
<1>1. /\ Len(long1) = Len(k1) + 2 /\ Len(k1) \in Nat /\ \A i \in 1 .. Len(k1) : long1[i] = k1[i]
      /\ long1[Len(k1) + 1] = r1 /\ long1[Len(k1) + 2] = a1
  BY ExtendedKey
<1>2. /\ Len(long2) = Len(k2) + 2 /\ Len(k2) \in Nat /\ \A i \in 1 .. Len(k2) : long2[i] = k2[i]
      /\ long2[Len(k2) + 1] = r2 /\ long2[Len(k2) + 2] = a2
  BY ExtendedKey
<1>3. long1 = long2
  OBVIOUS
<1> HIDE DEF long1, long2
<1>4. Len(k1) = Len(k2) /\ \A i \in 1 .. Len(k1) : k1[i] = k2[i]
  BY <1>1, <1>2, <1>3
<1> QED
  BY <1>1, <1>2, <1>3, <1>4

\* Every key extends itself, and an extension's extension is one.
LEMMA ExtensionExtends ==
  ASSUME NEW long \in Seq(KeyPart), NEW r \in KeyPart, NEW a \in KeyPart, NEW short \in Seq(KeyPart)
  PROVE  /\ Extends(short, short)
         /\ Extends(long, short) => Extends(Longer(long, r, a), short)
<1> DEFINE longer == Longer(long, r, a)
<1>1. /\ Len(longer) = Len(long) + 2 /\ Len(long) \in Nat /\ Len(short) \in Nat
      /\ \A i \in 1 .. Len(long) : longer[i] = long[i]
  BY ExtendedKey
<1> HIDE DEF longer
<1>2. Extends(short, short)
  <2> USE DEF Extends
  <2>1. 0 \in 0 .. Len(short) /\ Len(short) = Len(short) + 2 * 0
    BY <1>1
  <2> WITNESS 0 \in 0 .. Len(short)
  <2> QED
    BY <2>1
<1>3. ASSUME Extends(long, short) PROVE Extends(longer, short)
  <2>1. PICK n \in 0 .. Len(long) : Len(long) = Len(short) + 2 * n /\ \A i \in 1 .. Len(short) : long[i] = short[i]
    BY <1>3 DEF Extends
  <2>2. n + 1 \in 0 .. Len(longer) /\ Len(longer) = Len(short) + 2 * (n + 1)
    BY <1>1, <2>1
  <2>3. \A i \in 1 .. Len(short) : longer[i] = short[i]
    BY <1>1, <2>1
  <2> QED
    BY <2>2, <2>3 DEF Extends
<1> QED
  BY <1>2, <1>3 DEF longer

\* An extension is no shorter, so an extended key is not the key it comes from.
LEMMA ExtendedIsAnother ==
  ASSUME NEW long \in Seq(KeyPart), NEW r \in KeyPart, NEW a \in KeyPart,
         NEW short \in Seq(KeyPart), Extends(long, short)
  PROVE  Longer(long, r, a) # short
<1>1. Len(Longer(long, r, a)) = Len(long) + 2 /\ Len(long) \in Nat /\ Len(short) \in Nat
  BY ExtendedKey
<1>2. PICK n \in 0 .. Len(long) : Len(long) = Len(short) + 2 * n
  BY DEF Extends
<1> QED
  BY <1>1, <1>2

\* A projection of a policy stems from what the policy stems from.
LEMMA ProjectionStems ==
  ASSUME NEW present, NEW policies, NEW d \in present, Rooted(d, present, policies),
         NEW grant, grant.resource \in KeyPart, grant.action \in KeyPart
  PROVE  /\ Projection(d, grant).key = Longer(d.key, grant.resource, grant.action)
         /\ SameContent(Projection(d, grant), d)
         /\ PairOf(Projection(d, grant)) = Target(grant)
         /\ \A p : From(d, p) => From(Projection(d, grant), p)
         /\ \A after : (d.effect = "deny" => d \in after) => Rooted(Projection(d, grant), after, policies)
<1> DEFINE c == Projection(d, grant)
<1>1. /\ DOMAIN c = DOMAIN d
      /\ c.effect = d.effect /\ c.scopes = d.scopes /\ c.predicate = d.predicate
      /\ c.key = Longer(d.key, grant.resource, grant.action)
      /\ c.resource = grant.resource /\ c.action = grant.action
  BY ProjectionContent DEF Rooted, Target, Longer
<1> HIDE DEF c
<1>2. c.key \in Seq(KeyPart) /\ d.key \in Seq(KeyPart)
  BY <1>1, LongerIsKey DEF Rooted
<1>3. SameContent(c, d)
  BY <1>1 DEF SameContent
<1>4. ASSUME NEW p, From(d, p) PROVE From(c, p)
  <2>1. Extends(c.key, p.key)
    BY <1>1, <1>2, <1>4, ExtensionExtends DEF From
  <2> QED
    BY <1>1, <1>4, <2>1 DEF From, SameContent
<1>5. ASSUME NEW after, d.effect = "deny" => d \in after PROVE Rooted(c, after, policies)
  <2>1. Projected(c, after)
    BY <1>1, <1>2, <1>3, <1>5 DEF Projected
  <2>2. \E p \in policies : From(c, p)
    BY <1>4 DEF Rooted
  <2> QED
    BY <1>1, <1>2, <2>1, <2>2 DEF Rooted
<1>6. PairOf(c) = Target(grant)
  BY <1>1 DEF PairOf, Target
<1> QED
  BY <1>1, <1>3, <1>4, <1>5, <1>6 DEF c

\* A policy kept stays rooted where the denies stay.
LEMMA KeptRooted ==
  ASSUME NEW present, NEW after, NEW policies, NEW c, Rooted(c, present, policies),
         \A d \in present : d.effect = "deny" => d \in after
  PROVE  Rooted(c, after, policies)
<1>1. Projected(c, present) => Projected(c, after)
  <2> SUFFICES ASSUME NEW base \in Seq(KeyPart),
                      c.effect = "deny" => \E d \in present : d.key = base /\ SameContent(c, d)
               PROVE  c.effect = "deny" => \E d \in after : d.key = base /\ SameContent(c, d)
    BY DEF Projected
  <2>1. \A d \in present : c.effect = "deny" /\ SameContent(c, d) => d \in after
    BY DEF SameContent
  <2> QED
    BY <2>1
<1> QED
  BY <1>1 DEF Rooted

\* A restriction keeps the denies, and the allows of the pairs it lets through.
LEMMA RestrictionStems ==
  ASSUME NEW present, NEW policies, NEW from \in [Pair -> Pair], NEW let \in [Pair -> BOOLEAN],
         Stems(present, policies, from, let), NEW scopes, NEW after,
         \A c : c \in after <=> c \in present /\ (c.effect = "deny" \/ PairOf(c) \in scopes)
  PROVE  Stems(after, policies, from, [pair \in Pair |-> let[pair] /\ pair \in scopes])
<1> DEFINE let2 == [pair \in Pair |-> let[pair] /\ pair \in scopes]
<1>1. \A c \in after : Rooted(c, after, policies)
  BY KeptRooted DEF Stems
<1>2. \A p \in policies : p.effect = "deny" => p \in after
  BY DEF Stems
<1>3. ASSUME NEW c \in after, c.effect = "allow", PairOf(c) \in Pair
      PROVE  let2[PairOf(c)] /\ \E p \in policies : PairOf(p) = from[PairOf(c)] /\ From(c, p)
  BY <1>3 DEF Stems
<1>4. ASSUME NEW pair \in Pair, NEW p \in policies, PairOf(p) = from[pair], p.effect = "deny" \/ let2[pair]
      PROVE  Taken(p, policies) \/ \E c \in after : PairOf(c) = pair /\ From(c, p)
  <2> SUFFICES ASSUME ~Taken(p, policies)
               PROVE  \E c \in after : PairOf(c) = pair /\ From(c, p)
    OBVIOUS
  <2>1. p.effect = "deny" \/ (let[pair] /\ pair \in scopes)
    BY <1>4
  <2>2. PICK c \in present : PairOf(c) = pair /\ From(c, p)
    BY <1>4, <2>1 DEF Stems
  <2>3. c.effect = p.effect
    BY <2>2 DEF From, SameContent
  <2> QED
    BY <2>1, <2>2, <2>3
<1> QED
  BY <1>1, <1>2, <1>3, <1>4 DEF Stems

\* A derivation moves the policies of the source to the target, whose own allows go.
LEMMA DerivationStems ==
  ASSUME NEW present, NEW policies, NEW from \in [Pair -> Pair], NEW let \in [Pair -> BOOLEAN],
         Stems(present, policies, from, let), UniqueKeys(present),
         NEW grant, grant.resource \in KeyPart, grant.action \in KeyPart, Target(grant) \in Pair,
         NEW source \in Pair, source # Target(grant), NEW after,
         \A c \in present : ~(PairOf(c) = Target(grant) /\ c.effect = "allow") => c \in after,
         \A c \in after :
           \/ c \in present /\ ~(PairOf(c) = Target(grant) /\ c.effect = "allow")
           \/ \E d \in present : PairOf(d) = source /\ c = Projection(d, grant),
         \A d \in present : PairOf(d) = source =>
           \E c \in after : \/ c = Projection(d, grant)
                           \/ /\ c \in present /\ ~(PairOf(c) = Target(grant) /\ c.effect = "allow")
                              /\ c.key = Projection(d, grant).key
  PROVE  Stems(after, policies, [from EXCEPT ![Target(grant)] = from[source]],
                                [let EXCEPT ![Target(grant)] = let[source]])
<1> DEFINE target == Target(grant)
           from2 == [from EXCEPT ![target] = from[source]]
           let2 == [let EXCEPT ![target] = let[source]]
<1>1. /\ \A d \in present : Rooted(d, present, policies)
      /\ \A d \in present : d.effect = "deny" => d \in after
      /\ \A d \in present : /\ Rooted(Projection(d, grant), after, policies)
                            /\ Projection(d, grant).key = Longer(d.key, grant.resource, grant.action)
                            /\ PairOf(Projection(d, grant)) = target
                            /\ \A p : From(d, p) => From(Projection(d, grant), p)
  BY ProjectionStems DEF Stems
<1>2. /\ from2[target] = from[source] /\ let2[target] = let[source]
      /\ \A pair \in Pair \ {target} : from2[pair] = from[pair] /\ let2[pair] = let[pair]
  OBVIOUS
<1> HIDE DEF from2, let2, target
<1>3. \A c \in after : Rooted(c, after, policies)
  BY <1>1, KeptRooted
<1>4. \A p \in policies : p.effect = "deny" => p \in after
  BY DEF Stems
<1>5. ASSUME NEW c \in after, c.effect = "allow", PairOf(c) \in Pair
      PROVE  let2[PairOf(c)] /\ \E p \in policies : PairOf(p) = from2[PairOf(c)] /\ From(c, p)
  <2>1. CASE c \in present /\ PairOf(c) # target
    BY <1>2, <1>5, <2>1 DEF Stems
  <2>2. CASE \E d \in present : PairOf(d) = source /\ c = Projection(d, grant)
    <3>1. PICK d \in present : PairOf(d) = source /\ c = Projection(d, grant)
      BY <2>2
    <3>2. d.effect = "allow"
      BY <1>5, <3>1, ProjectionContent
    <3>3. let[source] /\ \E p \in policies : PairOf(p) = from[source] /\ From(d, p)
      BY <3>1, <3>2 DEF Stems
    <3>4. PairOf(c) = target /\ \A p : From(d, p) => From(c, p)
      BY <1>1, <3>1
    <3> QED
      BY <1>2, <3>3, <3>4
  <2> QED
    BY <1>5, <2>1, <2>2 DEF target
<1>6. ASSUME NEW pair \in Pair, NEW p \in policies, PairOf(p) = from2[pair], p.effect = "deny" \/ let2[pair],
             ~Taken(p, policies)
      PROVE  \E c \in after : PairOf(c) = pair /\ From(c, p)
  <2>1. CASE pair # target
    <3>1. PICK c \in present : PairOf(c) = pair /\ From(c, p)
      BY <1>2, <1>6, <2>1 DEF Stems
    <3> QED
      BY <2>1, <3>1 DEF target
  <2>2. CASE pair = target
    <3>1. PICK d \in present : PairOf(d) = source /\ From(d, p)
      BY <1>2, <1>6, <2>2 DEF Stems
    <3>2. PICK c \in after : \/ c = Projection(d, grant)
                            \/ /\ c \in present /\ ~(PairOf(c) = target /\ c.effect = "allow")
                               /\ c.key = Projection(d, grant).key
      BY <3>1 DEF target
    <3>3. CASE c = Projection(d, grant)
      BY <1>1, <2>2, <3>1, <3>3
    <3>4. CASE /\ c \in present /\ ~(PairOf(c) = target /\ c.effect = "allow")
               /\ c.key = Projection(d, grant).key
      <4>1. /\ Rooted(c, present, policies) /\ d.key \in Seq(KeyPart) /\ p.key \in Seq(KeyPart)
            /\ c.key = Longer(d.key, grant.resource, grant.action)
            /\ Extends(d.key, p.key) /\ Extends(c.key, p.key)
        BY <1>1, <3>1, <3>4, ExtensionExtends DEF Rooted, From
      <4>2. c \notin policies
        <5>1. c.key # p.key
          BY <4>1, ExtendedIsAnother
        <5> QED
          BY <1>6, <4>1, <5>1 DEF Taken
      <4>3. PICK base \in Seq(KeyPart) :
              /\ c.resource \in KeyPart /\ c.action \in KeyPart
              /\ c.key = Longer(base, c.resource, c.action)
              /\ c.effect = "deny" => \E e \in present : e.key = base /\ SameContent(c, e)
        BY <4>1, <4>2 DEF Rooted, Projected
      <4>4. base = d.key /\ c.resource = grant.resource /\ c.action = grant.action
        <5>1. Longer(base, c.resource, c.action) = Longer(d.key, grant.resource, grant.action)
          BY <4>1, <4>3
        <5>2. /\ c.resource \in KeyPart /\ c.action \in KeyPart /\ d.key \in Seq(KeyPart)
              /\ grant.resource \in KeyPart /\ grant.action \in KeyPart
          BY <4>1, <4>3
        <5> QED
          BY <5>1, <5>2, SameEnds
      <4>5. PairOf(c) = target
        BY <4>4 DEF PairOf, Target, target
      <4>6. c.effect = "deny"
        BY <3>4, <4>1, <4>5 DEF Rooted, Effects
      <4>7. SameContent(c, d)
        BY <4>3, <4>4, <4>6 DEF UniqueKeys
      <4>8. From(c, p)
        BY <3>1, <4>1, <4>7 DEF From, SameContent
      <4> QED
        BY <2>2, <4>5, <4>8
    <3> QED
      BY <3>2, <3>3, <3>4
  <2> QED
    BY <2>1, <2>2
<1> QED
  BY <1>3, <1>4, <1>5, <1>6 DEF Stems, from2, let2, target

\* The data policies of a valid bundle have keys of their own.
LEMMA ValidKeys ==
  ASSUME NEW b, ValidDataPolicies(b)
  PROVE  UniqueKeys(Range(b.dataPolicies))
<1>1. \A i, j \in DOMAIN b.dataPolicies : b.dataPolicies[i].key = b.dataPolicies[j].key => i = j
  BY DEF ValidDataPolicies, UniqueBy
<1> QED
  BY <1>1 DEF UniqueKeys, Range

\* The policies of a bundle as it was issued stem from themselves.
LEMMA IssuedStems ==
  ASSUME NEW b \in IssuedBundle, ValidDataPolicies(b)
  PROVE  Stems(Range(b.dataPolicies), Range(b.dataPolicies),
               [pair \in Pair |-> pair], [pair \in Pair |-> TRUE])
<1> DEFINE policies == Range(b.dataPolicies)
           same == [pair \in Pair |-> pair]
           all == [pair \in Pair |-> TRUE]
<1>1. /\ \A p \in policies : DOMAIN p = {"key", "resource", "action", "effect", "scopes", "predicate", "audit"}
      /\ \A p \in policies : p.key \in Seq(Range(p.key))
  BY RequestAssumption DEF BundleShape
<1>2. \A p \in policies : p.effect \in Effects
  BY DEF ValidDataPolicies
<1>3. \A p \in policies : Range(p.key) \subseteq KeyPart
  BY DEF KeyPart
<1> HIDE DEF policies
<1>4. ASSUME NEW p \in policies PROVE Rooted(p, policies, policies) /\ From(p, p)
  <2>1. p.key \in Seq(KeyPart)
    <3>1. p.key \in Seq(Range(p.key)) /\ Range(p.key) \subseteq KeyPart
      BY <1>1, <1>3
    <3> QED
      BY <3>1
  <2>2. Extends(p.key, p.key)
    <3>1. Len(p.key) \in Nat /\ 0 \in 0 .. Len(p.key) /\ Len(p.key) = Len(p.key) + 2 * 0
      BY <2>1
    <3> QED
      BY <3>1 DEF Extends
  <2>3. From(p, p)
    BY <2>1, <2>2 DEF From, SameContent
  <2> QED
    BY <1>1, <1>2, <2>1, <2>3 DEF Rooted
<1>5. \A pair \in Pair : same[pair] = pair /\ all[pair]
  OBVIOUS
<1> HIDE DEF same, all
<1>6. Stems(policies, policies, same, all)
  BY <1>4, <1>5 DEF Stems
<1> QED
  BY <1>6 DEF policies, same, all

\* Where the policies of a bundle come from: the inductive strengthening of
\* VisibleOnlyThroughScopes, for the bundle of which the issued one was valid.
Governed ==
  ValidBundle(issued, 0) =>
    /\ bundle.subject = issued.subject
    /\ Stems(Range(bundle.dataPolicies), Range(issued.dataPolicies), origin, admitted)

\* A restriction keeps Governed: it drops allows outside the scopes alone.
LEMMA RestrictionGoverned ==
  ASSUME TypeOK, Governed, NEW scopes \in ScopeSet, RestrictAccess(scopes)
  PROVE  Governed'
<1>1. SUFFICES ASSUME ValidBundle(issued, 0)
               PROVE  /\ bundle'.subject = issued.subject
                      /\ Stems(Range(bundle'.dataPolicies), Range(issued.dataPolicies), origin, admitted')
  BY DEF Governed, RestrictAccess
<1> DEFINE old == bundle.dataPolicies
           new == bundle'.dataPolicies
           let == [pair \in Pair |-> admitted[pair] /\ pair \in scopes]
<1>2. /\ bundle'.subject = bundle.subject
      /\ new = Keep(old, LAMBDA p : p.effect = "deny" \/ <<p.resource, p.action>> \in scopes)
      /\ admitted' = let
  BY RestrictedLists DEF RestrictAccess, TypeOK, BundleShape
<1>3. \A c : c \in Range(new) <=> c \in Range(old) /\ (c.effect = "deny" \/ PairOf(c) \in scopes)
  <2>1. /\ \A i : i \in DOMAIN new <=> i \in DOMAIN old /\ (old[i].effect = "deny" \/ PairOf(old[i]) \in scopes)
        /\ \A i \in DOMAIN new : new[i] = old[i]
    BY <1>2 DEF Keep, PairOf
  <2> HIDE DEF old, new
  <2> QED
    BY <2>1 DEF Range
<1>4. Stems(Range(new), Range(issued.dataPolicies), origin, let)
  <2> HIDE DEF old, new, let
  <2> QED
    BY <1>1, <1>3, RestrictionStems DEF Governed, TypeOK, old, let
<1> QED
  BY <1>1, <1>2, <1>4 DEF Governed

\* A derivation keeps Governed: the target now answers to the source's origin.
LEMMA DerivationGoverned ==
  ASSUME TypeOK, Governed, NEW grant \in Grant, DeriveExecutionAccess(grant)
  PROVE  Governed'
<1> DEFINE target == Target(grant)
           old == bundle.dataPolicies
           new == bundle'.dataPolicies
           roots == Range(issued.dataPolicies)
<1>1. SUFFICES ASSUME ValidBundle(issued, 0)
               PROVE  bundle'.subject = issued.subject /\ Stems(Range(new), roots, origin', admitted')
  BY DEF Governed, DeriveExecutionAccess
<1>2. /\ BundleShape(bundle) /\ bundle' = Derived(bundle, grant)
      /\ bundle'.subject = bundle.subject
      /\ new = DerivedPolicies(bundle, grant)
  BY DEF DeriveExecutionAccess, TypeOK, Derived, BundleShape, BundleFields
<1>3. /\ target = <<grant.resource, grant.action>> /\ target \in Pair
      /\ grant.resource \in KeyPart /\ grant.action \in KeyPart
      /\ grant.source = <<>> \/ \E pair \in Pair : grant.source = <<pair>>
  BY RequestAssumption DEF Pair, Target, KeyPart
<1>4. /\ origin \in [Pair -> Pair] /\ admitted \in [Pair -> BOOLEAN]
      /\ bundle.subject = issued.subject
      /\ Stems(Range(old), roots, origin, admitted)
      /\ UniqueKeys(Range(old))
  BY <1>1, ValidKeys DEF TypeOK, Governed, DeriveExecutionAccess, Derivable, ValidBundle
<1>5. /\ grant.source = <<>> => origin' = origin /\ admitted' = admitted
      /\ grant.source # <<>> => /\ origin' = [origin EXCEPT ![target] = origin[grant.source[1]]]
                                /\ admitted' = [admitted EXCEPT ![target] = admitted[grant.source[1]]]
  BY DEF DeriveExecutionAccess
<1>6. CASE grant.source = <<>>
  <2>1. new = old
    BY <1>2, <1>6 DEF DerivedPolicies
  <2> HIDE DEF new, old, roots
  <2> QED
    BY <1>2, <1>4, <1>5, <1>6, <2>1
<1>7. CASE grant.source = <<target>>
  <2>1. new = old
    BY <1>2, <1>7 DEF DerivedPolicies
  <2>2. grant.source # <<>> /\ grant.source[1] = target
    BY <1>7
  <2>3. origin' = origin /\ admitted' = admitted
    <3> HIDE DEF target
    <3> QED BY <1>3, <1>4, <1>5, <2>2
  <2> HIDE DEF new, old, roots
  <2> QED
    BY <1>2, <1>4, <2>1, <2>3
<1>8. CASE grant.source # <<>> /\ grant.source # <<target>>
  <2>1. PICK source \in Pair : grant.source = <<source>>
    BY <1>3, <1>8
  <2>2. grant.source[1] = source /\ source # target
    BY <1>8, <2>1
  <2>3. /\ \A i \in DOMAIN old : ~(PairOf(old[i]) = target /\ old[i].effect = "allow") =>
             i \in DOMAIN new /\ new[i] = old[i]
        /\ \A i \in DOMAIN new :
             \/ i \in DOMAIN old /\ new[i] = old[i] /\ ~(PairOf(old[i]) = target /\ old[i].effect = "allow")
             \/ \E j \in DOMAIN old : PairOf(old[j]) = source /\ new[i] = Projection(old[j], grant)
        /\ \A j \in DOMAIN old : PairOf(old[j]) = source =>
             \E i \in DOMAIN new :
               \/ new[i] = Projection(old[j], grant)
               \/ /\ i \in DOMAIN old /\ new[i] = old[i]
                  /\ new[i].key = Projection(old[j], grant).key
                  /\ ~(PairOf(old[i]) = target /\ old[i].effect = "allow")
    BY <1>2, <1>8, <2>2, DerivedEntries
  <2> HIDE DEF new, old, roots
  <2>4. /\ \A c \in Range(old) : ~(PairOf(c) = target /\ c.effect = "allow") => c \in Range(new)
        /\ \A c \in Range(new) :
             \/ c \in Range(old) /\ ~(PairOf(c) = target /\ c.effect = "allow")
             \/ \E d \in Range(old) : PairOf(d) = source /\ c = Projection(d, grant)
        /\ \A d \in Range(old) : PairOf(d) = source =>
             \E c \in Range(new) : \/ c = Projection(d, grant)
                                   \/ /\ c \in Range(old) /\ ~(PairOf(c) = target /\ c.effect = "allow")
                                      /\ c.key = Projection(d, grant).key
    <3> HIDE DEF target
    <3> QED BY <2>3 DEF Range
  <2>5. Stems(Range(new), roots, [origin EXCEPT ![target] = origin[source]],
                                 [admitted EXCEPT ![target] = admitted[source]])
    <3> DEFINE present == Range(old)
               after == Range(new)
    <3>1. /\ \A c \in present : ~(PairOf(c) = Target(grant) /\ c.effect = "allow") => c \in after
          /\ \A c \in after :
               \/ c \in present /\ ~(PairOf(c) = Target(grant) /\ c.effect = "allow")
               \/ \E d \in present : PairOf(d) = source /\ c = Projection(d, grant)
          /\ \A d \in present : PairOf(d) = source =>
               \E c \in after : \/ c = Projection(d, grant)
                               \/ /\ c \in present /\ ~(PairOf(c) = Target(grant) /\ c.effect = "allow")
                                  /\ c.key = Projection(d, grant).key
      BY <2>4
    <3>2. /\ Stems(present, roots, origin, admitted) /\ UniqueKeys(present)
          /\ grant.resource \in KeyPart /\ grant.action \in KeyPart
          /\ Target(grant) \in Pair /\ source # Target(grant)
          /\ origin \in [Pair -> Pair] /\ admitted \in [Pair -> BOOLEAN]
      BY <1>3, <1>4, <2>2
    <3> HIDE DEF present, after, target
    <3>3. Stems(after, roots, [origin EXCEPT ![Target(grant)] = origin[source]],
                              [admitted EXCEPT ![Target(grant)] = admitted[source]])
      BY <3>1, <3>2, DerivationStems
    <3> QED
      BY <3>3 DEF after, target
  <2> QED
    BY <1>2, <1>4, <1>5, <1>8, <2>2, <2>5
<1> QED
  BY <1>6, <1>7, <1>8

\* Governed is an invariant of every instance.
LEMMA GovernedAlways == Spec => []Governed
<1>1. Init => Governed
  BY IssuedStems DEF Init, Governed, ValidBundle
<1>2. TypeOK /\ Governed /\ [Next]_vars => Governed'
  <2> SUFFICES ASSUME TypeOK, Governed, [Next]_vars PROVE Governed'
    OBVIOUS
  <2>1. CASE \E scopes \in ScopeSet : RestrictAccess(scopes)
    BY <2>1, RestrictionGoverned
  <2>2. CASE \E grant \in Grant : DeriveExecutionAccess(grant)
    BY <2>2, DerivationGoverned
  <2>3. CASE Tick
    BY <2>3 DEF Tick, Governed
  <2>4. CASE UNCHANGED vars
    BY <2>4 DEF vars, Governed
  <2> QED
    BY <2>1, <2>2, <2>3, <2>4 DEF Next
<1> QED
  BY <1>1, <1>2, TypeCorrect, PTL DEF Spec

\* Policies of the same content give the same answer, whatever their key and pair.
LEMMA SameContentSameAnswer ==
  ASSUME NEW c, NEW p, From(c, p), NEW facts, NEW ctx
  PROVE  c.effect = p.effect /\ PolicyMatch(c, facts, ctx) = PolicyMatch(p, facts, ctx)
BY DEF From, SameContent, PolicyMatch

\* Every policy of a valid bundle answers or fails.
LEMMA PolicyAnswers ==
  ASSUME NEW b, BundleShape(b), ValidDataPolicies(b), NEW p \in Range(b.dataPolicies), NEW facts, NEW ctx
  PROVE  p.effect \in Effects /\ PolicyMatch(p, facts, ctx) \in Answers
<1>1. p.predicate \in Predicate /\ p.effect \in Effects
  BY DEF BundleShape, ValidDataPolicies
<1>2. CASE p.effect = "allow" /\ "all" \in p.scopes
  BY <1>1, <1>2 DEF PolicyMatch, Answers
<1>3. CASE ~(p.effect = "allow" /\ "all" \in p.scopes)
  <2>1. ValidPredicate[p.predicate]
    BY <1>3 DEF ValidDataPolicies
  <2>2. PolicyMatch(p, facts, ctx) = EvaluatePredicate(p.predicate, facts, ctx)
    BY <1>3 DEF PolicyMatch
  <2> QED
    BY <1>1, <2>1, <2>2, AnswersKnown
<1> QED
  BY <1>2, <1>3

\* The policies of a pair, in the terms of the bundle.
LEMMA PolicyEntries ==
  ASSUME NEW b, BundleShape(b), NEW r, NEW a
  PROVE  /\ DOMAIN PoliciesFor(b, r, a) \subseteq Nat
         /\ \A p : p \in Range(PoliciesFor(b, r, a)) <=> p \in Range(b.dataPolicies) /\ PairOf(p) = <<r, a>>
<1> DEFINE mine == PoliciesFor(b, r, a)
           list == b.dataPolicies
<1>1. /\ \A i : i \in DOMAIN mine <=> i \in DOMAIN list /\ PairOf(list[i]) = <<r, a>>
      /\ \A i \in DOMAIN mine : mine[i] = list[i]
  BY DEF PoliciesFor, Keep, PairOf
<1>2. DOMAIN list \subseteq Nat
  BY DEF BundleShape, FiniteList
<1> HIDE DEF mine, list
<1> QED
  BY <1>1, <1>2 DEF Range, mine, list

\* A record visible under a pair passes the policies issued for the origin, those
\* with a taken key excepted.
LEMMA VisibleThroughOrigin ==
  ASSUME NEW b, BundleShape(b), NEW i, BundleShape(i), ValidDataPolicies(i),
         NEW from \in [Pair -> Pair], NEW let \in [Pair -> BOOLEAN],
         Stems(Range(b.dataPolicies), Range(i.dataPolicies), from, let),
         NEW pair \in Pair, NEW facts, NEW ctx,
         DataVerdict(PoliciesFor(b, pair[1], pair[2]), facts, ctx).allowed
  PROVE  /\ \E p \in Range(PoliciesFor(i, from[pair][1], from[pair][2])) :
              p.effect = "allow" /\ PolicyMatch(p, facts, ctx) = "true"
         /\ \A p \in Range(PoliciesFor(i, from[pair][1], from[pair][2])) :
              LetsPass(p, facts, ctx) \/ Taken(p, Range(i.dataPolicies))
         /\ let[pair]
         /\ \A p \in Range(PoliciesFor(i, pair[1], pair[2])) :
              p.effect = "deny" => PolicyMatch(p, facts, ctx) = "false"
<1> DEFINE mine == PoliciesFor(b, pair[1], pair[2])
           base == from[pair]
           theirs == PoliciesFor(i, base[1], base[2])
           own == PoliciesFor(i, pair[1], pair[2])
           present == Range(b.dataPolicies)
           policies == Range(i.dataPolicies)
           Answer(p) == PolicyMatch(p, facts, ctx)
<1>1. /\ base \in Pair /\ base = <<base[1], base[2]>>
      /\ pair = <<pair[1], pair[2]>>
  BY PairParts
<1>2. /\ \A p : p \in Range(mine) <=> p \in present /\ PairOf(p) = pair
      /\ \A p : p \in Range(theirs) <=> p \in policies /\ PairOf(p) = base
      /\ \A p : p \in Range(own) <=> p \in policies /\ PairOf(p) = pair
  <2> HIDE DEF base
  <2> QED BY <1>1, PolicyEntries
<1>3. /\ \A c \in Range(mine) : Answer(c) # "error" /\ (c.effect = "deny" => Answer(c) # "true")
      /\ \E c \in Range(mine) : c.effect = "allow" /\ Answer(c) = "true"
  BY DataVerdictAllows DEF Range
<1>4. \A p \in policies : p.effect \in {"allow", "deny"} /\ Answer(p) \in {"true", "false", "error"}
  BY PolicyAnswers DEF Effects, Answers
<1>5. \A c, p : From(c, p) => c.effect = p.effect /\ Answer(c) = Answer(p)
  BY SameContentSameAnswer
<1> HIDE DEF mine, base, theirs, own, present, policies, Answer
<1>6. PICK c \in present : PairOf(c) = pair /\ c.effect = "allow" /\ Answer(c) = "true"
  BY <1>2, <1>3
<1>7. let[pair] /\ \E p \in policies : PairOf(p) = base /\ From(c, p)
  BY <1>6 DEF Stems, present, policies, base
<1>8. \E p \in Range(theirs) : p.effect = "allow" /\ Answer(p) = "true"
  BY <1>2, <1>5, <1>6, <1>7
<1>9. ASSUME NEW p \in Range(theirs), ~Taken(p, policies)
      PROVE  LetsPass(p, facts, ctx)
  <2>1. p \in policies /\ PairOf(p) = base
    BY <1>2
  <2>2. PICK d \in present : PairOf(d) = pair /\ From(d, p)
    BY <1>7, <1>9, <2>1 DEF Stems, present, policies, base
  <2>3. Answer(d) # "error" /\ (d.effect = "deny" => Answer(d) # "true")
    BY <1>2, <1>3, <2>2
  <2>4. Answer(p) # "error" /\ (p.effect = "deny" => Answer(p) = "false")
    BY <1>4, <1>5, <2>1, <2>2, <2>3
  <2>5. Answer(p) = "false" \/ (p.effect = "allow" /\ Answer(p) = "true")
    BY <1>4, <2>1, <2>4
  <2> QED
    BY <2>5 DEF LetsPass, Answer
<1>10. ASSUME NEW p \in Range(own), p.effect = "deny" PROVE Answer(p) = "false"
  <2>1. p \in policies /\ PairOf(p) = pair
    BY <1>2
  <2>2. p \in present
    BY <1>10, <2>1 DEF Stems, present, policies
  <2> QED
    BY <1>2, <1>3, <1>4, <1>10, <2>1, <2>2
<1> QED
  BY <1>7, <1>8, <1>9, <1>10 DEF theirs, base, own, policies, Answer

\* VisibleOnlyThroughScopes follows from the policies' origins.
LEMMA ScopedHere == TypeOK /\ Governed => VisibleOnlyThroughScopes
<1> SUFFICES ASSUME TypeOK, Governed, ValidBundle(issued, 0),
                    NEW pair \in Pair, NEW record \in Record, NEW claims \in BusinessClaims,
                    DataVisible(bundle, pair, record, claims)
             PROVE  LET ctx == Context(issued, claims)
                    IN /\ admitted[pair]
                       /\ \E p \in PoliciesOf(origin[pair]) : p.effect = "allow" /\ PolicyMatch(p, record, ctx) = "true"
                       /\ \A p \in PoliciesOf(pair) : p.effect = "deny" => PolicyMatch(p, record, ctx) = "false"
                       /\ \A p \in PoliciesOf(origin[pair]) : LetsPass(p, record, ctx) \/ KeyTaken(p)
  BY DEF VisibleOnlyThroughScopes
<1>1. /\ BundleShape(bundle) /\ BundleShape(issued) /\ ValidDataPolicies(issued)
      /\ origin \in [Pair -> Pair] /\ admitted \in [Pair -> BOOLEAN]
      /\ Stems(Range(bundle.dataPolicies), Range(issued.dataPolicies), origin, admitted)
  BY RequestAssumption DEF TypeOK, Governed, ValidBundle
<1>2. Context(bundle, claims) = Context(issued, claims)
  BY DEF Governed, Context
<1> DEFINE ctx == Context(issued, claims)
<1>3. DataVerdict(PoliciesFor(bundle, pair[1], pair[2]), record, ctx).allowed
  BY <1>2 DEF DataVisible
<1> HIDE DEF ctx
<1>4. /\ admitted[pair]
      /\ \E p \in Range(PoliciesFor(issued, origin[pair][1], origin[pair][2])) :
           p.effect = "allow" /\ PolicyMatch(p, record, ctx) = "true"
      /\ \A p \in Range(PoliciesFor(issued, origin[pair][1], origin[pair][2])) :
           LetsPass(p, record, ctx) \/ Taken(p, Range(issued.dataPolicies))
      /\ \A p \in Range(PoliciesFor(issued, pair[1], pair[2])) :
           p.effect = "deny" => PolicyMatch(p, record, ctx) = "false"
  BY <1>1, <1>3, VisibleThroughOrigin
<1> QED
  BY <1>4 DEF PoliciesOf, KeyTaken, Taken, ctx

\* However restrictions and derivations are chained, over any number of steps, a
\* record stays visible only through the pair whose policies were projected, within
\* the scopes of every restriction and past every deny that was issued.
THEOREM VisibilityStaysScoped == Spec => []VisibleOnlyThroughScopes
BY ScopedHere, TypeCorrect, GovernedAlways, PTL

-----------------------------------------------------------------------------
(* Mirror images and canonical forms of predicates *)

\* One level of each recursion, of the values at the parts.
CanonicalStep(p, all, any, not) ==
  [p EXCEPT !.value = CanonicalValue(p), !.all = Ordered(all), !.any = Ordered(any), !.not = not]

MirrorStep(p, all, any, not) ==
  [p EXCEPT !.all = Reversed(all), !.any = Reversed(any), !.not = not]

Unfold(p, f) ==
  [canonical |-> CanonicalStep(p, [i \in DOMAIN p.all |-> f[p.all[i]].canonical],
                   [i \in DOMAIN p.any |-> f[p.any[i]].canonical], [i \in DOMAIN p.not |-> f[p.not[i]].canonical]),
   mirrored |-> MirrorStep(p, [i \in DOMAIN p.all |-> f[p.all[i]].mirrored],
                   [i \in DOMAIN p.any |-> f[p.any[i]].mirrored], [i \in DOMAIN p.not |-> f[p.not[i]].mirrored])]

\* The recursions over predicates have a solution.
LEMMA UnfoldingExists == \E f : f = [p \in Predicate |-> Unfold(p, f)]
<1> DEFINE Solves(A, f) == A \subseteq Predicate /\ \A p \in A : Parts(p) \subseteq A /\ f[p] = Unfold(p, f)
           At(p, v) == \E A, f : Solves(A, f) /\ p \in A /\ f[p] = v
           F == [p \in Predicate |-> CHOOSE v : At(p, v)]
           D == {p \in Predicate : \E A, f : Solves(A, f) /\ p \in A}
<1>1. ASSUME NEW p \in Predicate, NEW f, NEW g, \A q \in Parts(p) : f[q] = g[q]
      PROVE  Unfold(p, f) = Unfold(p, g)
  <2>1. /\ \A i \in DOMAIN p.all : f[p.all[i]] = g[p.all[i]]
        /\ \A i \in DOMAIN p.any : f[p.any[i]] = g[p.any[i]]
        /\ \A i \in DOMAIN p.not : f[p.not[i]] = g[p.not[i]]
    BY <1>1, PartsArePredicates
  <2>2. /\ [i \in DOMAIN p.all |-> f[p.all[i]].canonical] = [i \in DOMAIN p.all |-> g[p.all[i]].canonical]
        /\ [i \in DOMAIN p.any |-> f[p.any[i]].canonical] = [i \in DOMAIN p.any |-> g[p.any[i]].canonical]
        /\ [i \in DOMAIN p.not |-> f[p.not[i]].canonical] = [i \in DOMAIN p.not |-> g[p.not[i]].canonical]
        /\ [i \in DOMAIN p.all |-> f[p.all[i]].mirrored] = [i \in DOMAIN p.all |-> g[p.all[i]].mirrored]
        /\ [i \in DOMAIN p.any |-> f[p.any[i]].mirrored] = [i \in DOMAIN p.any |-> g[p.any[i]].mirrored]
        /\ [i \in DOMAIN p.not |-> f[p.not[i]].mirrored] = [i \in DOMAIN p.not |-> g[p.not[i]].mirrored]
    BY <2>1
  <2> QED
    BY <2>2, Zenon DEF Unfold
<1>2. ASSUME NEW A, NEW B, NEW f, NEW g, Solves(A, f), Solves(B, g), NEW p \in A \intersect B
      PROVE  f[p] = g[p]
  <2> DEFINE T == {q \in A \intersect B : f[q] # g[q]}
  <2>1. SUFFICES ASSUME T # {} PROVE FALSE
    OBVIOUS
  <2>2. T \subseteq Predicate
    BY <1>2
  <2>3. PICK q \in T : \A r \in Parts(q) : r \notin T
    <3> HIDE DEF T
    <3> QED BY <2>1, <2>2, MinimalPredicate
  <2>4. \A r \in Parts(q) : f[r] = g[r]
    BY <1>2, <2>3
  <2>5. Unfold(q, f) = Unfold(q, g)
    BY <1>1, <2>2, <2>4
  <2> QED
    BY <1>2, <2>5
<1>3. ASSUME NEW A, NEW f, Solves(A, f), NEW p \in A
      PROVE  p \in D /\ F[p] = f[p]
  <2>1. At(p, f[p]) /\ p \in Predicate
    BY <1>3
  <2>2. At(p, F[p])
    <3> HIDE DEF At
    <3> QED BY <2>1
  <2>3. PICK B, g : Solves(B, g) /\ p \in B /\ g[p] = F[p]
    <3> HIDE DEF F, Solves
    <3> QED BY <2>2
  <2>4. g[p] = f[p]
    <3> HIDE DEF F, Solves
    <3> QED BY <1>2, <1>3, <2>3
  <2> QED
    BY <1>3, <2>1, <2>3, <2>4
<1>4. Solves(D, F)
  <2>1. ASSUME NEW p \in D PROVE Parts(p) \subseteq D /\ F[p] = Unfold(p, F)
    <3>1. PICK A, f : Solves(A, f) /\ p \in A
      BY <2>1
    <3>2. Parts(p) \subseteq A /\ f[p] = Unfold(p, f)
      BY <3>1
    <3>3. Parts(p) \subseteq D /\ F[p] = f[p] /\ \A q \in Parts(p) : F[q] = f[q]
      <4> HIDE DEF D, F, Solves
      <4> QED BY <1>3, <3>1, <3>2
    <3>4. Unfold(p, F) = Unfold(p, f)
      <4> HIDE DEF F
      <4> QED BY <1>1, <2>1, <3>3
    <3> QED
      BY <3>2, <3>3, <3>4
  <2> QED
    BY <2>1
<1>5. D = Predicate
  <2>1. SUFFICES ASSUME Predicate \ D # {} PROVE FALSE
    OBVIOUS
  <2>2. PICK p \in Predicate \ D : \A q \in Parts(p) : q \notin Predicate \ D
    <3> HIDE DEF D
    <3> QED BY <2>1, MinimalPredicate
  <2>3. Parts(p) \subseteq D
    BY <2>2, PartsArePredicates
  <2> DEFINE G == [F EXCEPT ![p] = Unfold(p, F)]
             B == D \union {p}
  <2>4. G[p] = Unfold(p, F) /\ \A q \in D : G[q] = F[q]
    BY <2>2
  <2>5. ASSUME NEW q \in B PROVE Parts(q) \subseteq B /\ G[q] = Unfold(q, G)
    <3>1. Parts(q) \subseteq D /\ G[q] = Unfold(q, F) /\ q \in Predicate
      <4>1. CASE q \in D
        <5> HIDE DEF F, G, D
        <5> QED BY <1>4, <2>4, <4>1
      <4>2. CASE q = p
        BY <2>2, <2>3, <2>4, <4>2
      <4> QED BY <4>1, <4>2
    <3>2. Unfold(q, F) = Unfold(q, G)
      <4>1. \A r \in Parts(q) : F[r] = G[r]
        <5> HIDE DEF F, G, D
        <5> QED BY <2>4, <3>1
      <4> HIDE DEF F, G, D
      <4> QED BY <1>1, <3>1, <4>1
    <3> QED
      BY <3>1, <3>2
  <2>6. Solves(B, G)
    <3>1. B \subseteq Predicate
      BY <2>2
    <3> HIDE DEF B, G
    <3> QED BY <2>5, <3>1
  <2>7. p \in D
    <3> HIDE DEF D, F, G, Solves
    <3> QED BY <1>3, <2>6
  <2> QED
    BY <2>2, <2>7
<1>6. F = [p \in Predicate |-> Unfold(p, F)]
  <2>1. \A p \in Predicate : F[p] = Unfold(p, F)
    <3> HIDE DEF F, D
    <3> QED BY <1>4, <1>5
  <2> HIDE DEF D
  <2> QED
    BY <2>1
<1> QED
  BY <1>6

\* canonicalPredicate, one level unfolded.
LEMMA CanonicalEquation ==
  ASSUME NEW p \in Predicate
  PROVE  CanonicalPredicate(p) =
           CanonicalStep(p, [i \in DOMAIN p.all |-> CanonicalPredicate(p.all[i])],
             [i \in DOMAIN p.any |-> CanonicalPredicate(p.any[i])], [i \in DOMAIN p.not |-> CanonicalPredicate(p.not[i])])
<1> DEFINE Body(x, f) == CanonicalStep(x, [i \in DOMAIN x.all |-> f[x.all[i]]],
                           [i \in DOMAIN x.any |-> f[x.any[i]]], [i \in DOMAIN x.not |-> f[x.not[i]]])
           G == CHOOSE f : f = [x \in Predicate |-> Body(x, f)]
<1>1. PICK both : both = [x \in Predicate |-> Unfold(x, both)]
  BY UnfoldingExists
<1> DEFINE g == [x \in Predicate |-> both[x].canonical]
<1>2. ASSUME NEW x \in Predicate PROVE g[x] = Body(x, g)
  <2>1. /\ [i \in DOMAIN x.all |-> both[x.all[i]].canonical] = [i \in DOMAIN x.all |-> g[x.all[i]]]
        /\ [i \in DOMAIN x.any |-> both[x.any[i]].canonical] = [i \in DOMAIN x.any |-> g[x.any[i]]]
        /\ [i \in DOMAIN x.not |-> both[x.not[i]].canonical] = [i \in DOMAIN x.not |-> g[x.not[i]]]
    BY PartsArePredicates
  <2>2. both[x].canonical = Unfold(x, both).canonical
    BY <1>1
  <2>3. Unfold(x, both).canonical =
          CanonicalStep(x, [i \in DOMAIN x.all |-> both[x.all[i]].canonical],
            [i \in DOMAIN x.any |-> both[x.any[i]].canonical], [i \in DOMAIN x.not |-> both[x.not[i]].canonical])
    BY Zenon DEF Unfold
  <2> QED
    BY <2>1, <2>2, <2>3
<1>3. g = [x \in Predicate |-> Body(x, g)]
  <2> DEFINE b == [x \in Predicate |-> Body(x, g)]
  <2>1. \A x \in Predicate : g[x] = b[x]
    <3> HIDE DEF Body, g
    <3> QED BY <1>2
  <2> QED
    BY <2>1
<1>4. G = [x \in Predicate |-> Body(x, G)]
  <2> HIDE DEF Body, g
  <2> QED BY <1>3
<1>5. \A x : CanonicalPredicate(x) = G[x]
  BY DEF CanonicalPredicate, CanonicalStep
<1>6. G[p] = Body(p, G)
  <2> HIDE DEF Body, G
  <2> QED BY <1>4
<1>7. /\ [i \in DOMAIN p.all |-> G[p.all[i]]] = [i \in DOMAIN p.all |-> CanonicalPredicate(p.all[i])]
      /\ [i \in DOMAIN p.any |-> G[p.any[i]]] = [i \in DOMAIN p.any |-> CanonicalPredicate(p.any[i])]
      /\ [i \in DOMAIN p.not |-> G[p.not[i]]] = [i \in DOMAIN p.not |-> CanonicalPredicate(p.not[i])]
  <2> HIDE DEF G
  <2> QED BY <1>5
<1> QED
  BY <1>5, <1>6, <1>7

\* The mirror image of a predicate, one level unfolded.
LEMMA MirrorEquation ==
  ASSUME NEW p \in Predicate
  PROVE  MirroredPredicate(p) =
           MirrorStep(p, [i \in DOMAIN p.all |-> MirroredPredicate(p.all[i])],
             [i \in DOMAIN p.any |-> MirroredPredicate(p.any[i])], [i \in DOMAIN p.not |-> MirroredPredicate(p.not[i])])
<1> DEFINE Body(x, f) == MirrorStep(x, [i \in DOMAIN x.all |-> f[x.all[i]]],
                           [i \in DOMAIN x.any |-> f[x.any[i]]], [i \in DOMAIN x.not |-> f[x.not[i]]])
           G == CHOOSE f : f = [x \in Predicate |-> Body(x, f)]
<1>1. PICK both : both = [x \in Predicate |-> Unfold(x, both)]
  BY UnfoldingExists
<1> DEFINE g == [x \in Predicate |-> both[x].mirrored]
<1>2. ASSUME NEW x \in Predicate PROVE g[x] = Body(x, g)
  <2>1. /\ [i \in DOMAIN x.all |-> both[x.all[i]].mirrored] = [i \in DOMAIN x.all |-> g[x.all[i]]]
        /\ [i \in DOMAIN x.any |-> both[x.any[i]].mirrored] = [i \in DOMAIN x.any |-> g[x.any[i]]]
        /\ [i \in DOMAIN x.not |-> both[x.not[i]].mirrored] = [i \in DOMAIN x.not |-> g[x.not[i]]]
    BY PartsArePredicates
  <2>2. both[x].mirrored = Unfold(x, both).mirrored
    BY <1>1
  <2>3. Unfold(x, both).mirrored =
          MirrorStep(x, [i \in DOMAIN x.all |-> both[x.all[i]].mirrored],
            [i \in DOMAIN x.any |-> both[x.any[i]].mirrored], [i \in DOMAIN x.not |-> both[x.not[i]].mirrored])
    BY Zenon DEF Unfold
  <2> QED
    BY <2>1, <2>2, <2>3
<1>3. g = [x \in Predicate |-> Body(x, g)]
  <2> DEFINE b == [x \in Predicate |-> Body(x, g)]
  <2>1. \A x \in Predicate : g[x] = b[x]
    <3> HIDE DEF Body, g
    <3> QED BY <1>2
  <2> QED
    BY <2>1
<1>4. G = [x \in Predicate |-> Body(x, G)]
  <2> HIDE DEF Body, g
  <2> QED BY <1>3
<1>5. \A x : MirroredPredicate(x) = G[x]
  BY DEF MirroredPredicate, MirrorStep
<1>6. G[p] = Body(p, G)
  <2> HIDE DEF Body, G
  <2> QED BY <1>4
<1>7. /\ [i \in DOMAIN p.all |-> G[p.all[i]]] = [i \in DOMAIN p.all |-> MirroredPredicate(p.all[i])]
      /\ [i \in DOMAIN p.any |-> G[p.any[i]]] = [i \in DOMAIN p.any |-> MirroredPredicate(p.any[i])]
      /\ [i \in DOMAIN p.not |-> G[p.not[i]]] = [i \in DOMAIN p.not |-> MirroredPredicate(p.not[i])]
  <2> HIDE DEF G
  <2> QED BY <1>5
<1> QED
  BY <1>5, <1>6, <1>7

-----------------------------------------------------------------------------
(* Reversed lists *)

\* A reversed list is an arrangement of the list, and finite as it is.
LEMMA ReversedArranges ==
  ASSUME NEW list, FiniteList(list)
  PROVE  FiniteList(Reversed(list)) /\ Arranged(list, Reversed(list))
<1> DEFINE n == Past(list)
           A == DOMAIN list
           B == {n - j : j \in A}
           f == [i \in B |-> n - i]
<1>1. n \in Nat \ {0} /\ A \subseteq Nat \ {0} /\ \A j \in A : j < n
  BY PastBound DEF FiniteList
<1>2. DOMAIN Reversed(list) = B /\ \A i \in B : Reversed(list)[i] = list[n - i]
  BY DEF Reversed
<1> HIDE DEF n
<1>3. \A j \in A : n - j \in B /\ n - (n - j) = j
  BY <1>1
<1>4. \A i \in B : n - i \in A /\ i \in 1..n
  BY <1>1
<1>5. /\ f \in [B -> A]
      /\ \A i, k \in B : f[i] = f[k] => i = k
      /\ \A j \in A : \E i \in B : f[i] = j
  <2>1. \A i \in B : f[i] = n - i /\ i \in Nat
    BY <1>4
  <2>2. f \in [B -> A]
    BY <1>4
  <2> HIDE DEF f, B, A
  <2> QED BY <1>1, <1>3, <2>1, <2>2
<1>6. f \in Bijection(B, A) /\ \A i \in B : Reversed(list)[i] = list[f[i]]
  <2>1. \A i \in B : f[i] = n - i
    OBVIOUS
  <2> HIDE DEF f, B, A
  <2> QED BY <1>2, <1>5, <2>1, BijectionPoints
<1>7. FiniteList(Reversed(list))
  <2>1. IsFiniteSet(1..n)
    BY <1>1, FS_Interval
  <2>2. B \subseteq 1..n /\ 1..n \subseteq Nat \ {0}
    BY <1>1, <1>4
  <2> HIDE DEF B
  <2> QED BY <1>2, <2>1, <2>2, FS_Subset DEF FiniteList
<1> HIDE DEF f, B
<1> QED
  BY <1>2, <1>6, <1>7 DEF Arranged

\* What sequences are, as lists.
LEMMA SequenceLists ==
  ASSUME NEW S, NEW s \in Seq(S)
  PROVE  FiniteList(s) /\ \E n \in Nat : DOMAIN s = 1..n
<1>1. PICK n \in Nat : DOMAIN s = 1..n
  <2>1. DOMAIN s = 1..Len(s) /\ Len(s) \in Nat
    OBVIOUS
  <2> QED BY <2>1
<1>2. IsFiniteSet(1..n) /\ 1..n \subseteq Nat \ {0}
  BY FS_Interval
<1> QED
  BY <1>1, <1>2 DEF FiniteList

\* A reversed sequence has the same positions.
LEMMA ReversedPositions ==
  ASSUME NEW list, NEW n \in Nat, DOMAIN list = 1..n
  PROVE  DOMAIN Reversed(list) = 1..n /\ IsList(Reversed(list))
<1> DEFINE U == UNION {1..i : i \in 1..n}
<1>1. U = 1..n
  <2>1. ASSUME NEW j \in 1..n PROVE j \in U
    <3>1. j \in 1..j
      OBVIOUS
    <3> QED BY <3>1
  <2>2. U \subseteq 1..n
    OBVIOUS
  <2> HIDE DEF U
  <2> QED BY <2>1, <2>2
<1>2. Cardinality(1..n) = n
  BY FS_Interval
<1>3. Past(list) = n + 1
  <2>1. Past(list) = 1 + Cardinality(U)
    BY DEF Past
  <2> HIDE DEF U
  <2> QED BY <1>1, <1>2, <2>1
<1>4. {(n + 1) - j : j \in 1..n} = 1..n
  <2>1. ASSUME NEW k \in 1..n PROVE k \in {(n + 1) - j : j \in 1..n}
    <3>1. (n + 1) - k \in 1..n /\ (n + 1) - ((n + 1) - k) = k
      OBVIOUS
    <3> QED BY <3>1
  <2>2. \A j \in 1..n : (n + 1) - j \in 1..n
    OBVIOUS
  <2> QED BY <2>1, <2>2
<1>5. Reversed(list) = [i \in 1..n |-> list[(n + 1) - i]]
  BY <1>3, <1>4 DEF Reversed
<1> QED
  BY <1>5 DEF IsList

-----------------------------------------------------------------------------
(* The mirror image of a predicate *)

MirroredEach(list) == [i \in DOMAIN list |-> MirroredPredicate(list[i])]

\* The mirror image, field by field.
LEMMA MirrorFields ==
  ASSUME NEW p \in Predicate
  PROVE  LET m == MirroredPredicate(p) IN
         /\ m \in Predicate
         /\ m.fact = p.fact /\ m.operator = p.operator /\ m.value = p.value /\ m.path = p.path
         /\ m.all = Reversed(MirroredEach(p.all)) /\ m.any = Reversed(MirroredEach(p.any))
         /\ m.not = MirroredEach(p.not)
<1> DEFINE m == MirroredPredicate(p)
<1>1. m = MirrorStep(p, MirroredEach(p.all), MirroredEach(p.any), MirroredEach(p.not))
  BY MirrorEquation DEF MirroredEach
<1>2. DOMAIN p = PredicateFields
  BY PredicateAssumption, ZeroFields
<1>3. \A x, y, z :
        LET r == MirrorStep(p, x, y, z) IN
        /\ r.fact = p.fact /\ r.operator = p.operator /\ r.value = p.value /\ r.path = p.path
        /\ r.all = Reversed(x) /\ r.any = Reversed(y) /\ r.not = z
  BY <1>2 DEF MirrorStep, PredicateFields
<1>4. m \in Predicate
  BY MirrorAssumption
<1> HIDE DEF m
<1> QED
  BY <1>1, <1>3, <1>4 DEF m

\* A list and its mirror image have entries of one another.
MirrorsList(s, t) ==
  /\ t = <<>> <=> s = <<>>
  /\ DOMAIN t = DOMAIN s /\ \E n \in Nat : DOMAIN s = 1..n
  /\ \E f \in Bijection(DOMAIN t, DOMAIN s) : \A i \in DOMAIN t : t[i] = MirroredPredicate(s[f[i]])

\* Two empty lists are one.
LEMMA EmptyLists ==
  ASSUME NEW s, IsList(s)
  PROVE  s = <<>> <=> DOMAIN s = {}
BY DEF IsList

\* The lists of a mirror image mirror those of the predicate.
LEMMA MirrorLists ==
  ASSUME NEW p \in Predicate
  PROVE  LET m == MirroredPredicate(p) IN
         MirrorsList(p.all, m.all) /\ MirrorsList(p.any, m.any) /\ MirrorsList(p.not, m.not)
<1> DEFINE m == MirroredPredicate(p)
<1>1. ASSUME NEW s \in Seq(Predicate)
      PROVE  /\ MirrorsList(s, Reversed(MirroredEach(s)))
             /\ MirrorsList(s, MirroredEach(s))
  <2> DEFINE e == MirroredEach(s)
  <2>1. PICK n \in Nat : DOMAIN s = 1..n
    BY SequenceLists
  <2>2. DOMAIN e = 1..n /\ (\A i \in 1..n : e[i] = MirroredPredicate(s[i])) /\ IsList(e)
    BY <2>1 DEF MirroredEach, IsList
  <2>3. IsList(s)
    BY <2>1 DEF IsList
  <2>4. FiniteList(e)
    <3>1. IsFiniteSet(1..n) /\ 1..n \subseteq Nat \ {0}
      BY FS_Interval
    <3> HIDE DEF e
    <3> QED BY <2>2, <3>1 DEF FiniteList
  <2> HIDE DEF e
  <2>5. DOMAIN Reversed(e) = 1..n /\ IsList(Reversed(e))
    BY <2>2, ReversedPositions
  <2>6. PICK f \in Bijection(DOMAIN Reversed(e), DOMAIN e) : \A i \in DOMAIN Reversed(e) : Reversed(e)[i] = e[f[i]]
    BY <2>4, ReversedArranges DEF Arranged
  <2>7. \A i \in 1..n : Reversed(e)[i] = MirroredPredicate(s[f[i]])
    <3>1. \A i \in 1..n : f[i] \in 1..n
      <4> DEFINE S == 1..n
      <4>1. f \in Bijection(S, S)
        BY <2>2, <2>5, <2>6
      <4> HIDE DEF S
      <4>2. \A i \in S : f[i] \in S
        BY <4>1, BijectionPoints
      <4> QED BY <4>2 DEF S
    <3> QED BY <2>2, <2>5, <2>6, <3>1
  <2>8. MirrorsList(s, Reversed(e))
    <3>1. Reversed(e) = <<>> <=> s = <<>>
      BY <2>1, <2>3, <2>5, EmptyLists
    <3> DEFINE S == 1..n
    <3>2. DOMAIN Reversed(e) = S /\ DOMAIN s = S /\ f \in Bijection(S, S) /\ \A i \in S : Reversed(e)[i] = MirroredPredicate(s[f[i]])
      BY <2>1, <2>2, <2>5, <2>6, <2>7
    <3> HIDE DEF S
    <3> QED BY <2>1, <3>1, <3>2, Zenon DEF MirrorsList
  <2>9. MirrorsList(s, e)
    <3>1. e = <<>> <=> s = <<>>
      BY <2>1, <2>2, <2>3, EmptyLists
    <3> DEFINE S == 1..n
               g == [i \in S |-> i]
    <3>2. DOMAIN e = S /\ DOMAIN s = S /\ \A i \in S : e[i] = MirroredPredicate(s[g[i]])
      BY <2>1, <2>2
    <3> HIDE DEF S
    <3>3. g \in Bijection(S, S)
      <4>1. g \in [S -> S] /\ \A i \in S : g[i] = i
        OBVIOUS
      <4> HIDE DEF g
      <4> QED BY <4>1, BijectionPoints
    <3> HIDE DEF g
    <3> QED BY <2>1, <3>1, <3>2, <3>3, Zenon DEF MirrorsList
  <2> QED
    BY <2>8, <2>9 DEF e
<1>2. /\ m.all = Reversed(MirroredEach(p.all)) /\ m.any = Reversed(MirroredEach(p.any))
      /\ m.not = MirroredEach(p.not)
  BY MirrorFields
<1>3. p.all \in Seq(Predicate) /\ p.any \in Seq(Predicate) /\ p.not \in Seq(Predicate)
  BY PartsArePredicates
<1> HIDE DEF m
<1> QED
  BY <1>1, <1>2, <1>3 DEF m

\* A mirrored list has the mirror images of the list's entries.
LEMMA MirrorEntries ==
  ASSUME NEW s, NEW t, MirrorsList(s, t)
  PROVE  /\ \A i \in DOMAIN t : \E j \in DOMAIN s : t[i] = MirroredPredicate(s[j])
         /\ \A j \in DOMAIN s : \E i \in DOMAIN t : t[i] = MirroredPredicate(s[j])
         /\ Range(t) = {MirroredPredicate(q) : q \in Range(s)}
<1>1. PICK f \in Bijection(DOMAIN t, DOMAIN s) : \A i \in DOMAIN t : t[i] = MirroredPredicate(s[f[i]])
  BY DEF MirrorsList
<1>2. /\ \A i \in DOMAIN t : f[i] \in DOMAIN s
      /\ \A j \in DOMAIN s : \E i \in DOMAIN t : f[i] = j
  BY BijectionPoints
<1>3. /\ \A i \in DOMAIN t : \E j \in DOMAIN s : t[i] = MirroredPredicate(s[j])
      /\ \A j \in DOMAIN s : \E i \in DOMAIN t : t[i] = MirroredPredicate(s[j])
  BY <1>1, <1>2
<1> QED
  BY <1>3 DEF Range

\* The parts of a mirror image are the mirror images of the parts.
LEMMA MirrorParts ==
  ASSUME NEW p \in Predicate
  PROVE  Parts(MirroredPredicate(p)) = {MirroredPredicate(q) : q \in Parts(p)}
<1> DEFINE m == MirroredPredicate(p)
<1>1. /\ Range(m.all) = {MirroredPredicate(q) : q \in Range(p.all)}
      /\ Range(m.any) = {MirroredPredicate(q) : q \in Range(p.any)}
      /\ Range(m.not) = {MirroredPredicate(q) : q \in Range(p.not)}
  BY MirrorLists, MirrorEntries
<1> HIDE DEF m
<1> QED
  BY <1>1 DEF Parts, m

\* A mirror image is valid if the predicate is.
LEMMA MirrorValid ==
  \A p \in Predicate : ValidPredicate[MirroredPredicate(p)] <=> ValidPredicate[p]
<1> DEFINE T == {p \in Predicate : ~(ValidPredicate[MirroredPredicate(p)] <=> ValidPredicate[p])}
<1>1. SUFFICES ASSUME T # {} PROVE FALSE
  OBVIOUS
<1>2. PICK p \in T : \A q \in Parts(p) : q \notin T
  <2>1. T \subseteq Predicate
    OBVIOUS
  <2> HIDE DEF T
  <2> QED BY <1>1, <2>1, MinimalPredicate
<1> DEFINE m == MirroredPredicate(p)
<1>3. p \in Predicate /\ m \in Predicate
  BY MirrorAssumption
<1>4. \A q \in Parts(p) : ValidPredicate[MirroredPredicate(q)] <=> ValidPredicate[q]
  BY <1>2, <1>3, PartsArePredicates
<1>5. Parts(m) = {MirroredPredicate(q) : q \in Parts(p)}
  BY <1>3, MirrorParts
<1>6. /\ m.fact = p.fact /\ m.operator = p.operator /\ m.path = p.path
      /\ m.all = <<>> <=> p.all = <<>>
      /\ m.any = <<>> <=> p.any = <<>>
      /\ m.not = <<>> <=> p.not = <<>>
  BY <1>3, MirrorFields, MirrorLists DEF MirrorsList
<1> HIDE DEF m
<1>7. HasLeaf(m) <=> HasLeaf(p)
  BY <1>6, BranchesOf
<1>8. Branches(m) = Branches(p)
  <2>1. \A b \in {"leaf", "all", "any", "not"} : b \in Branches(m) <=> b \in Branches(p)
    BY <1>6, <1>7, BranchesOf
  <2>2. Branches(m) \subseteq {"leaf", "all", "any", "not"} /\ Branches(p) \subseteq {"leaf", "all", "any", "not"}
    BY BranchesOf
  <2> QED BY <2>1, <2>2
<1>9. WellFormed(m) <=> WellFormed(p)
  BY <1>6, <1>7, <1>8 DEF WellFormed
<1>10. ValidPredicate[m] <=> ValidPredicate[p]
  BY <1>3, <1>4, <1>5, <1>9, ValidEquation
<1> QED
  BY <1>2, <1>10 DEF m

CanonicalEach(list) == [i \in DOMAIN list |-> CanonicalPredicate(list[i])]

\* Sorting forgets that a list was mirrored, if its entries do.
LEMMA MirroredSort ==
  ASSUME NEW s, NEW t, MirrorsList(s, t),
         \A i \in DOMAIN s : CanonicalPredicate(MirroredPredicate(s[i])) = CanonicalPredicate(s[i])
  PROVE  Ordered(CanonicalEach(t)) = Ordered(CanonicalEach(s))
<1> DEFINE a == CanonicalEach(s)
           b == CanonicalEach(t)
<1>1. PICK f \in Bijection(DOMAIN t, DOMAIN s) : \A i \in DOMAIN t : t[i] = MirroredPredicate(s[f[i]])
  BY DEF MirrorsList
<1>2. \A i \in DOMAIN t : f[i] \in DOMAIN s
  BY BijectionPoints
<1>3. /\ DOMAIN a = DOMAIN s /\ \A i \in DOMAIN s : a[i] = CanonicalPredicate(s[i])
      /\ DOMAIN b = DOMAIN t /\ \A i \in DOMAIN t : b[i] = CanonicalPredicate(t[i])
  BY DEF CanonicalEach
<1>4. IsList(a) /\ IsList(b)
  BY DEF IsList, CanonicalEach, MirrorsList
<1> HIDE DEF a, b
<1>5. \A i \in DOMAIN t : b[i] = a[f[i]]
  BY <1>1, <1>2, <1>3
<1>6. Arranged(a, b)
  BY <1>3, <1>5 DEF Arranged
<1> QED
  BY <1>4, <1>6, OrderedArranged DEF a, b

\* The canonical form of a predicate is that of its mirror image.
LEMMA MirrorCanonical ==
  \A p \in Predicate : CanonicalPredicate(MirroredPredicate(p)) = CanonicalPredicate(p)
<1> DEFINE T == {p \in Predicate : CanonicalPredicate(MirroredPredicate(p)) # CanonicalPredicate(p)}
<1>1. SUFFICES ASSUME T # {} PROVE FALSE
  OBVIOUS
<1>2. PICK p \in T : \A q \in Parts(p) : q \notin T
  <2>1. T \subseteq Predicate
    OBVIOUS
  <2> HIDE DEF T
  <2> QED BY <1>1, <2>1, MinimalPredicate
<1> DEFINE m == MirroredPredicate(p)
<1>3. p \in Predicate /\ m \in Predicate
  BY MirrorAssumption
<1>4. \A q \in Parts(p) : CanonicalPredicate(MirroredPredicate(q)) = CanonicalPredicate(q)
  BY <1>2, <1>3, PartsArePredicates
<1>5. \A list \in {p.all, p.any, p.not} : \A i \in DOMAIN list :
        CanonicalPredicate(MirroredPredicate(list[i])) = CanonicalPredicate(list[i])
  BY <1>3, <1>4, PartsArePredicates
<1>6. /\ Ordered(CanonicalEach(m.all)) = Ordered(CanonicalEach(p.all))
      /\ Ordered(CanonicalEach(m.any)) = Ordered(CanonicalEach(p.any))
  BY <1>3, <1>5, MirrorLists, MirroredSort
<1>7. CanonicalEach(m.not) = CanonicalEach(p.not)
  <2>1. m.not = MirroredEach(p.not)
    BY <1>3, MirrorFields
  <2>2. DOMAIN m.not = DOMAIN p.not /\ \A i \in DOMAIN p.not : m.not[i] = MirroredPredicate(p.not[i])
    BY <2>1 DEF MirroredEach
  <2> HIDE DEF m
  <2> QED BY <1>5, <2>2 DEF CanonicalEach
<1>8. /\ m.fact = p.fact /\ m.operator = p.operator /\ m.value = p.value /\ m.path = p.path
      /\ DOMAIN m = PredicateFields /\ DOMAIN p = PredicateFields
  BY <1>3, MirrorFields, PredicateAssumption, ZeroFields
<1>9. \A x \in Predicate : CanonicalPredicate(x) =
        CanonicalStep(x, CanonicalEach(x.all), CanonicalEach(x.any), CanonicalEach(x.not))
  BY CanonicalEquation DEF CanonicalEach
<1>10. CanonicalValue(m) = CanonicalValue(p)
  BY <1>8 DEF CanonicalValue
<1> HIDE DEF m
<1>11. ASSUME NEW x, DOMAIN x = PredicateFields
       PROVE  \A a, b, c :
         CanonicalStep(x, a, b, c) =
           [y \in PredicateFields |-> IF y = "value" THEN CanonicalValue(x) ELSE IF y = "all" THEN Ordered(a)
                                      ELSE IF y = "any" THEN Ordered(b) ELSE IF y = "not" THEN c ELSE x[y]]
  BY <1>11 DEF CanonicalStep
<1>12. \A y \in PredicateFields : y \in {"value", "all", "any", "not"} \/ m[y] = p[y]
  BY <1>8 DEF PredicateFields
<1>13. CanonicalStep(m, CanonicalEach(m.all), CanonicalEach(m.any), CanonicalEach(m.not))
         = CanonicalStep(p, CanonicalEach(p.all), CanonicalEach(p.any), CanonicalEach(p.not))
  <2> DEFINE V(x) == [y \in PredicateFields |->
                        IF y = "value" THEN CanonicalValue(x) ELSE IF y = "all" THEN Ordered(CanonicalEach(x.all))
                        ELSE IF y = "any" THEN Ordered(CanonicalEach(x.any))
                        ELSE IF y = "not" THEN CanonicalEach(x.not) ELSE x[y]]
  <2>1. \A y \in PredicateFields : V(m)[y] = V(p)[y]
    BY <1>6, <1>7, <1>10, <1>12
  <2>2. V(m) = V(p)
    BY <2>1
  <2>3. /\ CanonicalStep(m, CanonicalEach(m.all), CanonicalEach(m.any), CanonicalEach(m.not)) = V(m)
        /\ CanonicalStep(p, CanonicalEach(p.all), CanonicalEach(p.any), CanonicalEach(p.not)) = V(p)
    BY <1>8, <1>11
  <2> QED BY <2>2, <2>3
<1>14. CanonicalPredicate(m) = CanonicalPredicate(p)
  BY <1>3, <1>9, <1>13
<1> QED
  BY <1>2, <1>14 DEF m

-----------------------------------------------------------------------------
(* What the evaluator answers to a mirror image *)

\* Two answers agree unless one of them is an error.
Agree(x, y) == x = y \/ x = "error" \/ y = "error"

\* Answers of a list and of its mirror image.
AgreeingLists(v, w) ==
  /\ \A i \in DOMAIN v : \E j \in DOMAIN w : Agree(v[i], w[j])
  /\ \A j \in DOMAIN w : \E i \in DOMAIN v : Agree(v[i], w[j])

\* A loop over agreeing answers answers alike, in whatever order.
LEMMA LoopsAgree ==
  ASSUME NEW v, NEW w, DOMAIN v \subseteq Nat, DOMAIN w \subseteq Nat, AgreeingLists(v, w),
         \A i \in DOMAIN v : v[i] \in Answers, \A j \in DOMAIN w : w[j] \in Answers,
         NEW onward \in {"true", "false"}
  PROVE  Agree(Loop(v, onward), Loop(w, onward))
<1>1. \/ (\A i \in DOMAIN v : v[i] = onward) /\ Loop(v, onward) = onward
      \/ \E i \in DOMAIN v : v[i] # onward /\ Loop(v, onward) = v[i]
  BY LoopAnswers
<1>2. \/ (\A j \in DOMAIN w : w[j] = onward) /\ Loop(w, onward) = onward
      \/ \E j \in DOMAIN w : w[j] # onward /\ Loop(w, onward) = w[j]
  BY LoopAnswers
<1>3. onward # "error"
  OBVIOUS
<1>4. CASE (\A i \in DOMAIN v : v[i] = onward) /\ Loop(v, onward) = onward
  BY <1>2, <1>3, <1>4 DEF Agree, AgreeingLists
<1>5. CASE (\A j \in DOMAIN w : w[j] = onward) /\ Loop(w, onward) = onward
  BY <1>1, <1>3, <1>5 DEF Agree, AgreeingLists
<1>6. ASSUME NEW i \in DOMAIN v, v[i] # onward, NEW j \in DOMAIN w, w[j] # onward
      PROVE  Agree(v[i], w[j])
  BY <1>6 DEF Agree, Answers
<1> QED
  BY <1>1, <1>2, <1>4, <1>5, <1>6

\* The evaluator answers a valid predicate and its mirror image alike, unless it
\* answers one of them with an error.
LEMMA MirrorAgrees ==
  ASSUME NEW facts, NEW ctx
  PROVE  \A p \in Predicate :
           Agree(EvaluatePredicate(p, facts, ctx), EvaluatePredicate(MirroredPredicate(p), facts, ctx))
<1> DEFINE E(p) == EvaluatePredicate(p, facts, ctx)
           T == {p \in Predicate : ~Agree(E(p), E(MirroredPredicate(p)))}
<1>1. SUFFICES ASSUME T # {} PROVE FALSE
  OBVIOUS
<1> HIDE DEF E
<1>2. PICK p \in T : \A q \in Parts(p) : q \notin T
  <2>1. T \subseteq Predicate
    OBVIOUS
  <2> HIDE DEF T
  <2> QED BY <1>1, <2>1, MinimalPredicate
<1> DEFINE m == MirroredPredicate(p)
<1>3. p \in Predicate /\ m \in Predicate
  BY MirrorAssumption
<1>4. \A q \in Parts(p) : Agree(E(q), E(MirroredPredicate(q)))
  BY <1>2, <1>3, PartsArePredicates
<1>5. E(p) = Evaluation(p, facts, ctx) /\ E(m) = Evaluation(m, facts, ctx)
  BY <1>3, EvaluationEquation DEF E
<1>6. ValidPredicate[m] <=> ValidPredicate[p]
  BY <1>3, MirrorValid
<1>7. CASE ~ValidPredicate[p]
  BY <1>2, <1>5, <1>6, <1>7 DEF Evaluation, Agree
<1>8. CASE ValidPredicate[p]
  <2>1. /\ m.fact = p.fact /\ m.operator = p.operator /\ m.value = p.value /\ m.path = p.path
        /\ MirrorsList(p.all, m.all) /\ MirrorsList(p.any, m.any) /\ MirrorsList(p.not, m.not)
    BY <1>3, MirrorFields, MirrorLists
  <2>2. \A x \in {p, m} : \A list \in {x.all, x.any, x.not} : \A i \in DOMAIN list :
          list[i] \in Parts(x) /\ i \in Nat /\ E(list[i]) \in Answers
    <3>1. \A x \in {p, m} : x \in Predicate /\ ValidPredicate[x]
      BY <1>3, <1>6, <1>8
    <3>2. \A x \in {p, m} : \A q \in Parts(x) : E(q) \in Answers
      BY <3>1, ValidEquation, PartsArePredicates, AnswersKnown DEF E
    <3> QED
      BY <3>1, <3>2, PartsArePredicates
  <2>3. ASSUME NEW s \in {p.all, p.any, p.not}, NEW t \in {m.all, m.any, m.not}, MirrorsList(s, t),
               NEW onward \in {"true", "false"}
        PROVE  Agree(Loop([i \in DOMAIN s |-> E(s[i])], onward), Loop([i \in DOMAIN t |-> E(t[i])], onward))
    <3> DEFINE v == [i \in DOMAIN s |-> E(s[i])]
               w == [i \in DOMAIN t |-> E(t[i])]
    <3>1. \A i \in DOMAIN s : Agree(E(s[i]), E(MirroredPredicate(s[i])))
      BY <1>4, <2>2
    <3>2. /\ \A i \in DOMAIN t : \E j \in DOMAIN s : t[i] = MirroredPredicate(s[j])
          /\ \A j \in DOMAIN s : \E i \in DOMAIN t : t[i] = MirroredPredicate(s[j])
      BY <2>3, MirrorEntries
    <3>3. AgreeingLists(v, w)
      <4> HIDE DEF m
      <4> QED BY <3>1, <3>2 DEF AgreeingLists
    <3>4. /\ DOMAIN v \subseteq Nat /\ DOMAIN w \subseteq Nat
          /\ \A i \in DOMAIN v : v[i] \in Answers
          /\ \A i \in DOMAIN w : w[i] \in Answers
      BY <2>2
    <3> HIDE DEF v, w
    <3>5. Agree(Loop(v, onward), Loop(w, onward))
      BY <3>3, <3>4, LoopsAgree
    <3> QED BY <3>5 DEF v, w
  <2>4. /\ m.all = <<>> <=> p.all = <<>>
        /\ m.any = <<>> <=> p.any = <<>>
        /\ m.not = <<>> <=> p.not = <<>>
    BY <2>1 DEF MirrorsList
  <2>5. p.not # <<>> => Agree(Negated(E(p.not[1])), Negated(E(m.not[1])))
    <3> SUFFICES ASSUME p.not # <<>> PROVE Agree(Negated(E(p.not[1])), Negated(E(m.not[1])))
      OBVIOUS
    <3>1. 1 \in DOMAIN p.not
      BY <1>3, PartsArePredicates
    <3>2. m.not = MirroredEach(p.not)
      BY <1>3, MirrorFields
    <3>3. m.not[1] = MirroredPredicate(p.not[1])
      BY <3>1, <3>2 DEF MirroredEach
    <3>4. Agree(E(p.not[1]), E(m.not[1]))
      <4>1. p.not[1] \in Parts(p)
        BY <1>3, <3>1, PartsArePredicates
      <4> QED BY <1>4, <3>3, <4>1
    <3> QED
      BY <3>4 DEF Agree, Negated
  <2>6. EvaluateLeaf(p, facts, ctx) = EvaluateLeaf(m, facts, ctx)
    BY <2>1 DEF EvaluateLeaf
  <2> DEFINE All(x) == Loop([i \in DOMAIN x.all |-> E(x.all[i])], "true")
             Any(x) == Loop([i \in DOMAIN x.any |-> E(x.any[i])], "false")
             Neg(x) == Negated(E(x.not[1]))
             Lf(x) == EvaluateLeaf(x, facts, ctx)
  <2>7. Agree(All(p), All(m)) /\ Agree(Any(p), Any(m))
    BY <2>1, <2>3
  <2>8. \A x : Evaluation(x, facts, ctx) =
          IF ~ValidPredicate[x] \/ x.path # <<>> THEN "error" ELSE IF x.all # <<>> THEN All(x)
          ELSE IF x.any # <<>> THEN Any(x) ELSE IF x.not # <<>> THEN Neg(x) ELSE Lf(x)
    BY DEF Evaluation, E
  <2>9. Agree(Neg(p), Neg(m)) \/ p.not = <<>>
    BY <2>5
  <2>10. Agree(Lf(p), Lf(m))
    BY <2>6 DEF Agree
  <2>11. Agree("error", "error")
    BY DEF Agree
  <2>12. Agree(E(p), E(m))
    <3> HIDE DEF m, All, Any, Neg, Lf
    <3> QED BY <1>5, <1>6, <2>1, <2>4, <2>7, <2>8, <2>9, <2>10, <2>11
  <2> QED
    BY <1>2, <2>12 DEF m
<1> QED
  BY <1>7, <1>8

-----------------------------------------------------------------------------
(* The mirror image of a bundle, entry by entry *)

\* f takes the positions of t to those of s, one to one.
Rearranges(f, t, s) ==
  /\ f \in [DOMAIN t -> DOMAIN s]
  /\ \A i, k \in DOMAIN t : f[i] = f[k] => i = k
  /\ \A j \in DOMAIN s : \E i \in DOMAIN t : f[i] = j

\* Reversing a list, each entry rewritten, rearranges it.
LEMMA ReversedBy ==
  ASSUME NEW s, NEW e, FiniteList(s), DOMAIN e = DOMAIN s
  PROVE  /\ FiniteList(Reversed(e))
         /\ \E f : Rearranges(f, Reversed(e), s) /\ \A i \in DOMAIN Reversed(e) : Reversed(e)[i] = e[f[i]]
<1>1. FiniteList(e)
  BY DEF FiniteList
<1>2. PICK f \in Bijection(DOMAIN Reversed(e), DOMAIN e) : \A i \in DOMAIN Reversed(e) : Reversed(e)[i] = e[f[i]]
  BY <1>1, ReversedArranges DEF Arranged
<1>3. Rearranges(f, Reversed(e), s)
  BY BijectionPoints DEF Rearranges
<1> QED
  BY <1>1, <1>2, <1>3, ReversedArranges

MirroredOption(optional) == [j \in DOMAIN optional |-> MirroredPredicate(optional[j])]
MirroredPolicy(p) == [p EXCEPT !.predicate = MirroredPredicate(@)]
MirroredRule(r) == [r EXCEPT !.predicate = MirroredOption(@)]
MirroredField(f) == [f EXCEPT !.rules = MirroredOptions(@)]

\* The lists of a mirrored bundle are the lists rearranged, each entry mirrored.
LEMMA MirroredBy ==
  ASSUME NEW s, FiniteList(s)
  PROVE  /\ FiniteList(MirroredPolicies(s)) /\ FiniteList(MirroredOptions(s))
         /\ \E f : /\ Rearranges(f, MirroredPolicies(s), s)
                   /\ \A i \in DOMAIN MirroredPolicies(s) : MirroredPolicies(s)[i] = MirroredPolicy(s[f[i]])
         /\ \E f : /\ Rearranges(f, MirroredOptions(s), s)
                   /\ \A i \in DOMAIN MirroredOptions(s) : MirroredOptions(s)[i] = MirroredRule(s[f[i]])
         /\ FiniteList(MirroredFields(s))
         /\ \E f : /\ Rearranges(f, MirroredFields(s), s)
                   /\ \A i \in DOMAIN MirroredFields(s) : MirroredFields(s)[i] = MirroredField(s[f[i]])
         /\ FiniteList(Reversed(s))
         /\ \E f : Rearranges(f, Reversed(s), s) /\ \A i \in DOMAIN Reversed(s) : Reversed(s)[i] = s[f[i]]
<1> DEFINE a == [i \in DOMAIN s |-> MirroredPolicy(s[i])]
           b == [i \in DOMAIN s |-> MirroredRule(s[i])]
           c == [i \in DOMAIN s |-> MirroredField(s[i])]
<1>1. MirroredPolicies(s) = Reversed(a)
  BY DEF MirroredPolicies, MirroredPolicy
<1>2. MirroredOptions(s) = Reversed(b)
  BY DEF MirroredOptions, MirroredRule, MirroredOption
<1>8. MirroredFields(s) = Reversed(c)
  BY DEF MirroredFields, MirroredField
<1>3. /\ DOMAIN a = DOMAIN s /\ \A i \in DOMAIN s : a[i] = MirroredPolicy(s[i])
      /\ DOMAIN b = DOMAIN s /\ \A i \in DOMAIN s : b[i] = MirroredRule(s[i])
      /\ DOMAIN c = DOMAIN s /\ \A i \in DOMAIN s : c[i] = MirroredField(s[i])
  OBVIOUS
<1> HIDE DEF a, b, c
<1>4. /\ FiniteList(Reversed(a))
      /\ \E f : Rearranges(f, Reversed(a), s) /\ \A i \in DOMAIN Reversed(a) : Reversed(a)[i] = MirroredPolicy(s[f[i]])
  <2>1. PICK f : Rearranges(f, Reversed(a), s) /\ \A i \in DOMAIN Reversed(a) : Reversed(a)[i] = a[f[i]]
    BY <1>3, ReversedBy
  <2>2. \A i \in DOMAIN Reversed(a) : f[i] \in DOMAIN s
    BY <2>1 DEF Rearranges
  <2> QED BY <1>3, <2>1, <2>2, ReversedBy
<1>5. /\ FiniteList(Reversed(b))
      /\ \E f : Rearranges(f, Reversed(b), s) /\ \A i \in DOMAIN Reversed(b) : Reversed(b)[i] = MirroredRule(s[f[i]])
  <2>1. PICK f : Rearranges(f, Reversed(b), s) /\ \A i \in DOMAIN Reversed(b) : Reversed(b)[i] = b[f[i]]
    BY <1>3, ReversedBy
  <2>2. \A i \in DOMAIN Reversed(b) : f[i] \in DOMAIN s
    BY <2>1 DEF Rearranges
  <2> QED BY <1>3, <2>1, <2>2, ReversedBy
<1>6. /\ FiniteList(Reversed(c))
      /\ \E f : Rearranges(f, Reversed(c), s) /\ \A i \in DOMAIN Reversed(c) : Reversed(c)[i] = MirroredField(s[f[i]])
  <2>1. PICK f : Rearranges(f, Reversed(c), s) /\ \A i \in DOMAIN Reversed(c) : Reversed(c)[i] = c[f[i]]
    BY <1>3, ReversedBy
  <2>2. \A i \in DOMAIN Reversed(c) : f[i] \in DOMAIN s
    BY <2>1 DEF Rearranges
  <2> QED BY <1>3, <2>1, <2>2, ReversedBy
<1>7. /\ FiniteList(Reversed(s))
      /\ \E f : Rearranges(f, Reversed(s), s) /\ \A i \in DOMAIN Reversed(s) : Reversed(s)[i] = s[f[i]]
  BY ReversedBy
<1> QED
  BY <1>1, <1>2, <1>4, <1>5, <1>6, <1>7, <1>8

\* A rearranged list has the same entries.
LEMMA RearrangedRange ==
  ASSUME NEW s, NEW t, NEW f, Rearranges(f, t, s), \A i \in DOMAIN t : t[i] = s[f[i]]
  PROVE  Range(t) = Range(s)
BY DEF Rearranges, Range

\* An optional predicate and its mirror image.
OptionMirrors(x, y) ==
  /\ Optional(y)
  /\ y = <<>> <=> x = <<>>
  /\ Range(x) \subseteq Predicate
  /\ Range(y) = {MirroredPredicate(p) : p \in Range(x)}
  /\ CanonicalOption(y) = CanonicalOption(x)
  /\ x = <<>> \/ (x[1] \in Predicate /\ y[1] = MirroredPredicate(x[1]))

\* The mirror image of an optional predicate is one.
LEMMA OptionImage ==
  ASSUME NEW x, Optional(x)
  PROVE  OptionMirrors(x, MirroredOption(x))
<1>1. CASE x = <<>>
  <2>1. MirroredOption(<<>>) = <<>>
    BY DEF MirroredOption
  <2>2. Range(<<>>) = {}
    BY DEF Range
  <2> QED
    BY <1>1, <2>1, <2>2 DEF Optional, OptionMirrors
<1>2. ASSUME NEW p \in Predicate, x = <<p>> PROVE OptionMirrors(x, MirroredOption(x))
  <2> DEFINE m == MirroredPredicate(p)
  <2>1. m \in Predicate /\ CanonicalPredicate(m) = CanonicalPredicate(p)
    BY MirrorAssumption, MirrorCanonical
  <2>2. MirroredOption(x) = <<m>>
    BY <1>2 DEF MirroredOption
  <2> HIDE DEF m
  <2>3. \A q : Range(<<q>>) = {q} /\ CanonicalOption(<<q>>) = <<CanonicalPredicate(q)>> /\ <<q>> # <<>> /\ <<q>>[1] = q
    BY DEF Range, CanonicalOption
  <2>4. x = <<p>> /\ Range(x) = {p} /\ x # <<>> /\ x[1] = p /\ CanonicalOption(x) = <<CanonicalPredicate(p)>>
    BY <1>2, <2>3
  <2> DEFINE y == MirroredOption(x)
  <2>5. y = <<m>> /\ Range(y) = {m} /\ y # <<>> /\ y[1] = m /\ CanonicalOption(y) = <<CanonicalPredicate(m)>>
    BY <2>2, <2>3
  <2>6. Optional(y)
    BY <2>1, <2>5, Zenon DEF Optional
  <2> HIDE DEF y
  <2> QED
    BY <2>1, <2>4, <2>5, <2>6, Zenon DEF OptionMirrors, m, y
<1> QED
  BY <1>1, <1>2 DEF Optional

\* The zero predicate is a function of its fields.
LEMMA ZeroFunction == ZeroPredicate = [y \in PredicateFields |-> ZeroPredicate[y]]
<1> DEFINE Zero(blank) ==
      [fact |-> blank, operator |-> blank, value |-> [kind |-> "nil", items |-> <<>>],
       path |-> <<>>, all |-> <<>>, any |-> <<>>, not |-> <<>>]
<1>1. ZeroPredicate = Zero(Blank)
  BY Zenon DEF ZeroPredicate, Blank
<1>2. \A blank : Zero(blank) = [y \in PredicateFields |-> Zero(blank)[y]]
  BY DEF PredicateFields
<1> HIDE DEF Zero
<1> QED
  BY <1>1, <1>2

\* The zero predicate is its own mirror image.
LEMMA ZeroImage == MirroredPredicate(ZeroPredicate) = ZeroPredicate
<1>4. MirroredEach(<<>>) = <<>> /\ Reversed(<<>>) = <<>>
  <2>1. DOMAIN Reversed(<<>>) = {} /\ IsList(Reversed(<<>>))
    <3>1. DOMAIN <<>> = 1..0 /\ 1..0 = {}
      OBVIOUS
    <3> QED BY <3>1, ReversedPositions
  <2> QED BY <2>1, EmptyLists DEF MirroredEach
<1> DEFINE z == ZeroPredicate
           m == MirroredPredicate(z)
<1>5. m = MirrorStep(z, MirroredEach(z.all), MirroredEach(z.any), MirroredEach(z.not))
  BY MirrorEquation, PredicateAssumption DEF MirroredEach
<1>6. m = MirrorStep(z, <<>>, <<>>, <<>>)
  <2> HIDE DEF m
  <2> QED BY <1>4, <1>5, ZeroFields
<1>7. m = [y \in PredicateFields |-> z[y]]
  <2>1. z.all = <<>> /\ z.any = <<>> /\ z.not = <<>> /\ DOMAIN z = PredicateFields
    BY ZeroFields
  <2>2. m = [z EXCEPT !.all = <<>>, !.any = <<>>, !.not = <<>>]
    <3> HIDE DEF m
    <3> QED BY <1>4, <1>6 DEF MirrorStep
  <2> HIDE DEF z, m
  <2>3. DOMAIN m = PredicateFields /\ \A y \in PredicateFields : m[y] = z[y]
    BY <2>1, <2>2
  <2> QED BY <2>2, <2>3
<1> QED
  BY <1>7, ZeroFunction

PolicyFields == {"key", "resource", "action", "effect", "scopes", "predicate", "audit"}
RuleFields == {"key", "priority", "actions", "effect", "predicate", "mask"}
GuardrailFields == {"key", "resource", "action", "field", "predicate"}
FieldFields == {"resource", "field", "read", "write", "export", "masked", "rules"}

\* Mirroring an entry rewrites one field of it.
LEMMA EntryImages ==
  /\ \A p : DOMAIN p = PolicyFields =>
       LET q == MirroredPolicy(p) IN
       /\ DOMAIN q = PolicyFields /\ q.predicate = MirroredPredicate(p.predicate)
       /\ q.key = p.key /\ q.resource = p.resource /\ q.action = p.action
       /\ q.effect = p.effect /\ q.scopes = p.scopes /\ q.audit = p.audit
  /\ \A r : DOMAIN r = RuleFields =>
       LET q == MirroredRule(r) IN
       /\ DOMAIN q = RuleFields /\ q.predicate = MirroredOption(r.predicate)
       /\ q.key = r.key /\ q.priority = r.priority /\ q.actions = r.actions
       /\ q.effect = r.effect /\ q.mask = r.mask
  /\ \A g : DOMAIN g = GuardrailFields =>
       LET q == MirroredRule(g) IN
       /\ DOMAIN q = GuardrailFields /\ q.predicate = MirroredOption(g.predicate)
       /\ q.key = g.key /\ q.resource = g.resource /\ q.action = g.action /\ q.field = g.field
  /\ \A f : DOMAIN f = FieldFields =>
       LET q == MirroredField(f) IN
       /\ DOMAIN q = FieldFields /\ q.rules = MirroredOptions(f.rules)
       /\ q.resource = f.resource /\ q.field = f.field /\ q.read = f.read /\ q.write = f.write
       /\ q.export = f.export /\ q.masked = f.masked
<1> USE DEF PolicyFields, RuleFields, GuardrailFields, FieldFields
<1>1. \A p : DOMAIN p = PolicyFields =>
       LET q == MirroredPolicy(p) IN
       /\ DOMAIN q = PolicyFields /\ q.predicate = MirroredPredicate(p.predicate)
       /\ q.key = p.key /\ q.resource = p.resource /\ q.action = p.action
       /\ q.effect = p.effect /\ q.scopes = p.scopes /\ q.audit = p.audit
  BY DEF MirroredPolicy
<1>2. \A r : DOMAIN r = RuleFields =>
       LET q == MirroredRule(r) IN
       /\ DOMAIN q = RuleFields /\ q.predicate = MirroredOption(r.predicate)
       /\ q.key = r.key /\ q.priority = r.priority /\ q.actions = r.actions
       /\ q.effect = r.effect /\ q.mask = r.mask
  BY DEF MirroredRule
<1>3. \A g : DOMAIN g = GuardrailFields =>
       LET q == MirroredRule(g) IN
       /\ DOMAIN q = GuardrailFields /\ q.predicate = MirroredOption(g.predicate)
       /\ q.key = g.key /\ q.resource = g.resource /\ q.action = g.action /\ q.field = g.field
  BY DEF MirroredRule
<1>4. \A f : DOMAIN f = FieldFields =>
       LET q == MirroredField(f) IN
       /\ DOMAIN q = FieldFields /\ q.rules = MirroredOptions(f.rules)
       /\ q.resource = f.resource /\ q.field = f.field /\ q.read = f.read /\ q.write = f.write
       /\ q.export = f.export /\ q.masked = f.masked
  BY DEF MirroredField
<1> QED
  BY <1>1, <1>2, <1>3, <1>4

\* What of a bundle is mirrored.
LEMMA MirrorOf ==
  ASSUME NEW b, DOMAIN b = BundleFields
  PROVE  LET c == Mirrored(b) IN
         /\ DOMAIN c = BundleFields
         /\ c.version = b.version /\ c.revision = b.revision /\ c.expiresAt = b.expiresAt /\ c.subject = b.subject
         /\ c.functionGrants = Reversed(b.functionGrants) /\ c.dataPolicies = MirroredPolicies(b.dataPolicies)
         /\ c.fieldPolicies = MirroredFields(b.fieldPolicies)
         /\ c.referencePolicies = Reversed(b.referencePolicies) /\ c.exportPolicies = Reversed(b.exportPolicies)
         /\ c.guardrails = MirroredOptions(b.guardrails)
<1>1. \A x1, x2, x3, x4, x5, x6 :
        LET c == [b EXCEPT !.functionGrants = x1, !.dataPolicies = x2, !.fieldPolicies = x3,
                           !.referencePolicies = x4, !.exportPolicies = x5, !.guardrails = x6]
        IN /\ DOMAIN c = BundleFields
           /\ c.version = b.version /\ c.revision = b.revision /\ c.expiresAt = b.expiresAt /\ c.subject = b.subject
           /\ c.functionGrants = x1 /\ c.dataPolicies = x2 /\ c.fieldPolicies = x3
           /\ c.referencePolicies = x4 /\ c.exportPolicies = x5 /\ c.guardrails = x6
  BY DEF BundleFields
<1> QED
  BY <1>1 DEF Mirrored

\* An optional predicate is valid if its mirror image is.
LEMMA OptionValid ==
  ASSUME NEW x, NEW y, OptionMirrors(x, y), \A p \in Range(x) : ValidPredicate[p]
  PROVE  \A p \in Range(y) : ValidPredicate[p]
BY MirrorValid DEF OptionMirrors

\* The rules of a mirrored field are valid.
LEMMA MirroredRules ==
  ASSUME NEW rules, RulesShape(rules), ValidRules(rules)
  PROVE  ValidRules(MirroredOptions(rules))
<1> DEFINE t == MirroredOptions(rules)
<1>1. PICK f : Rearranges(f, t, rules) /\ \A i \in DOMAIN t : t[i] = MirroredRule(rules[f[i]])
  BY MirroredBy DEF RulesShape
<1> HIDE DEF t
<1>2. ASSUME NEW i \in DOMAIN t
      PROVE  LET r == rules[f[i]] IN
             /\ f[i] \in DOMAIN rules /\ r \in Range(rules)
             /\ t[i].key = r.key /\ t[i].priority = r.priority /\ t[i].actions = r.actions
             /\ t[i].effect = r.effect /\ t[i].mask = r.mask
             /\ OptionMirrors(r.predicate, t[i].predicate)
  <2>1. f[i] \in DOMAIN rules /\ rules[f[i]] \in Range(rules)
    BY <1>1 DEF Rearranges, Range
  <2>2. DOMAIN rules[f[i]] = RuleFields /\ Optional(rules[f[i]].predicate)
    BY <2>1 DEF RulesShape, RuleFields
  <2> QED
    BY <1>1, <2>1, <2>2, EntryImages, OptionImage
<1>3. ASSUME NEW i \in DOMAIN t
      PROVE  /\ t[i].key # Blank /\ t[i].effect \in FieldEffects /\ t[i].actions # {} /\ Blank \notin t[i].actions
             /\ \A p \in Range(t[i].predicate) : ValidPredicate[p]
             /\ ValidMask(t[i])
  <2> DEFINE r == rules[f[i]]
  <2>1. /\ r.key # Blank /\ r.effect \in FieldEffects /\ r.actions # {} /\ Blank \notin r.actions
        /\ \A p \in Range(r.predicate) : ValidPredicate[p]
        /\ ValidMask(r)
    BY <1>2, Zenon DEF ValidRules, Blank
  <2>2. ValidMask(t[i])
    <3>1. t[i].effect = r.effect /\ t[i].mask = r.mask
      BY <1>2
    <3> HIDE DEF r
    <3> QED BY <2>1, <3>1, Zenon DEF ValidMask
  <2>3. OptionMirrors(r.predicate, t[i].predicate)
    BY <1>2
  <2> QED
    BY <1>2, <2>1, <2>2, <2>3, OptionValid
<1>4. UniqueBy(rules, LAMBDA r : r.key) /\ UniqueBy(rules, LAMBDA r : r.priority)
  BY Zenon DEF ValidRules
<1>5. UniqueBy(t, LAMBDA r : r.key) /\ UniqueBy(t, LAMBDA r : r.priority)
  BY <1>1, <1>2, <1>4 DEF UniqueBy, Rearranges
<1>6. \A r \in Range(t) :
       /\ r.key # "" /\ r.effect \in FieldEffects /\ r.actions # {} /\ "" \notin r.actions
       /\ \A p \in Range(r.predicate) : ValidPredicate[p]
       /\ ValidMask(r)
  <2>1. \A r \in Range(t) :
         /\ r.key # Blank /\ r.effect \in FieldEffects /\ r.actions # {} /\ Blank \notin r.actions
         /\ \A p \in Range(r.predicate) : ValidPredicate[p]
         /\ ValidMask(r)
    BY <1>3 DEF Range
  <2> QED
    BY <2>1, Zenon DEF Blank
<1> QED
  BY <1>5, <1>6, Zenon DEF ValidRules, t

\* The lists that are only reversed stay valid.
LEMMA MirroredListsValid ==
  ASSUME NEW b, DOMAIN b = BundleFields,
         FiniteList(b.functionGrants), FiniteList(b.referencePolicies), FiniteList(b.exportPolicies),
         ValidFunctionGrants(b), ValidReferencePolicies(b), ValidExportPolicies(b)
  PROVE  LET c == Mirrored(b) IN ValidFunctionGrants(c) /\ ValidReferencePolicies(c) /\ ValidExportPolicies(c)
<1> DEFINE c == Mirrored(b)
<1>1. /\ c.functionGrants = Reversed(b.functionGrants) /\ c.referencePolicies = Reversed(b.referencePolicies)
      /\ c.exportPolicies = Reversed(b.exportPolicies)
  BY MirrorOf
<1> HIDE DEF c
<1>2. ValidFunctionGrants(c)
  <2>1. PICK f : /\ Rearranges(f, c.functionGrants, b.functionGrants)
                 /\ \A i \in DOMAIN c.functionGrants : c.functionGrants[i] = b.functionGrants[f[i]]
    BY <1>1, MirroredBy
  <2>2. Range(c.functionGrants) = Range(b.functionGrants)
    BY <2>1, RearrangedRange
  <2>3. UniqueBy(b.functionGrants, LAMBDA g : g)
    BY Zenon DEF ValidFunctionGrants
  <2>4. UniqueBy(c.functionGrants, LAMBDA g : g)
    BY <2>1, <2>3 DEF UniqueBy, Rearranges
  <2> QED
    BY <2>2, <2>4, Zenon DEF ValidFunctionGrants
<1>3. ValidReferencePolicies(c)
  <2>1. PICK f : /\ Rearranges(f, c.referencePolicies, b.referencePolicies)
                 /\ \A i \in DOMAIN c.referencePolicies : c.referencePolicies[i] = b.referencePolicies[f[i]]
    BY <1>1, MirroredBy
  <2>2. Range(c.referencePolicies) = Range(b.referencePolicies)
    BY <2>1, RearrangedRange
  <2>3. UniqueBy(b.referencePolicies, LAMBDA r : <<r.source, r.reference>>)
    BY Zenon DEF ValidReferencePolicies
  <2>4. UniqueBy(c.referencePolicies, LAMBDA r : <<r.source, r.reference>>)
    BY <2>1, <2>3 DEF UniqueBy, Rearranges
  <2> QED
    BY <2>2, <2>4, Zenon DEF ValidReferencePolicies
<1>4. ValidExportPolicies(c)
  <2>1. PICK f : /\ Rearranges(f, c.exportPolicies, b.exportPolicies)
                 /\ \A i \in DOMAIN c.exportPolicies : c.exportPolicies[i] = b.exportPolicies[f[i]]
    BY <1>1, MirroredBy
  <2>2. Range(c.exportPolicies) = Range(b.exportPolicies)
    BY <2>1, RearrangedRange
  <2>3. UniqueBy(b.exportPolicies, LAMBDA e : e.resource)
    BY Zenon DEF ValidExportPolicies
  <2>4. UniqueBy(c.exportPolicies, LAMBDA e : e.resource)
    BY <2>1, <2>3 DEF UniqueBy, Rearranges
  <2> QED
    BY <2>2, <2>4, Zenon DEF ValidExportPolicies
<1> QED
  BY <1>2, <1>3, <1>4 DEF c

\* The mirrored data policies are valid: a predicate is zero exactly if its image is.
LEMMA MirroredPoliciesValid ==
  ASSUME NEW b, BundleShape(b), ValidDataPolicies(b)
  PROVE  ValidDataPolicies(Mirrored(b))
<1> DEFINE c == Mirrored(b)
           s == b.dataPolicies
           t == c.dataPolicies
<1>1. DOMAIN b = BundleFields /\ FiniteList(s)
  BY DEF BundleShape
<1>2. t = MirroredPolicies(s)
  BY <1>1, MirrorOf
<1>3. \A p \in Range(s) : DOMAIN p = PolicyFields /\ p.predicate \in Predicate
  BY DEF BundleShape, PolicyFields
<1>4. /\ \A p \in Range(s) :
           /\ p.key # <<>> /\ p.resource \notin {"", "*"} /\ p.action # "" /\ p.effect \in Effects
           /\ p.scopes \subseteq {"all", "owner", "org", "org_child", "target_org"}
           /\ IF "all" \in p.scopes
              THEN p.effect = "allow" /\ p.scopes = {"all"} /\ p.predicate = ZeroPredicate
              ELSE ValidPredicate[p.predicate]
      /\ UniqueBy(s, LAMBDA p : p.key)
  BY Zenon DEF ValidDataPolicies
<1> HIDE DEF c
<1>5. PICK f : Rearranges(f, t, s) /\ \A i \in DOMAIN t : t[i] = MirroredPolicy(s[f[i]])
  BY <1>1, <1>2, MirroredBy
<1> HIDE DEF s, t
<1>6. ASSUME NEW q \in Range(t)
      PROVE  \E p \in Range(s) :
               /\ q.key = p.key /\ q.resource = p.resource /\ q.action = p.action /\ q.effect = p.effect
               /\ q.scopes = p.scopes /\ q.predicate = MirroredPredicate(p.predicate)
  <2>1. PICK i \in DOMAIN t : q = t[i]
    BY DEF Range
  <2>2. s[f[i]] \in Range(s)
    BY <1>5 DEF Rearranges, Range
  <2> QED
    BY <1>3, <1>5, <2>1, <2>2, EntryImages
<1>7. \A p \in Predicate : ValidPredicate[p] => ValidPredicate[MirroredPredicate(p)]
  BY MirrorValid
<1>8. ASSUME NEW q \in Range(t)
      PROVE  /\ q.key # <<>> /\ q.resource \notin {"", "*"} /\ q.action # "" /\ q.effect \in Effects
             /\ q.scopes \subseteq {"all", "owner", "org", "org_child", "target_org"}
             /\ IF "all" \in q.scopes
                THEN q.effect = "allow" /\ q.scopes = {"all"} /\ q.predicate = ZeroPredicate
                ELSE ValidPredicate[q.predicate]
  <2>1. PICK p \in Range(s) :
               /\ q.key = p.key /\ q.resource = p.resource /\ q.action = p.action /\ q.effect = p.effect
               /\ q.scopes = p.scopes /\ q.predicate = MirroredPredicate(p.predicate)
    BY <1>6
  <2>2. /\ p.key # <<>> /\ p.resource \notin {"", "*"} /\ p.action # "" /\ p.effect \in Effects
        /\ p.scopes \subseteq {"all", "owner", "org", "org_child", "target_org"}
        /\ IF "all" \in p.scopes
           THEN p.effect = "allow" /\ p.scopes = {"all"} /\ p.predicate = ZeroPredicate
           ELSE ValidPredicate[p.predicate]
    BY <1>4, Zenon
  <2>3. q.key # <<>> /\ q.resource \notin {"", "*"} /\ q.action # "" /\ q.effect \in Effects
    BY <2>1, <2>2, Zenon
  <2>4. q.scopes \subseteq {"all", "owner", "org", "org_child", "target_org"}
    BY <2>1, <2>2, Zenon
  <2>5. CASE "all" \in p.scopes
    <3>1. p.effect = "allow" /\ p.scopes = {"all"} /\ p.predicate = ZeroPredicate
      BY <2>2, <2>5, Zenon
    <3>2. q.effect = "allow" /\ q.scopes = {"all"} /\ q.predicate = ZeroPredicate /\ "all" \in q.scopes
      BY <2>1, <2>5, <3>1, ZeroImage, Zenon
    <3> QED BY <2>3, <2>4, <3>2, Zenon
  <2>6. CASE "all" \notin p.scopes
    <3>1. ValidPredicate[p.predicate]
      BY <2>2, <2>6, Zenon
    <3>2. ValidPredicate[q.predicate] /\ "all" \notin q.scopes
      BY <1>3, <1>7, <2>1, <2>6, <3>1, Zenon
    <3> QED BY <2>3, <2>4, <3>2, Zenon
  <2> QED
    BY <2>5, <2>6
<1>10. UniqueBy(s, LAMBDA p : p.key)
  BY <1>4, Zenon
<1>9. UniqueBy(t, LAMBDA p : p.key)
  <2>1. \A i \in DOMAIN t : f[i] \in DOMAIN s /\ t[i].key = s[f[i]].key
    <3> TAKE i \in DOMAIN t
    <3>1. f[i] \in DOMAIN s /\ s[f[i]] \in Range(s)
      BY <1>5 DEF Rearranges, Range
    <3> QED BY <1>3, <1>5, <3>1, EntryImages
  <2> QED
    BY <1>10, <1>5, <2>1 DEF UniqueBy, Rearranges
<1> QED
  BY <1>8, <1>9, Zenon DEF ValidDataPolicies, t, c

\* The mirrored field policies are valid.
LEMMA MirroredFieldsValid ==
  ASSUME NEW b, BundleShape(b), ValidFieldPolicies(b)
  PROVE  ValidFieldPolicies(Mirrored(b))
<1> DEFINE c == Mirrored(b)
           s == b.fieldPolicies
           t == c.fieldPolicies
<1>1. DOMAIN b = BundleFields /\ FiniteList(s)
  BY DEF BundleShape
<1>2. t = MirroredFields(s)
  BY <1>1, MirrorOf
<1>3. \A p \in Range(s) : DOMAIN p = FieldFields /\ RulesShape(p.rules)
  BY DEF BundleShape, FieldFields
<1>4. /\ \A p \in Range(s) : p.resource # "" /\ p.field # "" /\ ValidRules(p.rules)
      /\ UniqueBy(s, LAMBDA p : <<p.resource, p.field>>)
  BY Zenon DEF ValidFieldPolicies
<1> HIDE DEF c
<1>5. PICK f : Rearranges(f, t, s) /\ \A i \in DOMAIN t : t[i] = MirroredField(s[f[i]])
  BY <1>1, <1>2, MirroredBy
<1> HIDE DEF s, t
<1>6. ASSUME NEW i \in DOMAIN t
      PROVE  /\ f[i] \in DOMAIN s /\ s[f[i]] \in Range(s)
             /\ t[i].resource = s[f[i]].resource /\ t[i].field = s[f[i]].field
             /\ t[i].rules = MirroredOptions(s[f[i]].rules)
  <2>1. f[i] \in DOMAIN s /\ s[f[i]] \in Range(s)
    BY <1>5 DEF Rearranges, Range
  <2> QED
    BY <1>3, <1>5, <2>1, EntryImages
<1>7. ASSUME NEW i \in DOMAIN t
      PROVE  t[i].resource # "" /\ t[i].field # "" /\ ValidRules(t[i].rules)
  <2>1. s[f[i]].resource # "" /\ s[f[i]].field # "" /\ ValidRules(s[f[i]].rules)
    BY <1>4, <1>6, Zenon
  <2>2. ValidRules(MirroredOptions(s[f[i]].rules))
    BY <1>3, <1>6, <2>1, MirroredRules
  <2> QED
    BY <1>6, <2>1, <2>2, Zenon
<1>8. \A q \in Range(t) : q.resource # "" /\ q.field # "" /\ ValidRules(q.rules)
  BY <1>7, Zenon DEF Range
<1>10. UniqueBy(s, LAMBDA p : <<p.resource, p.field>>)
  BY <1>4, Zenon
<1>9. UniqueBy(t, LAMBDA p : <<p.resource, p.field>>)
  BY <1>10, <1>5, <1>6 DEF UniqueBy, Rearranges
<1> QED
  BY <1>8, <1>9, Zenon DEF ValidFieldPolicies, t, c

\* The mirrored guardrails are valid.
LEMMA MirroredGuardrailsValid ==
  ASSUME NEW b, BundleShape(b), ValidGuardrails(b)
  PROVE  ValidGuardrails(Mirrored(b))
<1> DEFINE c == Mirrored(b)
           s == b.guardrails
           t == c.guardrails
<1>1. DOMAIN b = BundleFields /\ FiniteList(s)
  BY DEF BundleShape
<1>2. t = MirroredOptions(s)
  BY <1>1, MirrorOf
<1>3. \A g \in Range(s) : DOMAIN g = GuardrailFields /\ Optional(g.predicate)
  BY DEF BundleShape, GuardrailFields
<1>4. /\ \A g \in Range(s) :
           /\ g.key # ""
           /\ g.resource = "" => g.action = "" /\ g.field = "" /\ g.predicate = <<>>
           /\ g.field # "" => g.action # ""
           /\ \A p \in Range(g.predicate) : ValidPredicate[p]
      /\ UniqueBy(s, LAMBDA g : g.key)
  BY Zenon DEF ValidGuardrails
<1> HIDE DEF c
<1>5. PICK f : Rearranges(f, t, s) /\ \A i \in DOMAIN t : t[i] = MirroredRule(s[f[i]])
  BY <1>1, <1>2, MirroredBy
<1> HIDE DEF s, t
<1>6. ASSUME NEW i \in DOMAIN t
      PROVE  LET g == s[f[i]] IN
             /\ f[i] \in DOMAIN s /\ g \in Range(s)
             /\ t[i].key = g.key /\ t[i].resource = g.resource /\ t[i].action = g.action /\ t[i].field = g.field
             /\ OptionMirrors(g.predicate, t[i].predicate)
  <2>1. f[i] \in DOMAIN s /\ s[f[i]] \in Range(s)
    BY <1>5 DEF Rearranges, Range
  <2>2. DOMAIN s[f[i]] = GuardrailFields /\ Optional(s[f[i]].predicate)
    BY <1>3, <2>1
  <2> QED
    BY <1>5, <2>1, <2>2, EntryImages, OptionImage
<1>7. ASSUME NEW i \in DOMAIN t
      PROVE  /\ t[i].key # ""
             /\ t[i].resource = "" => t[i].action = "" /\ t[i].field = "" /\ t[i].predicate = <<>>
             /\ t[i].field # "" => t[i].action # ""
             /\ \A p \in Range(t[i].predicate) : ValidPredicate[p]
  <2> DEFINE g == s[f[i]]
             x == g.predicate
             y == t[i].predicate
  <2>1. /\ g.key # ""
        /\ g.resource = "" => g.action = "" /\ g.field = "" /\ x = <<>>
        /\ g.field # "" => g.action # ""
        /\ \A p \in Range(x) : ValidPredicate[p]
    BY <1>4, <1>6, Zenon
  <2>2. OptionMirrors(x, y)
    BY <1>6
  <2>3. y = <<>> <=> x = <<>>
    BY <2>2 DEF OptionMirrors
  <2>4. \A p \in Range(y) : ValidPredicate[p]
    <3> HIDE DEF x, y
    <3> QED BY <2>1, <2>2, OptionValid
  <2>5. t[i].key = g.key /\ t[i].resource = g.resource /\ t[i].action = g.action /\ t[i].field = g.field
    BY <1>6
  <2> QED
    BY <2>1, <2>3, <2>4, <2>5, Zenon
<1>8. \A g \in Range(t) :
        /\ g.key # ""
        /\ g.resource = "" => g.action = "" /\ g.field = "" /\ g.predicate = <<>>
        /\ g.field # "" => g.action # ""
        /\ \A p \in Range(g.predicate) : ValidPredicate[p]
  <2> TAKE g \in Range(t)
  <2>1. PICK i \in DOMAIN t : g = t[i]
    BY DEF Range
  <2> QED
    BY <1>7, <2>1, Zenon
<1>10. UniqueBy(s, LAMBDA g : g.key)
  BY <1>4, Zenon
<1>9. UniqueBy(t, LAMBDA g : g.key)
  BY <1>10, <1>5, <1>6 DEF UniqueBy, Rearranges
<1> QED
  BY <1>8, <1>9, Zenon DEF ValidGuardrails, t, c

\* A valid bundle stays valid when its lists are reversed.
LEMMA MirroredValid ==
  ASSUME NEW b, NEW time, BundleShape(b), ValidBundle(b, time)
  PROVE  ValidBundle(Mirrored(b), time)
<1> DEFINE c == Mirrored(b)
<1>1. DOMAIN b = BundleFields /\ FiniteList(b.functionGrants) /\ FiniteList(b.referencePolicies) /\ FiniteList(b.exportPolicies)
  BY DEF BundleShape
<1>2. c.version = b.version /\ c.revision = b.revision /\ c.expiresAt = b.expiresAt /\ c.subject = b.subject
  BY <1>1, MirrorOf
<1>3. /\ ValidIdentity(b) /\ b.expiresAt > time
      /\ ValidFunctionGrants(b) /\ ValidDataPolicies(b) /\ ValidFieldPolicies(b)
      /\ ValidReferencePolicies(b) /\ ValidExportPolicies(b) /\ ValidGuardrails(b)
  BY Zenon DEF ValidBundle
<1>4. ValidFunctionGrants(c) /\ ValidReferencePolicies(c) /\ ValidExportPolicies(c)
  BY <1>1, <1>3, MirroredListsValid
<1>5. ValidDataPolicies(c) /\ ValidFieldPolicies(c) /\ ValidGuardrails(c)
  BY <1>3, MirroredPoliciesValid, MirroredFieldsValid, MirroredGuardrailsValid
<1> HIDE DEF c
<1>6. ValidIdentity(c)
  BY <1>2, <1>3, Zenon DEF ValidIdentity
<1>7. c.expiresAt > time
  BY <1>2, <1>3
<1> QED
  BY <1>4, <1>5, <1>6, <1>7, Zenon DEF ValidBundle, c

\* The canonical form of the zero predicate is itself.
LEMMA ZeroCanonical == CanonicalPredicate(ZeroPredicate) = ZeroPredicate
<1> DEFINE z == ZeroPredicate
           m == CanonicalPredicate(z)
<1>1. z.all = <<>> /\ z.any = <<>> /\ z.not = <<>> /\ DOMAIN z = PredicateFields /\ z.operator = Blank
  BY ZeroFields
<1>2. CanonicalEach(<<>>) = <<>>
  BY DEF CanonicalEach
<1>3. Ordered(<<>>) = <<>>
  <2> DEFINE e == <<>>
  <2>1. DOMAIN e = {} /\ 1..0 = {}
    OBVIOUS
  <2> HIDE DEF e
  <2>2. DOMAIN Ordered(e) = {} /\ Ordered(e) = [i \in DOMAIN Ordered(e) |-> Ordered(e)[i]]
    BY <2>1, OrderedArranges
  <2>3. IsList(Ordered(e))
    BY <2>1, <2>2 DEF IsList
  <2>4. Ordered(e) = <<>>
    BY <2>2, <2>3, EmptyLists
  <2> QED BY <2>4 DEF e
<1>4. m = CanonicalStep(z, CanonicalEach(z.all), CanonicalEach(z.any), CanonicalEach(z.not))
  BY CanonicalEquation, PredicateAssumption DEF CanonicalEach
<1>5. CanonicalValue(z) = z.value
  <2>1. "" # "in" /\ "" # "not_in"
    BY Zenon
  <2>2. Blank \notin {"in", "not_in"}
    BY <2>1, Zenon DEF Blank
  <2> HIDE DEF z
  <2> QED BY <1>1, <2>2 DEF CanonicalValue
<1>6. m = CanonicalStep(z, <<>>, <<>>, <<>>)
  <2> HIDE DEF m, z
  <2> QED BY <1>1, <1>2, <1>4
<1>7. DOMAIN m = PredicateFields /\ \A y \in PredicateFields : m[y] = z[y]
  <2>1. m = [z EXCEPT !.value = CanonicalValue(z), !.all = Ordered(<<>>), !.any = Ordered(<<>>), !.not = <<>>]
    <3> HIDE DEF m, z
    <3> QED BY <1>6 DEF CanonicalStep
  <2>2. \A v, x : LET c == [z EXCEPT !.value = v, !.all = x, !.any = x, !.not = x]
                  IN /\ DOMAIN c = PredicateFields
                     /\ c.value = v /\ c.all = x /\ c.any = x /\ c.not = x
                     /\ c.fact = z.fact /\ c.operator = z.operator /\ c.path = z.path
    <3> HIDE DEF m, z
    <3> QED BY <1>1 DEF PredicateFields
  <2> HIDE DEF m, z
  <2>3. m = [z EXCEPT !.value = z.value, !.all = <<>>, !.any = <<>>, !.not = <<>>]
    BY <1>3, <1>5, <2>1
  <2> QED
    BY <1>1, <2>2, <2>3 DEF PredicateFields
<1>8. m = [y \in PredicateFields |-> m[y]]
  <2>1. m = [z EXCEPT !.value = CanonicalValue(z), !.all = Ordered(<<>>), !.any = Ordered(<<>>), !.not = <<>>]
    <3> HIDE DEF m, z
    <3> QED BY <1>6 DEF CanonicalStep
  <2> HIDE DEF m, z
  <2> QED BY <1>7, <2>1
<1> HIDE DEF m, z
<1> QED
  BY <1>7, <1>8, ZeroFunction DEF m, z

\* The canonical data policies are those of the mirrored list.
LEMMA MirroredCanonicalPolicies ==
  ASSUME NEW s, FiniteList(s), \A p \in Range(s) : DOMAIN p = PolicyFields /\ p.predicate \in Predicate
  PROVE  CanonicalPolicies(MirroredPolicies(s)) = CanonicalPolicies(s)
<1> DEFINE Entry(p) == [p EXCEPT !.predicate = IF p.predicate = ZeroPredicate THEN p.predicate ELSE CanonicalPredicate(p.predicate)]
           t == MirroredPolicies(s)
<1>1. CanonicalPolicies(s) = {Entry(p) : p \in Range(s)} /\ CanonicalPolicies(t) = {Entry(p) : p \in Range(t)}
  BY DEF CanonicalPolicies
<1>2. PICK f : Rearranges(f, t, s) /\ \A i \in DOMAIN t : t[i] = MirroredPolicy(s[f[i]])
  BY MirroredBy
<1>3. ASSUME NEW p \in Range(s)
      PROVE  Entry(MirroredPolicy(p)) = Entry(p)
  <2> DEFINE m == MirroredPredicate(p.predicate)
             v == CanonicalPredicate(p.predicate)
  <2>1. m \in Predicate /\ CanonicalPredicate(m) = v /\ CanonicalPredicate(ZeroPredicate) = ZeroPredicate
    BY MirrorCanonical, MirrorAssumption, ZeroCanonical
  <2>2. \A q : q.predicate \in {p.predicate, m} =>
          (IF q.predicate = ZeroPredicate THEN q.predicate ELSE CanonicalPredicate(q.predicate)) = v
    <3> HIDE DEF m
    <3> QED BY <2>1 DEF v
  <2>3. DOMAIN p = PolicyFields
    OBVIOUS
  <2>4. MirroredPolicy(p) = [p EXCEPT !.predicate = m] /\ MirroredPolicy(p).predicate = m
    BY <2>3 DEF MirroredPolicy, PolicyFields
  <2> HIDE DEF m, v
  <2>5. Entry(p) = [p EXCEPT !.predicate = v]
    BY <2>2
  <2>6. Entry(MirroredPolicy(p)) = [MirroredPolicy(p) EXCEPT !.predicate = v]
    <3> DEFINE q == MirroredPolicy(p)
               w == IF q.predicate = ZeroPredicate THEN q.predicate ELSE CanonicalPredicate(q.predicate)
    <3>3. q.predicate = m
      BY <2>4
    <3>1. w = v
      <4> HIDE DEF q
      <4> QED BY <2>2, <3>3
    <3>2. Entry(q) = [q EXCEPT !.predicate = w]
      OBVIOUS
    <3> HIDE DEF w
    <3> QED BY <3>1, <3>2
  <2>7. [[p EXCEPT !.predicate = m] EXCEPT !.predicate = v] = [p EXCEPT !.predicate = v]
    BY <2>3 DEF PolicyFields
  <2> HIDE DEF Entry
  <2> QED BY <2>4, <2>5, <2>6, <2>7
<1> HIDE DEF t, Entry
<1>4. \A i \in DOMAIN t : f[i] \in DOMAIN s /\ Entry(t[i]) = Entry(s[f[i]])
  BY <1>2, <1>3 DEF Rearranges, Range
<1>5. {Entry(p) : p \in Range(t)} = {Entry(p) : p \in Range(s)}
  BY <1>2, <1>4 DEF Rearranges, Range
<1> QED
  BY <1>1, <1>5 DEF t

\* So do those of rules and guardrails.
LEMMA MirroredCanonicalRules ==
  ASSUME NEW s, FiniteList(s),
         \A r \in Range(s) : "predicate" \in DOMAIN r /\ Optional(r.predicate)
  PROVE  CanonicalRules(MirroredOptions(s)) = CanonicalRules(s)
<1> DEFINE Entry(r) == [r EXCEPT !.predicate = CanonicalOption(r.predicate)]
           t == MirroredOptions(s)
<1>1. CanonicalRules(s) = {Entry(r) : r \in Range(s)} /\ CanonicalRules(t) = {Entry(r) : r \in Range(t)}
  BY DEF CanonicalRules
<1>2. PICK f : Rearranges(f, t, s) /\ \A i \in DOMAIN t : t[i] = MirroredRule(s[f[i]])
  BY MirroredBy
<1>3. ASSUME NEW r \in Range(s)
      PROVE  Entry(MirroredRule(r)) = Entry(r)
  <2> DEFINE m == MirroredOption(r.predicate)
             v == CanonicalOption(r.predicate)
  <2>1. CanonicalOption(m) = v
    BY OptionImage DEF OptionMirrors
  <2>2. MirroredRule(r) = [r EXCEPT !.predicate = m] /\ MirroredRule(r).predicate = m
    BY DEF MirroredRule
  <2> HIDE DEF m, v
  <2>3. Entry(MirroredRule(r)) = [[r EXCEPT !.predicate = m] EXCEPT !.predicate = v]
    BY <2>1, <2>2
  <2>4. Entry(r) = [r EXCEPT !.predicate = v]
    BY DEF v
  <2>5. [[r EXCEPT !.predicate = m] EXCEPT !.predicate = v] = [r EXCEPT !.predicate = v]
    OBVIOUS
  <2> HIDE DEF Entry
  <2> QED BY <2>3, <2>4, <2>5
<1> HIDE DEF t, Entry
<1>4. \A i \in DOMAIN t : f[i] \in DOMAIN s /\ Entry(t[i]) = Entry(s[f[i]])
  BY <1>2, <1>3 DEF Rearranges, Range
<1>5. {Entry(p) : p \in Range(t)} = {Entry(p) : p \in Range(s)}
  BY <1>2, <1>4 DEF Rearranges, Range
<1> QED
  BY <1>1, <1>5 DEF t

\* So do those of field policies.
LEMMA MirroredCanonicalFields ==
  ASSUME NEW s, FiniteList(s), \A p \in Range(s) : DOMAIN p = FieldFields /\ RulesShape(p.rules)
  PROVE  CanonicalFields(MirroredFields(s)) = CanonicalFields(s)
<1> DEFINE Entry(p) == [p EXCEPT !.rules = CanonicalRules(p.rules)]
           t == MirroredFields(s)
<1>1. CanonicalFields(s) = {Entry(p) : p \in Range(s)} /\ CanonicalFields(t) = {Entry(p) : p \in Range(t)}
  BY DEF CanonicalFields
<1>2. PICK f : Rearranges(f, t, s) /\ \A i \in DOMAIN t : t[i] = MirroredField(s[f[i]])
  BY MirroredBy
<1>3. ASSUME NEW p \in Range(s)
      PROVE  Entry(MirroredField(p)) = Entry(p)
  <2> DEFINE m == MirroredOptions(p.rules)
             v == CanonicalRules(p.rules)
  <2>1. CanonicalRules(m) = v
    <3>1. RulesShape(p.rules)
      OBVIOUS
    <3>2. FiniteList(p.rules) /\ \A r \in Range(p.rules) : "predicate" \in DOMAIN r /\ Optional(r.predicate)
      BY <3>1 DEF RulesShape
    <3> QED BY <3>2, MirroredCanonicalRules
  <2>2. MirroredField(p) = [p EXCEPT !.rules = m] /\ MirroredField(p).rules = m
    BY DEF MirroredField, FieldFields
  <2> HIDE DEF m, v
  <2>3. Entry(MirroredField(p)) = [[p EXCEPT !.rules = m] EXCEPT !.rules = v]
    BY <2>1, <2>2
  <2>4. Entry(p) = [p EXCEPT !.rules = v]
    BY DEF v
  <2>5. [[p EXCEPT !.rules = m] EXCEPT !.rules = v] = [p EXCEPT !.rules = v]
    BY DEF FieldFields
  <2> HIDE DEF Entry
  <2> QED BY <2>3, <2>4, <2>5
<1> HIDE DEF t, Entry
<1>4. \A i \in DOMAIN t : f[i] \in DOMAIN s /\ Entry(t[i]) = Entry(s[f[i]])
  BY <1>2, <1>3 DEF Rearranges, Range
<1>5. {Entry(p) : p \in Range(t)} = {Entry(p) : p \in Range(s)}
  BY <1>2, <1>4 DEF Rearranges, Range
<1> QED
  BY <1>1, <1>5 DEF t

\* The canonical form of a bundle is that of its mirror image.
LEMMA MirroredBundleCanonical ==
  ASSUME NEW b, BundleShape(b)
  PROVE  Canonical(Mirrored(b)) = Canonical(b)
<1> DEFINE c == Mirrored(b)
<1>1. DOMAIN b = BundleFields /\ DOMAIN c = BundleFields
  BY MirrorOf DEF BundleShape
<1>2. c.version = b.version /\ c.revision = b.revision /\ c.expiresAt = b.expiresAt /\ c.subject = b.subject
  BY <1>1, MirrorOf
<1>3. CanonicalPolicies(c.dataPolicies) = CanonicalPolicies(b.dataPolicies)
  <2>1. c.dataPolicies = MirroredPolicies(b.dataPolicies)
    BY <1>1, MirrorOf
  <2>2. FiniteList(b.dataPolicies) /\ \A p \in Range(b.dataPolicies) : DOMAIN p = PolicyFields /\ p.predicate \in Predicate
    BY DEF BundleShape, PolicyFields
  <2> QED BY <2>1, <2>2, MirroredCanonicalPolicies
<1>4. CanonicalFields(c.fieldPolicies) = CanonicalFields(b.fieldPolicies)
  <2>1. c.fieldPolicies = MirroredFields(b.fieldPolicies)
    BY <1>1, MirrorOf
  <2>2. FiniteList(b.fieldPolicies) /\ \A p \in Range(b.fieldPolicies) : DOMAIN p = FieldFields /\ RulesShape(p.rules)
    BY DEF BundleShape, FieldFields
  <2> QED BY <2>1, <2>2, MirroredCanonicalFields
<1>5. CanonicalRules(c.guardrails) = CanonicalRules(b.guardrails)
  <2>1. c.guardrails = MirroredOptions(b.guardrails)
    BY <1>1, MirrorOf
  <2>2. FiniteList(b.guardrails) /\ \A g \in Range(b.guardrails) : "predicate" \in DOMAIN g /\ Optional(g.predicate)
    BY DEF BundleShape
  <2> QED BY <2>1, <2>2, MirroredCanonicalRules
<1>6. ASSUME NEW s, FiniteList(s) PROVE Range(Reversed(s)) = Range(s)
  BY <1>6, MirroredBy, RearrangedRange
<1>7. /\ Range(c.functionGrants) = Range(b.functionGrants)
      /\ Range(c.referencePolicies) = Range(b.referencePolicies)
      /\ Range(c.exportPolicies) = Range(b.exportPolicies)
  BY <1>1, <1>6, MirrorOf DEF BundleShape
<1> HIDE DEF c
<1>8. ASSUME NEW x0, NEW x1, NEW x2, NEW x3, NEW x4, NEW x5, NEW x6
      PROVE  [c EXCEPT !.subject = x0, !.functionGrants = x1, !.dataPolicies = x2, !.fieldPolicies = x3,
                       !.referencePolicies = x4, !.exportPolicies = x5, !.guardrails = x6] =
             [b EXCEPT !.subject = x0, !.functionGrants = x1, !.dataPolicies = x2, !.fieldPolicies = x3,
                       !.referencePolicies = x4, !.exportPolicies = x5, !.guardrails = x6]
  BY <1>1, <1>2 DEF BundleFields
<1>9. Canonical(c) =
        [c EXCEPT !.subject = CanonicalSubject(b.subject), !.functionGrants = Range(b.functionGrants),
                  !.dataPolicies = CanonicalPolicies(b.dataPolicies), !.fieldPolicies = CanonicalFields(b.fieldPolicies),
                  !.referencePolicies = Range(b.referencePolicies), !.exportPolicies = Range(b.exportPolicies),
                  !.guardrails = CanonicalRules(b.guardrails)]
  BY <1>2, <1>3, <1>4, <1>5, <1>7 DEF Canonical
<1> QED
  BY <1>8, <1>9 DEF Canonical, c

-----------------------------------------------------------------------------
(* The decisions on a bundle and on its mirror image *)

\* Lists of answers agree when those of rearranged entries do.
LEMMA RearrangedAnswers ==
  ASSUME NEW f, NEW s, NEW t, Rearranges(f, t, s), NEW v, NEW w, DOMAIN v \subseteq DOMAIN s,
         \A i : i \in DOMAIN w <=> i \in DOMAIN t /\ f[i] \in DOMAIN v,
         \A i \in DOMAIN w : Agree(v[f[i]], w[i])
  PROVE  AgreeingLists(v, w)
<1>1. ASSUME NEW i \in DOMAIN v PROVE \E j \in DOMAIN w : Agree(v[i], w[j])
  BY DEF Rearranges
<1>2. ASSUME NEW j \in DOMAIN w PROVE \E i \in DOMAIN v : Agree(v[i], w[j])
  OBVIOUS
<1> QED
  BY <1>1, <1>2 DEF AgreeingLists

\* An optional predicate and its mirror image match alike, with a known answer if
\* they are valid.
LEMMA MatchingAgrees ==
  ASSUME NEW x, NEW y, Optional(x), OptionMirrors(x, y), NEW facts, NEW ctx
  PROVE  /\ Agree(Matching(x, facts, ctx), Matching(y, facts, ctx))
         /\ (\A p \in Range(x) : ValidPredicate[p]) =>
              Matching(x, facts, ctx) \in Answers /\ Matching(y, facts, ctx) \in Answers
<1>1. CASE x = <<>>
  BY <1>1 DEF OptionMirrors, Matching, Agree, Answers
<1>2. CASE x # <<>>
  <2>1. y # <<>> /\ x[1] \in Predicate /\ y[1] = MirroredPredicate(x[1]) /\ Optional(y)
    BY <1>2 DEF OptionMirrors
  <2>2. Matching(x, facts, ctx) = EvaluatePredicate(x[1], facts, ctx)
    BY <1>2 DEF Matching
  <2>3. Matching(y, facts, ctx) = EvaluatePredicate(MirroredPredicate(x[1]), facts, ctx)
    BY <2>1 DEF Matching
  <2>4. Agree(Matching(x, facts, ctx), Matching(y, facts, ctx))
    BY <2>1, <2>2, <2>3, MirrorAgrees
  <2>5. (\A p \in Range(x) : ValidPredicate[p]) => ValidPredicate[x[1]]
    <3>1. PICK p \in Predicate : x = <<p>>
      BY <1>2 DEF Optional
    <3>2. \A q : Range(<<q>>) = {q} /\ <<q>>[1] = q
      BY DEF Range
    <3>3. Range(x) = {p} /\ x[1] = p
      BY <3>1, <3>2
    <3> QED BY <3>3
  <2>6. ValidPredicate[x[1]] => ValidPredicate[MirroredPredicate(x[1])] /\ MirroredPredicate(x[1]) \in Predicate
    BY <2>1, MirrorValid, MirrorAssumption
  <2> QED
    BY <2>1, <2>2, <2>3, <2>4, <2>5, <2>6, AnswersKnown
<1> QED
  BY <1>1, <1>2

\* A guarded stage decides two agreeing lists alike, unless one of them fails.
LEMMA GuardedAlike ==
  ASSUME NEW v, NEW w, DOMAIN v \subseteq Nat, DOMAIN w \subseteq Nat, AgreeingLists(v, w),
         \A i \in DOMAIN v : v[i] \in Answers, \A j \in DOMAIN w : w[j] \in Answers,
         NEW failed, NEW denied, NEW o, NEW q
  PROVE  LET g == Guarded(v, failed, denied, o)
             h == Guarded(w, failed, denied, q)
         IN g = failed \/ h = failed \/ (g = denied /\ h = denied) \/ (g = o /\ h = q)
<1>1. Agree(Loop(v, "false"), Loop(w, "false"))
  BY LoopsAgree
<1>2. /\ (\A i \in DOMAIN v : v[i] = "false") <=> Loop(v, "false") = "false"
      /\ (\A i \in DOMAIN w : w[i] = "false") <=> Loop(w, "false") = "false"
  BY LoopAnswers
<1> QED
  BY <1>1, <1>2 DEF Guarded, Agree

\* The answers of the guardrails of a bundle and of its mirror image.
LEMMA GuardrailsAgree ==
  ASSUME NEW b, BundleShape(b), ValidGuardrails(b), NEW facts, NEW ctx, NEW r, NEW a, NEW n
  PROVE  LET c == Mirrored(b)
             v == GuardrailAnswers(RecordGuardrails(b, r, a), facts, ctx)
             w == GuardrailAnswers(RecordGuardrails(c, r, a), facts, ctx)
             x == GuardrailAnswers(FieldGuardrails(b, r, n, a), facts, ctx)
             y == GuardrailAnswers(FieldGuardrails(c, r, n, a), facts, ctx)
         IN /\ DOMAIN v \subseteq Nat /\ DOMAIN w \subseteq Nat /\ AgreeingLists(v, w)
            /\ (\A i \in DOMAIN v : v[i] \in Answers) /\ (\A j \in DOMAIN w : w[j] \in Answers)
            /\ DOMAIN x \subseteq Nat /\ DOMAIN y \subseteq Nat /\ AgreeingLists(x, y)
            /\ (\A i \in DOMAIN x : x[i] \in Answers) /\ (\A j \in DOMAIN y : y[j] \in Answers)
<1> DEFINE c == Mirrored(b)
           s == b.guardrails
           t == c.guardrails
           v == GuardrailAnswers(RecordGuardrails(b, r, a), facts, ctx)
           w == GuardrailAnswers(RecordGuardrails(c, r, a), facts, ctx)
           x == GuardrailAnswers(FieldGuardrails(b, r, n, a), facts, ctx)
           y == GuardrailAnswers(FieldGuardrails(c, r, n, a), facts, ctx)
           M(g) == Matching(g.predicate, facts, ctx)
           Whole(g) == MatchesOrBlank(g.resource, r) /\ MatchesOrBlank(g.action, a) /\ g.field = Blank
           Part(g) == Matches(g.resource, r) /\ Matches(g.field, n) /\ FieldActionMatches(g.action, a)
<1>1. DOMAIN b = BundleFields /\ FiniteList(s)
  BY DEF BundleShape
<1>2. t = MirroredOptions(s)
  BY <1>1, MirrorOf
<1>3. \A g \in Range(s) : DOMAIN g = GuardrailFields /\ Optional(g.predicate)
  BY DEF BundleShape, GuardrailFields
<1>4. \A g \in Range(s) : \A p \in Range(g.predicate) : ValidPredicate[p]
  BY Zenon DEF ValidGuardrails
<1>5. /\ DOMAIN v = {i \in DOMAIN s : Whole(s[i])} /\ \A i \in DOMAIN v : v[i] = M(s[i])
      /\ DOMAIN w = {i \in DOMAIN t : Whole(t[i])} /\ \A i \in DOMAIN w : w[i] = M(t[i])
  <2>1. ASSUME NEW k
        PROVE  LET u == GuardrailAnswers(RecordGuardrails(k, r, a), facts, ctx) IN
               /\ DOMAIN u = {i \in DOMAIN k.guardrails : Whole(k.guardrails[i])}
               /\ \A i \in DOMAIN u : u[i] = M(k.guardrails[i])
    <3> DEFINE e == RecordGuardrails(k, r, a)
    <3>1. DOMAIN e = {i \in DOMAIN k.guardrails : Whole(k.guardrails[i])} /\ \A i \in DOMAIN e : e[i] = k.guardrails[i]
      BY Zenon DEF RecordGuardrails, Keep, Blank
    <3> HIDE DEF e, Whole
    <3> QED BY <3>1 DEF GuardrailAnswers, e
  <2> HIDE DEF c, Whole, M
  <2> QED BY <2>1
<1>6. /\ DOMAIN x = {i \in DOMAIN s : Part(s[i])} /\ \A i \in DOMAIN x : x[i] = M(s[i])
      /\ DOMAIN y = {i \in DOMAIN t : Part(t[i])} /\ \A i \in DOMAIN y : y[i] = M(t[i])
  <2>1. ASSUME NEW k
        PROVE  LET u == GuardrailAnswers(FieldGuardrails(k, r, n, a), facts, ctx) IN
               /\ DOMAIN u = {i \in DOMAIN k.guardrails : Part(k.guardrails[i])}
               /\ \A i \in DOMAIN u : u[i] = M(k.guardrails[i])
    BY DEF GuardrailAnswers, FieldGuardrails, Keep
  <2> HIDE DEF c, Part, M
  <2> QED BY <2>1
<1> HIDE DEF v, w, x, y, c
<1>7. PICK f : Rearranges(f, t, s) /\ \A i \in DOMAIN t : t[i] = MirroredRule(s[f[i]])
  BY <1>1, <1>2, MirroredBy
<1>8. FiniteList(t)
  BY <1>1, <1>2, MirroredBy
<1> HIDE DEF s, t
<1>9. ASSUME NEW i \in DOMAIN t
      PROVE  /\ f[i] \in DOMAIN s
             /\ Whole(t[i]) <=> Whole(s[f[i]])
             /\ Part(t[i]) <=> Part(s[f[i]])
             /\ Agree(M(s[f[i]]), M(t[i]))
             /\ M(t[i]) \in Answers
  <2>1. f[i] \in DOMAIN s /\ s[f[i]] \in Range(s)
    BY <1>7 DEF Rearranges, Range
  <2>2. DOMAIN s[f[i]] = GuardrailFields /\ Optional(s[f[i]].predicate)
    BY <1>3, <2>1
  <2>3. /\ t[i].resource = s[f[i]].resource /\ t[i].action = s[f[i]].action /\ t[i].field = s[f[i]].field
        /\ OptionMirrors(s[f[i]].predicate, t[i].predicate)
    BY <1>7, <2>1, <2>2, EntryImages, OptionImage
  <2>4. (Whole(t[i]) <=> Whole(s[f[i]])) /\ (Part(t[i]) <=> Part(s[f[i]]))
    BY <2>3
  <2>5. \A p \in Range(s[f[i]].predicate) : ValidPredicate[p]
    BY <1>4, <2>1
  <2>6. Agree(M(s[f[i]]), M(t[i])) /\ M(t[i]) \in Answers
    BY <2>2, <2>3, <2>5, MatchingAgrees
  <2> QED
    BY <2>1, <2>4, <2>6
<1>10. ASSUME NEW i \in DOMAIN s PROVE M(s[i]) \in Answers
  <2>1. s[i] \in Range(s)
    BY DEF Range
  <2> QED
    BY <1>3, <1>4, <2>1, OptionImage, MatchingAgrees
<1>11. DOMAIN s \subseteq Nat /\ DOMAIN t \subseteq Nat
  BY <1>1, <1>8 DEF FiniteList
<1> HIDE DEF M, Whole, Part
<1>12. AgreeingLists(v, w)
  BY <1>5, <1>7, <1>9, RearrangedAnswers
<1>13. AgreeingLists(x, y)
  BY <1>6, <1>7, <1>9, RearrangedAnswers
<1>14. /\ DOMAIN v \subseteq Nat /\ DOMAIN w \subseteq Nat
       /\ (\A i \in DOMAIN v : v[i] \in Answers) /\ (\A j \in DOMAIN w : w[j] \in Answers)
  BY <1>5, <1>9, <1>10, <1>11
<1>15. /\ DOMAIN x \subseteq Nat /\ DOMAIN y \subseteq Nat
       /\ (\A i \in DOMAIN x : x[i] \in Answers) /\ (\A j \in DOMAIN y : y[j] \in Answers)
  BY <1>6, <1>9, <1>10, <1>11
<1> QED
  BY <1>12, <1>13, <1>14, <1>15 DEF v, w, x, y, c

\* What the data stage says of its answers.
LEMMA VerdictMeans ==
  ASSUME NEW P, DOMAIN P \subseteq Nat, NEW answer
  PROVE  LET d == VerdictOfAnswers(P, answer) IN
         \/ d.code = "data_policy_invalid" /\ d.allowed = FALSE
         \/ /\ d.code \notin Undecided /\ d.allowed = FALSE
            /\ \E i \in DOMAIN P : P[i].effect = "deny" /\ answer[i] = "true"
         \/ /\ d.code \notin Undecided /\ \A i \in DOMAIN P : ~DataDecisive(P[i], answer[i])
            /\ \/ d.allowed = TRUE /\ \E i \in DOMAIN P : P[i].effect = "allow" /\ answer[i] = "true"
               \/ d.allowed = FALSE /\ ~ \E i \in DOMAIN P : P[i].effect = "allow" /\ answer[i] = "true"
<1> DEFINE decisive == {i \in DOMAIN P : DataDecisive(P[i], answer[i])}
<1>1. CASE decisive = {}
  <2>1. \A i \in DOMAIN P : ~DataDecisive(P[i], answer[i])
    BY <1>1
  <2>2. CASE \E i \in DOMAIN P : P[i].effect = "allow" /\ answer[i] = "true"
    BY <1>1, <2>1, <2>2 DEF VerdictOfAnswers, Verdict, Undecided
  <2>3. CASE ~ \E i \in DOMAIN P : P[i].effect = "allow" /\ answer[i] = "true"
    <3>1. VerdictOfAnswers(P, answer) = Verdict(FALSE, "data_policy_not_granted", Some(P, LAMBDA p : p.audit))
      BY <1>1, <2>3 DEF VerdictOfAnswers
    <3> QED BY <2>1, <2>3, <3>1 DEF Verdict, Undecided
  <2> QED
    BY <2>2, <2>3
<1>2. CASE decisive # {}
  <2>1. Least(decisive) \in decisive
    <3>1. decisive \subseteq Nat
      OBVIOUS
    <3> HIDE DEF decisive
    <3> QED BY <1>2, <3>1, LeastMember
  <2> DEFINE l == Least(decisive)
  <2>2. l \in DOMAIN P /\ (answer[l] = "error" \/ (answer[l] = "true" /\ P[l].effect = "deny"))
    BY <2>1 DEF DataDecisive
  <2>3. VerdictOfAnswers(P, answer) =
          IF answer[l] = "error" THEN Verdict(FALSE, "data_policy_invalid", FALSE)
          ELSE Verdict(FALSE, "data_policy_denied", P[l].audit)
    BY <1>2 DEF VerdictOfAnswers
  <2> HIDE DEF l
  <2> QED
    BY <2>2, <2>3 DEF Verdict, Undecided
<1> QED
  BY <1>1, <1>2

\* Policies correspond when each has one of the same effect and an agreeing answer.
Corresponding(P, u, Q, v) ==
  \A i \in DOMAIN P : \E j \in DOMAIN Q : P[i].effect = Q[j].effect /\ Agree(u[i], v[j])

\* Two decisions are alike, or one of them met what cannot be evaluated.
Alike(d, e) == d.code \in Undecided \/ e.code \in Undecided \/ d.allowed = e.allowed

\* Corresponding policies are decided alike.
LEMMA VerdictsAlike ==
  ASSUME NEW P, NEW Q, DOMAIN P \subseteq Nat, DOMAIN Q \subseteq Nat, NEW u, NEW v,
         Corresponding(P, u, Q, v), Corresponding(Q, v, P, u)
  PROVE  LET d == VerdictOfAnswers(P, u)
             e == VerdictOfAnswers(Q, v)
         IN /\ Alike(d, e)
            /\ d.code \in Undecided => d.code = "data_policy_invalid" /\ ~d.allowed
            /\ e.code \in Undecided => e.code = "data_policy_invalid" /\ ~e.allowed
            /\ d.allowed \in BOOLEAN /\ e.allowed \in BOOLEAN
<1> DEFINE d == VerdictOfAnswers(P, u)
           e == VerdictOfAnswers(Q, v)
           Denied(R, w) == \E i \in DOMAIN R : R[i].effect = "deny" /\ w[i] = "true"
           Passed(R, w) == \A i \in DOMAIN R : ~DataDecisive(R[i], w[i])
           Granted(R, w) == \E i \in DOMAIN R : R[i].effect = "allow" /\ w[i] = "true"
<1>1. \/ d.code = "data_policy_invalid" /\ d.allowed = FALSE
      \/ d.code \notin Undecided /\ d.allowed = FALSE /\ Denied(P, u)
      \/ d.code \notin Undecided /\ Passed(P, u) /\ d.allowed = TRUE /\ Granted(P, u)
      \/ d.code \notin Undecided /\ Passed(P, u) /\ d.allowed = FALSE /\ ~Granted(P, u)
  BY VerdictMeans
<1>2. \/ e.code = "data_policy_invalid" /\ e.allowed = FALSE
      \/ e.code \notin Undecided /\ e.allowed = FALSE /\ Denied(Q, v)
      \/ e.code \notin Undecided /\ Passed(Q, v) /\ e.allowed = TRUE /\ Granted(Q, v)
      \/ e.code \notin Undecided /\ Passed(Q, v) /\ e.allowed = FALSE /\ ~Granted(Q, v)
  BY VerdictMeans
<1>3. ASSUME NEW R, NEW w, NEW S, NEW x, Corresponding(R, w, S, x), Passed(S, x)
      PROVE  ~Denied(R, w) /\ (Granted(R, w) => Granted(S, x))
  BY <1>3 DEF Corresponding, Agree, DataDecisive
<1>4. "data_policy_invalid" \in Undecided
  BY DEF Undecided
<1>5. Passed(Q, v) => ~Denied(P, u) /\ (Granted(P, u) => Granted(Q, v))
  BY <1>3
<1>6. Passed(P, u) => ~Denied(Q, v) /\ (Granted(Q, v) => Granted(P, u))
  BY <1>3
<1> HIDE DEF d, e, Denied, Passed, Granted
<1> QED
  BY <1>1, <1>2, <1>4, <1>5, <1>6 DEF Alike, d, e

\* The data policies of a valid bundle are decided as those of its mirror image.
LEMMA PoliciesAlike ==
  ASSUME NEW b, BundleShape(b), NEW facts, NEW ctx, NEW r, NEW a
  PROVE  LET d == DataVerdict(PoliciesFor(b, r, a), facts, ctx)
             e == DataVerdict(PoliciesFor(Mirrored(b), r, a), facts, ctx)
         IN /\ Alike(d, e)
            /\ d.code \in Undecided => d.code = "data_policy_invalid" /\ ~d.allowed
            /\ e.code \in Undecided => e.code = "data_policy_invalid" /\ ~e.allowed
            /\ d.allowed \in BOOLEAN /\ e.allowed \in BOOLEAN
<1> DEFINE c == Mirrored(b)
           s == b.dataPolicies
           t == c.dataPolicies
           P == PoliciesFor(b, r, a)
           Q == PoliciesFor(c, r, a)
           u == [i \in DOMAIN P |-> PolicyMatch(P[i], facts, ctx)]
           v == [i \in DOMAIN Q |-> PolicyMatch(Q[i], facts, ctx)]
<1>1. DOMAIN b = BundleFields /\ FiniteList(s)
  BY DEF BundleShape
<1>2. t = MirroredPolicies(s)
  BY <1>1, MirrorOf
<1>3. \A p \in Range(s) : DOMAIN p = PolicyFields /\ p.predicate \in Predicate
  BY DEF BundleShape, PolicyFields
<1> HIDE DEF c
<1>4. /\ DOMAIN P = {i \in DOMAIN s : s[i].resource = r /\ s[i].action = a} /\ \A i \in DOMAIN P : P[i] = s[i]
      /\ DOMAIN Q = {i \in DOMAIN t : t[i].resource = r /\ t[i].action = a} /\ \A i \in DOMAIN Q : Q[i] = t[i]
  BY DEF PoliciesFor, Keep
<1>5. DataVerdict(P, facts, ctx) = VerdictOfAnswers(P, u) /\ DataVerdict(Q, facts, ctx) = VerdictOfAnswers(Q, v)
  BY DEF DataVerdict
<1> HIDE DEF P, Q
<1>6. (\A i \in DOMAIN P : u[i] = PolicyMatch(s[i], facts, ctx)) /\ (\A i \in DOMAIN Q : v[i] = PolicyMatch(t[i], facts, ctx))
  BY <1>4
<1>7. PICK f : Rearranges(f, t, s) /\ \A i \in DOMAIN t : t[i] = MirroredPolicy(s[f[i]])
  BY <1>1, <1>2, MirroredBy
<1>8. FiniteList(t)
  BY <1>1, <1>2, MirroredBy
<1> HIDE DEF s, t, u, v
<1>9. ASSUME NEW i \in DOMAIN t
      PROVE  /\ f[i] \in DOMAIN s
             /\ t[i].resource = s[f[i]].resource /\ t[i].action = s[f[i]].action /\ t[i].effect = s[f[i]].effect
             /\ Agree(PolicyMatch(s[f[i]], facts, ctx), PolicyMatch(t[i], facts, ctx))
             /\ Agree(PolicyMatch(t[i], facts, ctx), PolicyMatch(s[f[i]], facts, ctx))
  <2> DEFINE p == s[f[i]]
             q == t[i]
  <2>1. f[i] \in DOMAIN s /\ p \in Range(s)
    BY <1>7 DEF Rearranges, Range
  <2>2. /\ q.resource = p.resource /\ q.action = p.action /\ q.effect = p.effect /\ q.scopes = p.scopes
        /\ q.predicate = MirroredPredicate(p.predicate) /\ p.predicate \in Predicate
    BY <1>3, <1>7, <2>1, EntryImages
  <2> HIDE DEF p, q
  <2>3. Agree(EvaluatePredicate(p.predicate, facts, ctx), EvaluatePredicate(q.predicate, facts, ctx))
    BY <2>2, MirrorAgrees
  <2>4. Agree(PolicyMatch(p, facts, ctx), PolicyMatch(q, facts, ctx))
    BY <2>2, <2>3 DEF PolicyMatch, Agree
  <2> QED
    BY <2>1, <2>2, <2>4 DEF Agree, p, q
<1>10. Corresponding(Q, v, P, u)
  <2> SUFFICES ASSUME NEW i \in DOMAIN Q PROVE \E j \in DOMAIN P : Q[i].effect = P[j].effect /\ Agree(v[i], u[j])
    BY DEF Corresponding
  <2>1. i \in DOMAIN t /\ f[i] \in DOMAIN P
    BY <1>4, <1>9
  <2> QED
    BY <1>4, <1>6, <1>9, <2>1
<1>11. Corresponding(P, u, Q, v)
  <2> SUFFICES ASSUME NEW i \in DOMAIN P PROVE \E j \in DOMAIN Q : P[i].effect = Q[j].effect /\ Agree(u[i], v[j])
    BY DEF Corresponding
  <2>1. PICK j \in DOMAIN t : f[j] = i
    BY <1>4, <1>7 DEF Rearranges
  <2>2. j \in DOMAIN Q
    BY <1>4, <1>9, <2>1
  <2> QED
    BY <1>4, <1>6, <1>9, <2>1, <2>2
<1>12. DOMAIN P \subseteq Nat /\ DOMAIN Q \subseteq Nat
  BY <1>1, <1>4, <1>8 DEF FiniteList
<1> QED
  BY <1>5, <1>10, <1>11, <1>12, VerdictsAlike DEF P, Q, c

\* Some position of a finite list has the highest priority: a minimal set of
\* positions without one is not empty, and the highest of the rest of it, or the
\* position taken out, would do.
LEMMA TopExists ==
  ASSUME NEW D, IsFiniteSet(D), D # {}, NEW list, \A i \in D : list[i].priority \in Int
  PROVE  \E i \in D : \A j \in D : list[j].priority <= list[i].priority
<1> DEFINE pr(i) == list[i].priority
           Topped(V) == \E i \in V : \A j \in V : pr(j) <= pr(i)
           T == {V \in SUBSET D : V # {} /\ ~Topped(V)}
<1>0. \A i \in D : pr(i) \in Int
  OBVIOUS
<1> HIDE DEF pr
<1>1. SUFFICES ASSUME T # {} PROVE FALSE
  BY DEF pr
<1>2. T \subseteq FiniteSubsetsOf(D)
  BY FS_FiniteSubsetsOfFinite
<1>3. PICK V \in T : \A W \in T : <<W, V>> \notin StrictSubsetOrdering(D)
  <2> HIDE DEF T
  <2> QED BY <1>1, <1>2, FS_StrictSubsetOrderingWellFounded, WFMin
<1>4. V \in SUBSET D /\ V # {} /\ ~Topped(V)
  OBVIOUS
<1>5. PICK x \in V : TRUE
  BY <1>4
<1>6. V \ {x} = {} \/ Topped(V \ {x})
  <2>1. <<V \ {x}, V>> \in StrictSubsetOrdering(D)
    BY <1>4, <1>5 DEF StrictSubsetOrdering
  <2>2. V \ {x} \notin T
    BY <1>3, <2>1
  <2>3. V \ {x} \in SUBSET D
    BY <1>4
  <2> QED
    BY <2>2, <2>3
<1>7. \A i \in V : pr(i) \in Int
  BY <1>0, <1>4
<1>8. CASE V \ {x} = {}
  <2>1. \A j \in V : j = x
    BY <1>8
  <2> QED
    BY <1>4, <1>5, <1>7, <2>1
<1>9. CASE Topped(V \ {x})
  <2>1. PICK i \in V \ {x} : \A j \in V \ {x} : pr(j) <= pr(i)
    BY <1>9
  <2>2. \A j \in V : j = x \/ pr(j) <= pr(i)
    BY <2>1
  <2>3. CASE pr(x) <= pr(i)
    BY <1>4, <2>1, <2>2, <2>3
  <2>4. CASE ~(pr(x) <= pr(i))
    <3>1. \A j \in V : pr(j) <= pr(x)
      BY <1>5, <1>7, <2>1, <2>2, <2>4
    <3> QED BY <1>4, <1>5, <3>1
  <2> QED
    BY <2>3, <2>4
<1> QED
  BY <1>6, <1>8, <1>9

\* The rule that decides: the highest of those that do not answer "false".
LEMMA EffectMeans ==
  ASSUME NEW R, NEW u, IsFiniteSet(DOMAIN u), \A i \in DOMAIN u : R[i].priority \in Int, NEW baseline
  PROVE  \/ (\A i \in DOMAIN u : u[i] = "false") /\ EffectOfAnswers(R, u, baseline) = baseline
         \/ \E top \in DOMAIN u :
              /\ u[top] # "false"
              /\ \A j \in DOMAIN u : u[j] # "false" => R[j].priority <= R[top].priority
              /\ EffectOfAnswers(R, u, baseline) = IF u[top] = "error" THEN "error" ELSE R[top].effect
<1> DEFINE decisive == {i \in DOMAIN u : u[i] # "false"}
           top == CHOOSE i \in decisive : \A j \in decisive : R[j].priority <= R[i].priority
<1>1. EffectOfAnswers(R, u, baseline) =
        IF decisive = {} THEN baseline ELSE IF u[top] = "error" THEN "error" ELSE R[top].effect
  BY DEF EffectOfAnswers
<1>2. CASE decisive = {}
  BY <1>1, <1>2
<1>3. CASE decisive # {}
  <2>1. IsFiniteSet(decisive) /\ \A i \in decisive : R[i].priority \in Int
    BY FS_Subset
  <2>2. \E i \in decisive : \A j \in decisive : R[j].priority <= R[i].priority
    <3> HIDE DEF decisive
    <3> QED BY <1>3, <2>1, TopExists
  <2>3. top \in decisive /\ \A j \in decisive : R[j].priority <= R[top].priority
    <3> HIDE DEF decisive
    <3> QED BY <2>2
  <2> HIDE DEF top
  <2> QED
    BY <1>1, <1>3, <2>3
<1> QED
  BY <1>2, <1>3

\* f takes the answered rules of S to those of R, whose priorities tell them apart.
RearrangedRules(R, u, S, v, f) ==
  /\ IsFiniteSet(DOMAIN u) /\ IsFiniteSet(DOMAIN v)
  /\ \A i \in DOMAIN u : R[i].priority \in Int /\ u[i] \in Answers
  /\ \A i, k \in DOMAIN u : R[i].priority = R[k].priority => i = k
  /\ \A i \in DOMAIN u : \E j \in DOMAIN v : f[j] = i
  /\ \A j \in DOMAIN v :
       /\ f[j] \in DOMAIN u /\ v[j] \in Answers /\ Agree(u[f[j]], v[j])
       /\ S[j].priority = R[f[j]].priority /\ S[j].effect = R[f[j]].effect

\* Two effects are one, or one of them is an error.
SameEffect(x, y) == x = "error" \/ y = "error" \/ x = y

\* Rearranged rules with agreeing answers have one effect, unless they fail.
LEMMA EffectsAlike ==
  ASSUME NEW R, NEW S, NEW u, NEW v, NEW f, RearrangedRules(R, u, S, v, f), NEW baseline
  PROVE  SameEffect(EffectOfAnswers(R, u, baseline), EffectOfAnswers(S, v, baseline))
<1>0. /\ IsFiniteSet(DOMAIN u) /\ IsFiniteSet(DOMAIN v)
      /\ \A i \in DOMAIN u : R[i].priority \in Int /\ u[i] \in Answers
      /\ \A i, k \in DOMAIN u : R[i].priority = R[k].priority => i = k
      /\ \A i \in DOMAIN u : \E j \in DOMAIN v : f[j] = i
      /\ \A j \in DOMAIN v :
           /\ f[j] \in DOMAIN u /\ v[j] \in Answers /\ Agree(u[f[j]], v[j])
           /\ S[j].priority = R[f[j]].priority /\ S[j].effect = R[f[j]].effect
  BY DEF RearrangedRules
<1> DEFINE x == EffectOfAnswers(R, u, baseline)
           y == EffectOfAnswers(S, v, baseline)
<1>1. \A j \in DOMAIN v : S[j].priority \in Int
  BY <1>0
<1>2. \/ (\A i \in DOMAIN u : u[i] = "false") /\ x = baseline
      \/ \E top \in DOMAIN u :
           /\ u[top] # "false"
           /\ \A j \in DOMAIN u : u[j] # "false" => R[j].priority <= R[top].priority
           /\ x = IF u[top] = "error" THEN "error" ELSE R[top].effect
  BY <1>0, EffectMeans
<1>3. \/ (\A i \in DOMAIN v : v[i] = "false") /\ y = baseline
      \/ \E top \in DOMAIN v :
           /\ v[top] # "false"
           /\ \A j \in DOMAIN v : v[j] # "false" => S[j].priority <= S[top].priority
           /\ y = IF v[top] = "error" THEN "error" ELSE S[top].effect
  BY <1>0, <1>1, EffectMeans
<1> SUFFICES x = "error" \/ y = "error" \/ x = y
  BY DEF SameEffect
<1> HIDE DEF x, y
<1>4. CASE (\A i \in DOMAIN u : u[i] = "false") /\ x = baseline
  BY <1>0, <1>3, <1>4 DEF Agree
<1>5. CASE (\A i \in DOMAIN v : v[i] = "false") /\ y = baseline
  BY <1>0, <1>2, <1>5 DEF Agree
<1>6. ASSUME NEW i \in DOMAIN u, u[i] # "false", \A k \in DOMAIN u : u[k] # "false" => R[k].priority <= R[i].priority,
             x = IF u[i] = "error" THEN "error" ELSE R[i].effect,
             NEW j \in DOMAIN v, v[j] # "false", \A k \in DOMAIN v : v[k] # "false" => S[k].priority <= S[j].priority,
             y = IF v[j] = "error" THEN "error" ELSE S[j].effect
      PROVE  x = "error" \/ y = "error" \/ x = y
  <2>1. CASE u[i] = "error" \/ v[j] = "error"
    BY <1>6, <2>1
  <2>2. CASE u[i] = "true" /\ v[j] = "true"
    <3>1. PICK k \in DOMAIN v : f[k] = i
      BY <1>0
    <3>2. v[k] # "false" /\ S[k].priority = R[i].priority
      BY <1>0, <2>2, <3>1 DEF Agree
    <3>3. f[j] \in DOMAIN u /\ u[f[j]] # "false" /\ S[j].priority = R[f[j]].priority /\ S[j].effect = R[f[j]].effect
      BY <1>0, <2>2 DEF Agree
    <3>4. R[f[j]].priority <= R[i].priority /\ R[i].priority <= R[f[j]].priority
      BY <1>6, <3>2, <3>3
    <3>5. R[f[j]].priority = R[i].priority
      BY <1>0, <3>3, <3>4
    <3>6. f[j] = i
      BY <1>0, <3>3, <3>5
    <3> QED
      BY <1>6, <2>2, <3>3, <3>6
  <2> QED
    BY <1>0, <1>6, <2>1, <2>2 DEF Answers
<1> QED
  BY <1>2, <1>3, <1>4, <1>5, <1>6

\* The rules of a field and of its mirror image have one effect, unless they fail.
LEMMA RulesAlike ==
  ASSUME NEW p, DOMAIN p = FieldFields, RulesShape(p.rules), ValidRules(p.rules), NEW a, NEW facts, NEW ctx
  PROVE  SameEffect(RuleEffect(p, a, facts, ctx), RuleEffect(MirroredField(p), a, facts, ctx))
<1> DEFINE q == MirroredField(p)
           s == p.rules
           t == q.rules
           R == ActionRules(s, a)
           S == ActionRules(t, a)
           u == [i \in DOMAIN R |-> Matching(R[i].predicate, facts, ctx)]
           v == [i \in DOMAIN S |-> Matching(S[i].predicate, facts, ctx)]
           baseline == BaselineField(p, a)
           M(rule) == Matching(rule.predicate, facts, ctx)
           Acts(rule) == \E candidate \in rule.actions : FieldActionMatches(candidate, a)
<1>1. /\ t = MirroredOptions(s)
      /\ q.read = p.read /\ q.write = p.write /\ q.export = p.export /\ q.masked = p.masked
  BY EntryImages
<1> HIDE DEF q
<1>2. BaselineField(q, a) = baseline
  BY <1>1 DEF BaselineField
<1>3. RuleEffect(p, a, facts, ctx) = EffectOfAnswers(R, u, baseline) /\ RuleEffect(q, a, facts, ctx) = EffectOfAnswers(S, v, baseline)
  <2>1. RuleEffect(q, a, facts, ctx) = EffectOfAnswers(S, v, BaselineField(q, a))
    BY DEF RuleEffect
  <2>2. RuleEffect(p, a, facts, ctx) = EffectOfAnswers(R, u, baseline)
    BY DEF RuleEffect
  <2> QED BY <1>2, <2>1, <2>2
<1>4. /\ FiniteList(s)
      /\ \A i \in DOMAIN s : /\ s[i] \in Range(s) /\ DOMAIN s[i] = RuleFields
                             /\ s[i].priority \in Int /\ Optional(s[i].predicate)
  BY DEF RulesShape, Range, RuleFields
<1>5. \A rule \in Range(s) : \A z \in Range(rule.predicate) : ValidPredicate[z]
  BY Zenon DEF ValidRules
<1>6. \A i, k \in DOMAIN s : s[i].priority = s[k].priority => i = k
  BY Zenon DEF ValidRules, UniqueBy
<1>7. PICK f : Rearranges(f, t, s) /\ \A i \in DOMAIN t : t[i] = MirroredRule(s[f[i]])
  BY <1>1, <1>4, MirroredBy
<1>8. FiniteList(t)
  BY <1>1, <1>4, MirroredBy
<1>9. /\ DOMAIN R = {i \in DOMAIN s : Acts(s[i])} /\ \A i \in DOMAIN R : R[i] = s[i]
      /\ DOMAIN S = {i \in DOMAIN t : Acts(t[i])} /\ \A i \in DOMAIN S : S[i] = t[i]
  BY DEF ActionRules, Keep
<1> HIDE DEF R, S
<1>10. /\ DOMAIN u = DOMAIN R /\ \A i \in DOMAIN u : u[i] = M(s[i])
       /\ DOMAIN v = DOMAIN S /\ \A i \in DOMAIN v : v[i] = M(t[i])
  BY <1>9
<1> HIDE DEF s, t, u, v
<1>11. ASSUME NEW i \in DOMAIN t
       PROVE  /\ f[i] \in DOMAIN s
              /\ t[i].priority = s[f[i]].priority /\ t[i].effect = s[f[i]].effect
              /\ Acts(t[i]) <=> Acts(s[f[i]])
              /\ Agree(M(s[f[i]]), M(t[i])) /\ M(t[i]) \in Answers
  <2>1. f[i] \in DOMAIN s
    BY <1>7 DEF Rearranges
  <2>2. /\ DOMAIN s[f[i]] = RuleFields /\ Optional(s[f[i]].predicate)
        /\ \A z \in Range(s[f[i]].predicate) : ValidPredicate[z]
    BY <1>4, <1>5, <2>1
  <2>3. /\ t[i].priority = s[f[i]].priority /\ t[i].effect = s[f[i]].effect /\ t[i].actions = s[f[i]].actions
        /\ OptionMirrors(s[f[i]].predicate, t[i].predicate)
    BY <1>7, <2>2, EntryImages, OptionImage
  <2>4. Agree(M(s[f[i]]), M(t[i])) /\ M(t[i]) \in Answers
    BY <2>2, <2>3, MatchingAgrees
  <2>5. Acts(t[i]) <=> Acts(s[f[i]])
    BY <2>3
  <2> QED
    BY <2>1, <2>3, <2>4, <2>5
<1>12. ASSUME NEW i \in DOMAIN s PROVE M(s[i]) \in Answers
  BY <1>4, <1>5, OptionImage, MatchingAgrees
<1> HIDE DEF M, Acts
<1>13. /\ DOMAIN u \subseteq DOMAIN s /\ DOMAIN v \subseteq DOMAIN t
       /\ \A j \in DOMAIN t : j \in DOMAIN v <=> f[j] \in DOMAIN u
  BY <1>9, <1>10, <1>11
<1>14. IsFiniteSet(DOMAIN u) /\ IsFiniteSet(DOMAIN v)
  BY <1>4, <1>8, <1>13, FS_Subset DEF FiniteList
<1>15. \A i \in DOMAIN u : R[i].priority \in Int /\ u[i] \in Answers
  BY <1>4, <1>9, <1>10, <1>12
<1>16. \A i, k \in DOMAIN u : R[i].priority = R[k].priority => i = k
  BY <1>6, <1>9, <1>10, <1>13
<1>17. \A i \in DOMAIN u : \E j \in DOMAIN v : f[j] = i
  BY <1>7, <1>13 DEF Rearranges
<1>18. \A j \in DOMAIN v :
         /\ f[j] \in DOMAIN u /\ v[j] \in Answers /\ Agree(u[f[j]], v[j])
         /\ S[j].priority = R[f[j]].priority /\ S[j].effect = R[f[j]].effect
  BY <1>9, <1>10, <1>11, <1>13
<1> HIDE DEF baseline
<1>19. RearrangedRules(R, u, S, v, f)
  BY <1>14, <1>15, <1>16, <1>17, <1>18 DEF RearrangedRules
<1>20. SameEffect(EffectOfAnswers(R, u, baseline), EffectOfAnswers(S, v, baseline))
  BY <1>19, EffectsAlike
<1> QED
  BY <1>3, <1>20 DEF q

\* The best policy of a field is that of its mirror image: the score tells the
\* candidates apart, a field having one policy.
LEMMA BestAlike ==
  ASSUME NEW b, BundleShape(b), ValidFieldPolicies(b), NEW r, NEW n
  PROVE  LET p == FieldCandidates(b, r, n)
             q == FieldCandidates(Mirrored(b), r, n)
         IN /\ DOMAIN p = {} <=> DOMAIN q = {}
            /\ DOMAIN p # {} => /\ BestPolicy(p, r, n) \in Range(b.fieldPolicies)
                                /\ BestPolicy(q, r, n) = MirroredField(BestPolicy(p, r, n))
<1> DEFINE c == Mirrored(b)
           s == b.fieldPolicies
           t == c.fieldPolicies
           p == FieldCandidates(b, r, n)
           q == FieldCandidates(c, r, n)
           Fits(e) == Matches(e.resource, r) /\ Matches(e.field, n)
<1>1. DOMAIN b = BundleFields /\ FiniteList(s)
  BY DEF BundleShape
<1>2. t = MirroredFields(s)
  BY <1>1, MirrorOf
<1>3. \A i \in DOMAIN s : DOMAIN s[i] = FieldFields
  BY DEF BundleShape, FieldFields, Range
<1>4. \A i, k \in DOMAIN s : s[i].resource = s[k].resource /\ s[i].field = s[k].field => i = k
  <2>1. UniqueBy(s, LAMBDA e : <<e.resource, e.field>>)
    BY Zenon DEF ValidFieldPolicies
  <2> HIDE DEF s
  <2> QED BY <2>1 DEF UniqueBy
<1> HIDE DEF c
<1>5. /\ DOMAIN p = {i \in DOMAIN s : Fits(s[i])} /\ \A i \in DOMAIN p : p[i] = s[i]
      /\ DOMAIN q = {i \in DOMAIN t : Fits(t[i])} /\ \A i \in DOMAIN q : q[i] = t[i]
  BY DEF FieldCandidates, Keep
<1> HIDE DEF p, q
<1>6. PICK f : Rearranges(f, t, s) /\ \A i \in DOMAIN t : t[i] = MirroredField(s[f[i]])
  BY <1>1, <1>2, MirroredBy
<1>7. FiniteList(t)
  BY <1>1, <1>2, MirroredBy
<1>8. DOMAIN p \subseteq Nat /\ DOMAIN q \subseteq Nat
  BY <1>1, <1>5, <1>7 DEF FiniteList
<1>9. \A i \in DOMAIN s : s[i] \in Range(b.fieldPolicies)
  BY DEF Range
<1> HIDE DEF s, t
<1>10. ASSUME NEW i \in DOMAIN t
       PROVE  /\ f[i] \in DOMAIN s
              /\ t[i].resource = s[f[i]].resource /\ t[i].field = s[f[i]].field
  <2>1. f[i] \in DOMAIN s
    BY <1>6 DEF Rearranges
  <2> QED
    BY <1>3, <1>6, <2>1, EntryImages
<1>11. \A i \in DOMAIN t : i \in DOMAIN q <=> f[i] \in DOMAIN p
  BY <1>5, <1>10
<1>12. \A i \in DOMAIN p : \E j \in DOMAIN q : f[j] = i
  BY <1>5, <1>6, <1>11 DEF Rearranges
<1>13. DOMAIN p = {} <=> DOMAIN q = {}
  BY <1>5, <1>11, <1>12
<1>14. ASSUME DOMAIN p # {}
       PROVE  /\ BestPolicy(p, r, n) \in Range(b.fieldPolicies)
              /\ BestPolicy(q, r, n) = MirroredField(BestPolicy(p, r, n))
  <2>1. PICK i \in BestPositions(p, r, n) : BestPolicy(p, r, n) = p[i]
    BY <1>8, <1>14, BestIsFirst
  <2>2. PICK j \in BestPositions(q, r, n) : BestPolicy(q, r, n) = q[j]
    BY <1>8, <1>13, <1>14, BestIsFirst
  <2>3. /\ i \in DOMAIN p /\ \A k \in DOMAIN p : Score(p[k], r, n) <= Score(p[i], r, n)
        /\ j \in DOMAIN q /\ \A k \in DOMAIN q : Score(q[k], r, n) <= Score(q[j], r, n)
    BY <2>1, <2>2 DEF BestPositions, Range
  <2>4. \A k \in DOMAIN q : f[k] \in DOMAIN p /\ Score(q[k], r, n) = Score(p[f[k]], r, n)
    BY <1>5, <1>10, <1>11 DEF Score
  <2>5. Score(p[f[j]], r, n) <= Score(p[i], r, n) /\ Score(p[i], r, n) <= Score(p[f[j]], r, n)
    <3>1. PICK k \in DOMAIN q : f[k] = i
      BY <1>12, <2>3
    <3> QED BY <2>3, <2>4, <3>1
  <2>6. \A e : Score(e, r, n) \in Nat
    BY DEF Score
  <2>7. Score(p[f[j]], r, n) = Score(p[i], r, n)
    BY <2>5, <2>6
  <2>8. Fits(s[i]) /\ Fits(s[f[j]]) /\ i \in DOMAIN s /\ f[j] \in DOMAIN s /\ p[i] = s[i] /\ p[f[j]] = s[f[j]]
    BY <1>5, <2>3, <2>4
  <2>9. \A d, e : Fits(d) /\ Fits(e) /\ Score(d, r, n) = Score(e, r, n) => d.resource = e.resource /\ d.field = e.field
    BY DEF Score, Matches
  <2>10. f[j] = i
    <3> HIDE DEF Fits
    <3> QED BY <1>4, <2>7, <2>8, <2>9
  <2>11. q[j] = MirroredField(s[i])
    BY <1>5, <1>6, <2>3, <2>10
  <2> QED
    BY <1>9, <2>1, <2>2, <2>8, <2>11
<1> QED
  BY <1>13, <1>14 DEF p, q, c

\* The effect on a field is that of the mirror image, unless one of them fails.
LEMMA FieldsAlike ==
  ASSUME NEW b, BundleShape(b), ValidFieldPolicies(b), ValidGuardrails(b), NEW r, NEW n, NEW a, NEW facts, NEW ctx
  PROVE  SameEffect(EvaluateField(b, r, n, a, facts, ctx), EvaluateField(Mirrored(b), r, n, a, facts, ctx))
<1> DEFINE c == Mirrored(b)
           x == EvaluateField(b, r, n, a, facts, ctx)
           y == EvaluateField(c, r, n, a, facts, ctx)
           v == GuardrailAnswers(FieldGuardrails(b, r, n, a), facts, ctx)
           w == GuardrailAnswers(FieldGuardrails(c, r, n, a), facts, ctx)
           p == FieldCandidates(b, r, n)
           q == FieldCandidates(c, r, n)
           o == IF DOMAIN p = {} THEN "hide" ELSE RuleEffect(BestPolicy(p, r, n), a, facts, ctx)
           e == IF DOMAIN q = {} THEN "hide" ELSE RuleEffect(BestPolicy(q, r, n), a, facts, ctx)
<1> SUFFICES SameEffect(x, y)
  OBVIOUS
<1>1. x = "error" \/ (x = Guarded(v, "error", "hide", o) /\ y = Guarded(w, "error", "hide", e))
  <2> HIDE DEF c, v, w, p, q
  <2> QED BY Zenon DEF EvaluateField, v, w, p, q
<1>2. LET g == Guarded(v, "error", "hide", o)
          h == Guarded(w, "error", "hide", e)
      IN g = "error" \/ h = "error" \/ (g = "hide" /\ h = "hide") \/ (g = o /\ h = e)
  <2>1. /\ DOMAIN v \subseteq Nat /\ DOMAIN w \subseteq Nat /\ AgreeingLists(v, w)
        /\ (\A i \in DOMAIN v : v[i] \in Answers) /\ (\A j \in DOMAIN w : w[j] \in Answers)
    BY GuardrailsAgree
  <2> HIDE DEF v, w, o, e
  <2> QED BY <2>1, GuardedAlike
<1>3. SameEffect(o, e)
  <2>1. /\ DOMAIN p = {} <=> DOMAIN q = {}
        /\ DOMAIN p # {} => /\ BestPolicy(p, r, n) \in Range(b.fieldPolicies)
                            /\ BestPolicy(q, r, n) = MirroredField(BestPolicy(p, r, n))
    BY BestAlike
  <2>2. \A z \in Range(b.fieldPolicies) : DOMAIN z = FieldFields /\ RulesShape(z.rules)
    BY DEF BundleShape, FieldFields
  <2>3. \A z \in Range(b.fieldPolicies) : ValidRules(z.rules)
    BY Zenon DEF ValidFieldPolicies
  <2> HIDE DEF p, q, c
  <2>4. CASE DOMAIN p = {}
    BY <2>1, <2>4 DEF SameEffect
  <2>5. CASE DOMAIN p # {}
    BY <2>1, <2>2, <2>3, <2>5, RulesAlike
  <2> QED
    BY <2>4, <2>5
<1> HIDE DEF x, y, v, w, o, e
<1> QED
  BY <1>1, <1>2, <1>3 DEF SameEffect

\* The function grants of the mirror image have the same effects.
LEMMA GrantsAlike ==
  ASSUME NEW b, BundleShape(b)
  PROVE  /\ \A pair : FunctionEffects(Mirrored(b), pair) = FunctionEffects(b, pair)
         /\ PermissionKeys(Mirrored(b)) = PermissionKeys(b)
<1> DEFINE c == Mirrored(b)
<1>1. c.functionGrants = Reversed(b.functionGrants)
  BY MirrorOf DEF BundleShape
<1>2. FiniteList(b.functionGrants)
  BY DEF BundleShape
<1>3. Range(c.functionGrants) = Range(b.functionGrants)
  BY <1>1, <1>2, MirroredBy, RearrangedRange
<1> HIDE DEF c
<1>4. \A pair : FunctionEffects(c, pair) = FunctionEffects(b, pair)
  BY <1>3 DEF FunctionEffects
<1>5. PermissionKeys(c) = PermissionKeys(b)
  BY <1>3, <1>4 DEF PermissionKeys
<1> QED
  BY <1>4, <1>5 DEF c

\* A request for a field is decided alike if its record is and the effects are one.
LEMMA FieldStageAlike ==
  ASSUME NEW d, NEW e, Alike(d, e),
         d.code \in Undecided => d.code = "data_policy_invalid" /\ ~d.allowed,
         e.code \in Undecided => e.code = "data_policy_invalid" /\ ~e.allowed,
         d.allowed \in BOOLEAN, e.allowed \in BOOLEAN, NEW n, NEW x, NEW y, SameEffect(x, y)
  PROVE  Alike(WithField(d, n, x), WithField(e, n, y))
<1> DEFINE g == FieldVerdict(x)
           h == FieldVerdict(y)
<1>1. Alike(g, h)
  <2>1. FieldVerdict("error").code \in Undecided
    BY DEF FieldVerdict, Verdict, Undecided
  <2> QED BY <2>1 DEF Alike, SameEffect
<1>2. WithField(d, n, x) = d \/ (d.allowed /\ WithField(d, n, x) = g /\ n # Blank)
  BY Zenon DEF WithField, Blank
<1>3. WithField(e, n, y) = e \/ (e.allowed /\ WithField(e, n, y) = h /\ n # Blank)
  BY Zenon DEF WithField, Blank
<1>4. d.allowed /\ n # Blank => WithField(d, n, x) = g
  BY Zenon DEF WithField, Blank
<1>5. e.allowed /\ n # Blank => WithField(e, n, y) = h
  BY Zenon DEF WithField, Blank
<1> HIDE DEF g, h
<1> QED
  BY <1>1, <1>2, <1>3, <1>4, <1>5 DEF Alike

\* A decision on a valid bundle is that on its mirror image.
LEMMA LayersAlike ==
  ASSUME NEW b, BundleShape(b), ValidFieldPolicies(b), ValidGuardrails(b),
         NEW r, NEW a, NEW n, NEW facts, NEW ctx
  PROVE  Alike(Layers(b, r, a, n, facts, ctx), Layers(Mirrored(b), r, a, n, facts, ctx))
<1> DEFINE c == Mirrored(b)
           v == GuardrailAnswers(RecordGuardrails(b, r, a), facts, ctx)
           w == GuardrailAnswers(RecordGuardrails(c, r, a), facts, ctx)
           d == DataVerdict(PoliciesFor(b, r, a), facts, ctx)
           e == DataVerdict(PoliciesFor(c, r, a), facts, ctx)
           x == EvaluateField(b, r, n, a, facts, ctx)
           y == EvaluateField(c, r, n, a, facts, ctx)
           failed == Verdict(FALSE, "guardrail_invalid", FALSE)
           denied == Verdict(FALSE, "guardrail_denied", FALSE)
           k == Layers(b, r, a, n, facts, ctx)
           l == Layers(c, r, a, n, facts, ctx)
<1>1. FunctionEffects(c, <<r, a>>) = FunctionEffects(b, <<r, a>>)
  BY GrantsAlike
<1>2. Alike(WithField(d, n, x), WithField(e, n, y))
  <2>1. /\ Alike(d, e)
        /\ d.code \in Undecided => d.code = "data_policy_invalid" /\ ~d.allowed
        /\ e.code \in Undecided => e.code = "data_policy_invalid" /\ ~e.allowed
        /\ d.allowed \in BOOLEAN /\ e.allowed \in BOOLEAN
    BY PoliciesAlike
  <2>2. SameEffect(x, y)
    BY FieldsAlike
  <2> HIDE DEF d, e, x, y
  <2> QED BY <2>1, <2>2, FieldStageAlike
<1>3. /\ DOMAIN v \subseteq Nat /\ DOMAIN w \subseteq Nat /\ AgreeingLists(v, w)
      /\ (\A i \in DOMAIN v : v[i] \in Answers) /\ (\A j \in DOMAIN w : w[j] \in Answers)
  BY GuardrailsAgree
<1>4. k = l \/ (k = Guarded(v, failed, denied, WithField(d, n, x)) /\ l = Guarded(w, failed, denied, WithField(e, n, y)))
  <2> HIDE DEF c, v, w, d, e, x, y
  <2> QED BY <1>1, Zenon DEF Layers, FunctionGranted, v, w, d, e, x, y
<1>5. failed.code \in Undecided /\ ~failed.allowed
  BY DEF Verdict, Undecided
<1> HIDE DEF c, v, w, d, e, x, y, failed, denied, k, l
<1>6. LET g == Guarded(v, failed, denied, WithField(d, n, x))
          h == Guarded(w, failed, denied, WithField(e, n, y))
      IN g = failed \/ h = failed \/ (g = denied /\ h = denied) \/ (g = WithField(d, n, x) /\ h = WithField(e, n, y))
  BY <1>3, GuardedAlike
<1>7. Alike(k, l)
  BY <1>2, <1>4, <1>5, <1>6 DEF Alike
<1> QED
  BY <1>7 DEF k, l, c

\* OrderDecidesNothing holds of every bundle of the right shape.
LEMMA OrderlessHere ==
  ASSUME BundleShape(bundle)
  PROVE  OrderDecidesNothing
<1> DEFINE b == bundle
           c == Mirrored(b)
<1> DEFINE Decided(pair, field, record, claims) ==
             LET decisions == {Layers(z, pair[1], pair[2], field, record, Context(z, claims)) : z \in {b, c}}
             IN \/ Cardinality({d.allowed : d \in decisions}) = 1
                \/ {d.code : d \in decisions} \intersect Undecided # {}
<1> SUFFICES ASSUME ValidBundle(b, now)
             PROVE  /\ \A z \in {b, c} : ValidBundle(z, now)
                    /\ Cardinality({<<Canonical(z), PermissionKeys(z)>> : z \in {b, c}}) = 1
                    /\ \A pair \in PermissionKeys(b) \intersect Pair, field \in Field \union {""},
                          record \in Record, claims \in BusinessClaims : Decided(pair, field, record, claims)
  BY Zenon DEF OrderDecidesNothing
<1>1. ValidBundle(c, now)
  BY MirroredValid
<1>2. Cardinality({<<Canonical(z), PermissionKeys(z)>> : z \in {b, c}}) = 1
  <2>1. Canonical(c) = Canonical(b) /\ PermissionKeys(c) = PermissionKeys(b)
    BY MirroredBundleCanonical, GrantsAlike
  <2> HIDE DEF b, c
  <2>2. {<<Canonical(z), PermissionKeys(z)>> : z \in {b, c}} = {<<Canonical(b), PermissionKeys(b)>>}
    BY <2>1
  <2> QED BY <2>2, FS_Singleton
<1>3. ASSUME NEW pair, NEW field, NEW record, NEW claims
      PROVE  Decided(pair, field, record, claims)
  <2> DEFINE ctx == Context(b, claims)
             k == Layers(b, pair[1], pair[2], field, record, ctx)
             l == Layers(c, pair[1], pair[2], field, record, ctx)
             decisions == {Layers(z, pair[1], pair[2], field, record, Context(z, claims)) : z \in {b, c}}
  <2>1. Context(c, claims) = ctx
    <3>1. c.subject = b.subject
      BY MirrorOf DEF BundleShape
    <3> HIDE DEF c
    <3> QED BY <3>1 DEF Context
  <2>2. decisions = {k, l}
    <3> HIDE DEF b, c
    <3> QED BY <2>1
  <2>3. Alike(k, l)
    <3>1. ValidFieldPolicies(b) /\ ValidGuardrails(b)
      BY Zenon DEF ValidBundle
    <3> HIDE DEF ctx
    <3> QED BY <3>1, LayersAlike
  <2> HIDE DEF k, l, decisions
  <2>4. CASE k.allowed = l.allowed
    <3>1. {d.allowed : d \in decisions} = {k.allowed}
      BY <2>2, <2>4
    <3>2. Cardinality({d.allowed : d \in decisions}) = 1
      BY <3>1, FS_Singleton
    <3> QED BY <3>2 DEF decisions
  <2>5. CASE k.code \in Undecided \/ l.code \in Undecided
    <3>1. {d.code : d \in decisions} \intersect Undecided # {}
      BY <2>2, <2>5
    <3> QED BY <3>1 DEF decisions
  <2> QED
    BY <2>3, <2>4, <2>5 DEF Alike
<1>4. \A z \in {b, c} : ValidBundle(z, now)
  BY <1>1
<1> HIDE DEF c, Decided
<1> QED
  BY <1>2, <1>3, <1>4, Zenon

\* Reversing every list of a bundle, however it was narrowed or derived, keeps it
\* valid, its canonical form and permissions what they are, and every decision
\* that met no predicate it could not evaluate.
THEOREM OrderIsForgotten == Spec => []OrderDecidesNothing
<1>1. TypeOK => OrderDecidesNothing
  BY OrderlessHere DEF TypeOK
<1> QED
  BY <1>1, TypeCorrect, PTL

=============================================================================
