--------------------------- MODULE PolicyLanguage ---------------------------
(***************************************************************************)
(* The predicate language of an access bundle (authorization/policy.go) and *)
(* its two readings: the local evaluator, which answers true, false or an   *)
(* error from the facts of one record, and the SQL compiler, whose clause a *)
(* database evaluates in three-valued logic over the columns of that        *)
(* record.  A fact the caller does not have is the NULL of its column.      *)
(*                                                                         *)
(* A predicate is a record                                                  *)
(*   [fact, operator, value, path, all, any, not]                           *)
(* with all, any sequences of predicates, not a sequence of at most one,    *)
(* path a sequence telling of each relation segment whether it is well      *)
(* formed.  A value is [kind, items]: a "scalar" (one item; "true" and      *)
(* "false" are the booleans), a "list", "nil", or a reference to a          *)
(* "subject" claim or a business "claim", named by its item.  Texts are     *)
(* opaque: only equality and the relation Prefixes tell them apart.         *)
(***************************************************************************)
EXTENDS Integers, Sequences, FiniteSets, Functions

CONSTANTS
  Predicate,   \* the predicates of the instance, with all their parts
  Prefixes,    \* the pairs <<text, prefix>> for which strings.HasPrefix holds
  Columns      \* the facts a Runtime's ColumnResolver can translate

Absent == "absent"
Booleans == {"true", "false"}
ZeroPredicate ==
  [fact |-> "", operator |-> "", value |-> [kind |-> "nil", items |-> <<>>],
   path |-> <<>>, all |-> <<>>, any |-> <<>>, not |-> <<>>]

Parts(p) == Range(p.all) \union Range(p.any) \union Range(p.not)

\* A predicate is a finite tree: every part is less deep than the whole.
Depth[p \in Predicate] ==
  LET depths == {Depth[q] : q \in Parts(p)}
  IN IF depths = {} THEN 0 ELSE 1 + (CHOOSE d \in depths : \A e \in depths : e <= d)

\* The set of predicates is closed under taking parts and holds the zero one.
ASSUME PredicateAssumption ==
  /\ ZeroPredicate \in Predicate
  /\ \A p \in Predicate :
       /\ DOMAIN p = DOMAIN ZeroPredicate
       /\ {p.all, p.any, p.not} \subseteq Seq(Predicate)
       /\ Len(p.not) <= 1
       /\ Depth[p] \in Nat
       /\ \A q \in Parts(p) : Depth[q] < Depth[p]

Least(S) == CHOOSE i \in S : \A j \in S : i <= j

-----------------------------------------------------------------------------
(* Predicate.Validate *)

Operators == {"eq", "neq", "in", "not_in", "exists", "prefix"}

HasLeaf(p) == p.fact # "" \/ p.operator # ""

Branches(p) == {b \in {"leaf", "all", "any", "not"} :
                  \/ b = "leaf" /\ HasLeaf(p)
                  \/ b = "all" /\ p.all # <<>>
                  \/ b = "any" /\ p.any # <<>>
                  \/ b = "not" /\ p.not # <<>>}

\* Exactly one of leaf, all, any and not; a path only beside a leaf, of at
\* most three well-formed segments.
WellFormed(p) ==
  /\ HasLeaf(p) => p.fact # "" /\ p.operator \in Operators
  /\ Cardinality(Branches(p)) = 1
  /\ p.path # <<>> => /\ Len(p.path) <= 3
                      /\ Branches(p) = {"leaf"}
                      /\ \A i \in DOMAIN p.path : p.path[i]

ValidPredicate[p \in Predicate] ==
  WellFormed(p) /\ \A q \in Parts(p) : ValidPredicate[q]

-----------------------------------------------------------------------------
(* canonicalPredicate: the lists whose order means nothing are sorted.  The   *)
(* order sorted by is any order of the permutations of a list: CHOOSE takes   *)
(* the same one for each of them.                                            *)

Ordered(list) ==
  CHOOSE s \in {[i \in DOMAIN list |-> list[f[i]]] : f \in Bijection(DOMAIN list, DOMAIN list)} : TRUE

CanonicalValue(p) ==
  IF p.operator \in {"in", "not_in"} THEN [p.value EXCEPT !.items = Ordered(@)] ELSE p.value

\* Mutant: the parts are put in canonical form, and left in their order.
CanonicalPredicateUnsorted(predicate) ==
  LET canonical[p \in Predicate] ==
        [p EXCEPT !.value = CanonicalValue(p),
                  !.all = [i \in DOMAIN p.all |-> canonical[p.all[i]]],
                  !.any = [i \in DOMAIN p.any |-> canonical[p.any[i]]],
                  !.not = [i \in DOMAIN p.not |-> canonical[p.not[i]]]]
  IN canonical[predicate]

CanonicalPredicate(predicate) ==
  LET canonical[p \in Predicate] ==
        [p EXCEPT !.value = CanonicalValue(p),
                  !.all = Ordered([i \in DOMAIN p.all |-> canonical[p.all[i]]]),
                  !.any = Ordered([i \in DOMAIN p.any |-> canonical[p.any[i]]]),
                  !.not = [i \in DOMAIN p.not |-> canonical[p.not[i]]]]
  IN canonical[predicate]

-----------------------------------------------------------------------------
(* evaluator.ResolveValue: ctx is [subject, claims], both functions from    *)
(* claim names to values.                                                   *)

ValueError == [kind |-> "error", items |-> <<>>]
Missing == [kind |-> "missing", items |-> <<>>]

ResolveValue(value, ctx) ==
  CASE value.kind = "subject" /\ value.items[1] \in DOMAIN ctx.subject -> ctx.subject[value.items[1]]
    [] value.kind = "subject" /\ value.items[1] \notin DOMAIN ctx.subject -> ValueError
    [] value.kind = "claim" /\ value.items[1] = "" -> ValueError
    [] value.kind = "claim" /\ value.items[1] # "" ->
         IF value.items[1] \in DOMAIN ctx.claims THEN ctx.claims[value.items[1]] ELSE Missing
    [] OTHER -> value

IsScalar(value) == value.kind = "scalar"
Same(actual, expected) == IsScalar(expected) /\ expected.items[1] = actual
Truth(b) == IF b THEN "true" ELSE "false"

-----------------------------------------------------------------------------
(* EvaluatePredicateWithContext *)

\* One fact against its resolved value.  A missing business claim is no match,
\* whatever the operator; an absent fact matches only "exists false".
LeafAnswer(operator, actual, expected) ==
  LET exists == actual # Absent
  IN IF expected.kind = "error" THEN "error"
     ELSE IF expected.kind = "missing" THEN "false"
     ELSE CASE operator = "exists" ->
                 IF IsScalar(expected) /\ expected.items[1] \in Booleans
                 THEN Truth(exists = (expected.items[1] = "true")) ELSE "error"
            [] operator \in {"in", "not_in"} ->
                 IF expected.kind # "list" THEN "error"
                 ELSE Truth(exists /\ ((actual \in Range(expected.items)) = (operator = "in")))
            [] operator = "eq" -> Truth(exists /\ Same(actual, expected))
            [] operator = "neq" -> Truth(exists /\ ~Same(actual, expected))
            [] operator = "prefix" ->
                 Truth(exists /\ IsScalar(expected) /\ <<actual, expected.items[1]>> \in Prefixes)

EvaluateLeaf(p, facts, ctx) == LeafAnswer(p.operator, facts[p.fact], ResolveValue(p.value, ctx))

\* A loop over the parts stops at the first that does not answer `onward'.
Loop(answers, onward) ==
  LET decisive == {i \in DOMAIN answers : answers[i] # onward}
  IN IF decisive = {} THEN onward ELSE answers[Least(decisive)]

Negated(answer) ==
  CASE answer = "true" -> "false" [] answer = "false" -> "true" [] OTHER -> answer

EvaluatePredicate(predicate, facts, ctx) ==
  LET answer[p \in Predicate] ==
        IF ~ValidPredicate[p] \/ p.path # <<>> THEN "error"
        ELSE IF p.all # <<>> THEN Loop([i \in DOMAIN p.all |-> answer[p.all[i]]], "true")
        ELSE IF p.any # <<>> THEN Loop([i \in DOMAIN p.any |-> answer[p.any[i]]], "false")
        ELSE IF p.not # <<>> THEN Negated(answer[p.not[1]])
        ELSE EvaluateLeaf(p, facts, ctx)
  IN answer[predicate]

-----------------------------------------------------------------------------
(* compilePredicate: whether a clause is produced, and what the database     *)
(* makes of it on one row.                                                  *)

\* A leaf compiles when its fact has a column and its value fits the operator;
\* an IN of nothing is refused, a missing claim compiles to 0 = 1.
ValueFits(operator, expected) ==
  /\ expected.kind # "error"
  /\ expected.kind # "missing" =>
       /\ operator = "prefix" => IsScalar(expected) /\ expected.items[1] \notin Booleans
       /\ operator = "exists" => IsScalar(expected) /\ expected.items[1] \in Booleans
       /\ operator \in {"in", "not_in"} => expected.kind = "list" /\ expected.items # <<>>

LeafCompiles(p, ctx) == p.fact \in Columns /\ ValueFits(p.operator, ResolveValue(p.value, ctx))

Compiles(predicate, ctx) ==
  LET ok[p \in Predicate] ==
        /\ ValidPredicate[p]
        /\ p.path = <<>>
        /\ \A q \in Parts(p) : ok[q]
        /\ HasLeaf(p) => LeafCompiles(p, ctx)
  IN ok[predicate]

\* Three-valued conjunction, disjunction and negation of SQL.
SQLAnd(answers) ==
  IF "false" \in answers THEN "false" ELSE IF "unknown" \in answers THEN "unknown" ELSE "true"
SQLOr(answers) ==
  IF "true" \in answers THEN "true" ELSE IF "unknown" \in answers THEN "unknown" ELSE "false"

\* A comparison with NULL on either side is unknown; IS [NOT] NULL never is.
SQLComparison(operator, actual, expected) ==
  IF expected.kind = "missing" THEN "false"
  ELSE IF operator = "exists" THEN Truth((actual # Absent) = (expected.items[1] = "true"))
  ELSE IF actual = Absent \/ expected.kind = "nil" THEN "unknown"
  ELSE CASE operator = "eq" -> Truth(Same(actual, expected))
         [] operator = "neq" -> Truth(~Same(actual, expected))
         [] operator = "prefix" -> Truth(<<actual, expected.items[1]>> \in Prefixes)
         [] operator \in {"in", "not_in"} ->
              Truth((actual \in Range(expected.items)) = (operator = "in"))

SQLLeaf(p, row, ctx) == SQLComparison(p.operator, row[p.fact], ResolveValue(p.value, ctx))

SQLTruth(predicate, row, ctx) ==
  LET answer[p \in Predicate] ==
        IF p.all # <<>> THEN SQLAnd({answer[p.all[i]] : i \in DOMAIN p.all})
        ELSE IF p.any # <<>> THEN SQLOr({answer[p.any[i]] : i \in DOMAIN p.any})
        ELSE IF p.not # <<>> THEN Negated(answer[p.not[1]])
        ELSE SQLLeaf(p, row, ctx)
  IN answer[predicate]

=============================================================================
