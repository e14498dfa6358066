------------------------ MODULE PolicyLanguageProofs ------------------------
(***************************************************************************)
(* What the recursive functions of PolicyLanguage compute, for every finite *)
(* predicate.  Predicates are finite trees (PredicateAssumption), so that a  *)
(* non-empty set of them has a member no part of which is in it: induction  *)
(* over predicates is the choice of a minimal counterexample, and a         *)
(* recursive function satisfies its equation because the partial functions  *)
(* that satisfy it agree.                                                   *)
(***************************************************************************)
EXTENDS PolicyLanguage, WellFoundedInduction, FiniteSetTheorems, TLAPS

\* A set of naturals has a least member, and Least finds it.
LEMMA LeastMember ==
  ASSUME NEW S, S \subseteq Nat, S # {}
  PROVE  Least(S) \in S /\ \A j \in S : Least(S) <= j
<1>1. PICK i \in S : \A j \in S : <<j, i>> \notin OpToRel(<, Nat)
  BY NatLessThanWellFounded, WFMin
<1>2. \A j \in S : ~(j < i)
  BY <1>1 DEF OpToRel
<1>3. \A j \in S : i <= j
  BY <1>2
<1> QED
  BY <1>3 DEF Least

-----------------------------------------------------------------------------
(* Predicates as finite trees *)

\* The parts of a predicate are predicates, and its lists sequences of them.
LEMMA PartsArePredicates ==
  ASSUME NEW p \in Predicate
  PROVE  /\ p.all \in Seq(Predicate) /\ p.any \in Seq(Predicate) /\ p.not \in Seq(Predicate)
         /\ Parts(p) \subseteq Predicate
         /\ \A list \in {p.all, p.any, p.not} : \A i \in DOMAIN list :
              i \in Nat /\ list[i] \in Parts(p)
<1>1. /\ p.all \in Seq(Predicate) /\ p.any \in Seq(Predicate) /\ p.not \in Seq(Predicate)
  BY PredicateAssumption
<1>2. ASSUME NEW list \in Seq(Predicate)
      PROVE  Range(list) \subseteq Predicate /\ \A i \in DOMAIN list : i \in Nat /\ list[i] \in Range(list)
  BY DEF Range
<1> QED
  BY <1>1, <1>2 DEF Parts

\* Induction over predicates: a set of predicates that is not empty has a member
\* whose parts are all outside it.
LEMMA MinimalPredicate ==
  ASSUME NEW T, T \subseteq Predicate, T # {}
  PROVE  \E p \in T : \A q \in Parts(p) : q \notin T
<1> DEFINE depths == {Depth[p] : p \in T}
<1>1. depths \subseteq Nat /\ depths # {}
  BY PredicateAssumption
<1>2. PICK d \in depths : \A e \in depths : d <= e
  <2> HIDE DEF depths
  <2> QED BY <1>1, LeastMember
<1>3. PICK p \in T : Depth[p] = d
  OBVIOUS
<1>4. ASSUME NEW q \in Parts(p), q \in T PROVE FALSE
  <2>1. Depth[q] \in depths /\ Depth[p] \in depths
    BY <1>4
  <2>2. d <= Depth[q]
    BY <1>2, <2>1
  <2>3. Depth[q] < Depth[p]
    BY PredicateAssumption
  <2>4. d \in Nat /\ Depth[q] \in Nat
    <3> HIDE DEF depths
    <3> QED BY <1>1, <2>1
  <2> QED
    BY <1>3, <2>2, <2>3, <2>4
<1> QED
  BY <1>4

-----------------------------------------------------------------------------
(* Recursive functions over predicates.  Step[p] turns the function into its *)
(* value at p, and reads it only at the parts of p.                          *)

ReadsParts(Step, Fs) ==
  \A p \in Predicate : \A f, g \in Fs :
    (\A q \in Parts(p) : f[q] = g[q]) => Step[p][f] = Step[p][g]

\* f satisfies its equation on a set of predicates that is closed under parts.
SolvesOn(A, f, Step) ==
  /\ A \subseteq Predicate
  /\ \A p \in A : Parts(p) \subseteq A /\ f[p] = Step[p][f]

\* Two functions that solve an equation agree where both do.
LEMMA SolutionsAgree ==
  ASSUME NEW Fs, NEW Step, ReadsParts(Step, Fs), NEW A, NEW B, NEW f \in Fs, NEW g \in Fs,
         SolvesOn(A, f, Step), SolvesOn(B, g, Step)
  PROVE  \A p \in A \intersect B : f[p] = g[p]
<1> DEFINE T == {p \in A \intersect B : f[p] # g[p]}
<1>1. SUFFICES ASSUME T # {} PROVE FALSE
  OBVIOUS
<1>2. T \subseteq Predicate
  BY DEF SolvesOn
<1>3. PICK p \in T : \A q \in Parts(p) : q \notin T
  <2> HIDE DEF T
  <2> QED BY <1>1, <1>2, MinimalPredicate
<1>4. \A q \in Parts(p) : f[q] = g[q]
  BY <1>3 DEF SolvesOn
<1>5. Step[p][f] = Step[p][g]
  BY <1>2, <1>4 DEF ReadsParts
<1> QED
  BY <1>5 DEF SolvesOn

\* An equation for a function from predicates to V that reads parts only.
WellDefined(Step, Fs, V) ==
  /\ V # {}
  /\ Fs = [Predicate -> V]
  /\ Step \in [Predicate -> [Fs -> V]]
  /\ ReadsParts(Step, Fs)

\* Such an equation has a solution on all predicates.
LEMMA RecursionHasSolution ==
  ASSUME NEW Step, NEW Fs, NEW V, WellDefined(Step, Fs, V)
  PROVE  \E f \in Fs : f = [p \in Predicate |-> Step[p][f]]
<1>0. /\ Fs = [Predicate -> V]
      /\ Step \in [Predicate -> [Fs -> V]]
      /\ ReadsParts(Step, Fs)
  BY DEF WellDefined
<1> PICK v0 \in V : TRUE
  BY DEF WellDefined
<1> DEFINE At(p, v) == \E A, f : f \in Fs /\ SolvesOn(A, f, Step) /\ p \in A /\ f[p] = v
           D == {p \in Predicate : \E v \in V : At(p, v)}
           F == [p \in Predicate |-> IF p \in D THEN CHOOSE v \in V : At(p, v) ELSE v0]
<1>1. F \in Fs
  BY <1>0
<1>2. ASSUME NEW A, NEW f \in Fs, SolvesOn(A, f, Step), NEW p \in A
      PROVE  p \in D /\ F[p] = f[p]
  <2>1. At(p, f[p]) /\ p \in Predicate /\ f[p] \in V
    BY <1>0, <1>2 DEF SolvesOn
  <2>2. p \in D
    BY <2>1
  <2>3. PICK v \in V : v = F[p] /\ At(p, v)
    BY <2>1, <2>2
  <2>4. v = f[p]
    <3>1. PICK B, g : g \in Fs /\ SolvesOn(B, g, Step) /\ p \in B /\ g[p] = v
      BY <2>3
    <3>2. p \in B \intersect A
      BY <3>1
    <3>3. g[p] = f[p]
      <4>1. g \in Fs /\ f \in Fs /\ ReadsParts(Step, Fs)
        BY <1>0, <3>1
      <4>2. SolvesOn(A, f, Step) /\ SolvesOn(B, g, Step)
        BY <1>2, <3>1
      <4>3. SUFFICES \A x \in B \intersect A : g[x] = f[x]
        BY <3>2
      <4> HIDE DEF F, D, At
      <4> QED BY <4>1, <4>2, SolutionsAgree
    <3> QED
      BY <3>1, <3>3
  <2> QED
    BY <2>2, <2>3, <2>4
<1>3. SolvesOn(D, F, Step)
  <2>1. ASSUME NEW p \in D PROVE Parts(p) \subseteq D /\ F[p] = Step[p][F]
    <3>1. PICK A, f : f \in Fs /\ SolvesOn(A, f, Step) /\ p \in A
      BY <2>1
    <3>2. Parts(p) \subseteq A /\ f[p] = Step[p][f]
      BY <3>1 DEF SolvesOn
    <3>3. Parts(p) \subseteq D /\ F[p] = f[p] /\ \A q \in Parts(p) : F[q] = f[q]
      <4> HIDE DEF D, F
      <4> QED BY <1>2, <3>1, <3>2
    <3>4. Step[p][F] = Step[p][f]
      <4> HIDE DEF F
      <4> QED BY <1>0, <1>1, <2>1, <3>1, <3>3 DEF ReadsParts
    <3> QED
      BY <3>2, <3>3, <3>4
  <2> QED
    BY <2>1 DEF SolvesOn
<1>4. D = Predicate
  <2>1. SUFFICES ASSUME Predicate \ D # {} PROVE FALSE
    OBVIOUS
  <2>2. PICK p \in Predicate \ D : \A q \in Parts(p) : q \notin Predicate \ D
    <3> HIDE DEF D
    <3> QED BY <2>1, MinimalPredicate
  <2>3. Parts(p) \subseteq D
    BY <2>2, PartsArePredicates
  <2> DEFINE G == [F EXCEPT ![p] = Step[p][F]]
             B == D \union {p}
  <2>4. G \in Fs /\ G[p] = Step[p][F] /\ \A q \in D : G[q] = F[q]
    <3>1. Step[p][F] \in V
      BY <1>0, <1>1
    <3> HIDE DEF F, D
    <3> QED BY <1>0, <1>1, <2>2, <3>1
  <2>5. ASSUME NEW q \in B PROVE Parts(q) \subseteq B /\ G[q] = Step[q][G]
    <3>1. Parts(q) \subseteq D /\ G[q] = Step[q][F]
      <4> HIDE DEF F, G, D
      <4> QED BY <1>3, <2>3, <2>4 DEF SolvesOn
    <3>2. Step[q][F] = Step[q][G]
      <4>1. q \in Predicate
        BY <2>2
      <4>2. \A r \in Parts(q) : F[r] = G[r]
        <5> HIDE DEF F, G, D
        <5> QED BY <2>4, <3>1
      <4> HIDE DEF F, G, D
      <4> QED BY <1>0, <1>1, <2>4, <4>1, <4>2 DEF ReadsParts
    <3> QED
      BY <3>1, <3>2
  <2>6. SolvesOn(B, G, Step)
    BY <2>5 DEF SolvesOn
  <2>7. p \in D
    <3> HIDE DEF D, F, G
    <3> QED BY <1>2, <2>4, <2>6
  <2> QED
    BY <2>2, <2>7
<1>5. F = [p \in Predicate |-> Step[p][F]]
  <2> HIDE DEF D
  <2>1. \A p \in Predicate : F[p] = Step[p][F]
    <3> HIDE DEF F
    <3> QED BY <1>3, <1>4 DEF SolvesOn
  <2> QED
    BY <2>1
<1> QED
  BY <1>1, <1>5

-----------------------------------------------------------------------------
(* The equations of the recursive functions *)

\* Predicate.Validate, one level unfolded.
LEMMA ValidEquation ==
  ASSUME NEW p \in Predicate
  PROVE  ValidPredicate[p] <=> WellFormed(p) /\ \A q \in Parts(p) : ValidPredicate[q]
<1> DEFINE Body(x, f) == WellFormed(x) /\ \A q \in Parts(x) : f[q]
           Fs == [Predicate -> BOOLEAN]
           Step == [x \in Predicate |-> [f \in Fs |-> Body(x, f)]]
           G == CHOOSE f : f = [x \in Predicate |-> Body(x, f)]
<1>1. Step \in [Predicate -> [Fs -> BOOLEAN]]
  OBVIOUS
<1>2. WellDefined(Step, Fs, BOOLEAN)
  BY <1>1 DEF WellDefined, ReadsParts
<1>3. PICK f \in Fs : f = [x \in Predicate |-> Step[x][f]]
  <2> HIDE DEF Step, Fs
  <2> QED BY <1>2, RecursionHasSolution
<1>4. f = [x \in Predicate |-> Body(x, f)]
  BY <1>3
<1>5. G = [x \in Predicate |-> Body(x, G)]
  BY <1>4
<1>6. ValidPredicate = G
  BY DEF ValidPredicate
<1> HIDE DEF G
<1> QED
  BY <1>5, <1>6

\* What the recursion of the evaluator may answer.
Answers == {"true", "false", "error"}

\* Loop answers as one of its parts, or goes on to the end.
LEMMA LoopAnswers ==
  ASSUME NEW answers, DOMAIN answers \subseteq Nat, NEW onward
  PROVE  \/ (\A i \in DOMAIN answers : answers[i] = onward) /\ Loop(answers, onward) = onward
         \/ \E i \in DOMAIN answers :
              /\ answers[i] # onward /\ Loop(answers, onward) = answers[i]
              /\ \A j \in DOMAIN answers : j < i => answers[j] = onward
<1> DEFINE decisive == {i \in DOMAIN answers : answers[i] # onward}
<1>1. CASE decisive = {}
  BY <1>1 DEF Loop
<1>2. CASE decisive # {}
  <2>1. Least(decisive) \in decisive /\ \A j \in decisive : Least(decisive) <= j
    <3>1. decisive \subseteq Nat
      OBVIOUS
    <3> HIDE DEF decisive
    <3> QED BY <1>2, <3>1, LeastMember
  <2>2. Loop(answers, onward) = answers[Least(decisive)]
    BY <1>2 DEF Loop
  <2>3. \A j \in DOMAIN answers : j < Least(decisive) => answers[j] = onward
    <3>1. \A j \in decisive : Least(decisive) \in Nat /\ j \in Nat /\ ~(j < Least(decisive))
      BY <2>1
    <3> QED BY <3>1
  <2> QED
    BY <2>1, <2>2, <2>3
<1> QED
  BY <1>1, <1>2

\* EvaluatePredicateWithContext, one level unfolded.
Evaluation(p, facts, ctx) ==
  IF ~ValidPredicate[p] \/ p.path # <<>> THEN "error"
  ELSE IF p.all # <<>> THEN Loop([i \in DOMAIN p.all |-> EvaluatePredicate(p.all[i], facts, ctx)], "true")
  ELSE IF p.any # <<>> THEN Loop([i \in DOMAIN p.any |-> EvaluatePredicate(p.any[i], facts, ctx)], "false")
  ELSE IF p.not # <<>> THEN Negated(EvaluatePredicate(p.not[1], facts, ctx))
  ELSE EvaluateLeaf(p, facts, ctx)

\* The evaluator answers as its unfolding does.
LEMMA EvaluationEquation ==
  ASSUME NEW p \in Predicate, NEW facts, NEW ctx
  PROVE  EvaluatePredicate(p, facts, ctx) = Evaluation(p, facts, ctx)
<1> DEFINE Values == Answers \union {EvaluateLeaf(x, facts, ctx) : x \in Predicate}
           Body(x, f) ==
             IF ~ValidPredicate[x] \/ x.path # <<>> THEN "error"
             ELSE IF x.all # <<>> THEN Loop([i \in DOMAIN x.all |-> f[x.all[i]]], "true")
             ELSE IF x.any # <<>> THEN Loop([i \in DOMAIN x.any |-> f[x.any[i]]], "false")
             ELSE IF x.not # <<>> THEN Negated(f[x.not[1]])
             ELSE EvaluateLeaf(x, facts, ctx)
           Fs == [Predicate -> Values]
           Step == [x \in Predicate |-> [f \in Fs |-> Body(x, f)]]
           G == CHOOSE f : f = [x \in Predicate |-> Body(x, f)]
<1>1. ASSUME NEW x \in Predicate, NEW f \in [Predicate -> Values] PROVE Body(x, f) \in Values
  <2>1. ASSUME NEW list \in {x.all, x.any}, NEW onward \in {"true", "false"}
        PROVE  Loop([i \in DOMAIN list |-> f[list[i]]], onward) \in Values
    <3> DEFINE answers == [i \in DOMAIN list |-> f[list[i]]]
    <3>1. /\ DOMAIN answers \subseteq Nat
          /\ \A i \in DOMAIN answers : answers[i] \in Values
      <4>1. \A i \in DOMAIN list : i \in Nat /\ list[i] \in Predicate
        BY PartsArePredicates
      <4> QED BY <4>1
    <3>2. onward \in Values
      BY DEF Answers
    <3>3. Loop(answers, onward) \in Values
      <4> HIDE DEF Values, answers
      <4> QED BY <3>1, <3>2, LoopAnswers
    <3> QED BY <3>3
  <2>2. x.not # <<>> => Negated(f[x.not[1]]) \in Values
    <3>1. x.not # <<>> => x.not[1] \in Predicate
      BY PartsArePredicates
    <3> QED BY <3>1 DEF Negated, Answers
  <2> QED
    BY <2>1, <2>2 DEF Answers
<1>2. Step \in [Predicate -> [Fs -> Values]]
  <2> HIDE DEF Body, Values
  <2> QED BY <1>1
<1>3. ASSUME NEW x \in Predicate, NEW f \in Fs, NEW g \in Fs, \A q \in Parts(x) : f[q] = g[q]
      PROVE  Body(x, f) = Body(x, g)
  <2>1. /\ \A i \in DOMAIN x.all : f[x.all[i]] = g[x.all[i]]
        /\ \A i \in DOMAIN x.any : f[x.any[i]] = g[x.any[i]]
        /\ x.not # <<>> => f[x.not[1]] = g[x.not[1]]
    BY <1>3, PartsArePredicates
  <2>2. /\ [i \in DOMAIN x.all |-> f[x.all[i]]] = [i \in DOMAIN x.all |-> g[x.all[i]]]
        /\ [i \in DOMAIN x.any |-> f[x.any[i]]] = [i \in DOMAIN x.any |-> g[x.any[i]]]
    BY <2>1
  <2> QED
    BY <2>1, <2>2
<1>4. PICK f \in Fs : f = [x \in Predicate |-> Step[x][f]]
  <2>1. "error" \in Values
    BY DEF Answers
  <2>2. \A x \in Predicate : \A f \in Fs : Step[x][f] = Body(x, f)
    <3> HIDE DEF Body, Values
    <3> QED OBVIOUS
  <2>3. ReadsParts(Step, Fs)
    <3> HIDE DEF Body, Fs, Step
    <3> QED BY <1>3, <2>2 DEF ReadsParts
  <2>4. WellDefined(Step, Fs, Values)
    <3> HIDE DEF Step, Values
    <3> QED BY <1>2, <2>1, <2>3 DEF WellDefined
  <2> HIDE DEF Step, Fs, Values
  <2> QED BY <2>4, RecursionHasSolution
<1>5. f = [x \in Predicate |-> Body(x, f)]
  <2> HIDE DEF Body, Values
  <2> QED BY <1>4
<1>6. G = [x \in Predicate |-> Body(x, G)]
  <2> HIDE DEF Body
  <2> QED BY <1>5
<1>7. \A x : EvaluatePredicate(x, facts, ctx) = G[x]
  BY DEF EvaluatePredicate
<1>8. G[p] = Body(p, G)
  <2> HIDE DEF Body, G
  <2> QED BY <1>6
<1>9. Body(p, G) = Evaluation(p, facts, ctx)
  <2> HIDE DEF G
  <2> QED BY <1>7 DEF Evaluation
<1> QED
  BY <1>7, <1>8, <1>9

\* compilePredicate, one level unfolded.
LEMMA CompilesEquation ==
  ASSUME NEW p \in Predicate, NEW ctx
  PROVE  Compiles(p, ctx) <=> /\ ValidPredicate[p]
                              /\ p.path = <<>>
                              /\ \A q \in Parts(p) : Compiles(q, ctx)
                              /\ HasLeaf(p) => LeafCompiles(p, ctx)
<1> DEFINE Body(x, f) ==
             /\ ValidPredicate[x]
             /\ x.path = <<>>
             /\ \A q \in Parts(x) : f[q]
             /\ HasLeaf(x) => LeafCompiles(x, ctx)
           Fs == [Predicate -> BOOLEAN]
           Step == [x \in Predicate |-> [f \in Fs |-> Body(x, f)]]
           G == CHOOSE f : f = [x \in Predicate |-> Body(x, f)]
<1>1. Step \in [Predicate -> [Fs -> BOOLEAN]]
  OBVIOUS
<1>2. WellDefined(Step, Fs, BOOLEAN)
  BY <1>1 DEF WellDefined, ReadsParts
<1>3. PICK f \in Fs : f = [x \in Predicate |-> Step[x][f]]
  <2> HIDE DEF Step, Fs
  <2> QED BY <1>2, RecursionHasSolution
<1>4. f = [x \in Predicate |-> Body(x, f)]
  BY <1>3
<1>5. G = [x \in Predicate |-> Body(x, G)]
  BY <1>4
<1>6. \A x : Compiles(x, ctx) = G[x]
  BY DEF Compiles
<1> HIDE DEF G
<1> QED
  BY <1>5, <1>6

\* The clause on one row, one level unfolded.
Clause(p, row, ctx) ==
  IF p.all # <<>> THEN SQLAnd({SQLTruth(p.all[i], row, ctx) : i \in DOMAIN p.all})
  ELSE IF p.any # <<>> THEN SQLOr({SQLTruth(p.any[i], row, ctx) : i \in DOMAIN p.any})
  ELSE IF p.not # <<>> THEN Negated(SQLTruth(p.not[1], row, ctx))
  ELSE SQLLeaf(p, row, ctx)

\* The clause says what its unfolding does.
LEMMA ClauseEquation ==
  ASSUME NEW p \in Predicate, NEW row, NEW ctx
  PROVE  SQLTruth(p, row, ctx) = Clause(p, row, ctx)
<1> DEFINE Values == {"true", "false", "unknown"} \union {SQLLeaf(x, row, ctx) : x \in Predicate}
           Body(x, f) ==
             IF x.all # <<>> THEN SQLAnd({f[x.all[i]] : i \in DOMAIN x.all})
             ELSE IF x.any # <<>> THEN SQLOr({f[x.any[i]] : i \in DOMAIN x.any})
             ELSE IF x.not # <<>> THEN Negated(f[x.not[1]])
             ELSE SQLLeaf(x, row, ctx)
           Fs == [Predicate -> Values]
           Step == [x \in Predicate |-> [f \in Fs |-> Body(x, f)]]
           G == CHOOSE f : f = [x \in Predicate |-> Body(x, f)]
<1>1. ASSUME NEW x \in Predicate, NEW f \in Fs PROVE Body(x, f) \in Values
  <2>1. x.not # <<>> => Negated(f[x.not[1]]) \in Values
    <3>1. x.not # <<>> => x.not[1] \in Predicate
      BY PartsArePredicates
    <3> QED BY <3>1 DEF Negated
  <2>2. \A S : SQLAnd(S) \in Values /\ SQLOr(S) \in Values
    BY DEF SQLAnd, SQLOr
  <2> QED
    BY <2>1, <2>2
<1>2. Step \in [Predicate -> [Fs -> Values]]
  <2> HIDE DEF Body, Values
  <2> QED BY <1>1
<1>3. ASSUME NEW x \in Predicate, NEW f \in Fs, NEW g \in Fs, \A q \in Parts(x) : f[q] = g[q]
      PROVE  Body(x, f) = Body(x, g)
  <2>1. /\ \A i \in DOMAIN x.all : f[x.all[i]] = g[x.all[i]]
        /\ \A i \in DOMAIN x.any : f[x.any[i]] = g[x.any[i]]
        /\ x.not # <<>> => f[x.not[1]] = g[x.not[1]]
    BY <1>3, PartsArePredicates
  <2>2. /\ {f[x.all[i]] : i \in DOMAIN x.all} = {g[x.all[i]] : i \in DOMAIN x.all}
        /\ {f[x.any[i]] : i \in DOMAIN x.any} = {g[x.any[i]] : i \in DOMAIN x.any}
    BY <2>1
  <2> QED
    BY <2>1, <2>2
<1>4. PICK f \in Fs : f = [x \in Predicate |-> Step[x][f]]
  <2>1. \A x \in Predicate : \A f \in Fs : Step[x][f] = Body(x, f)
    <3> HIDE DEF Body, Values
    <3> QED OBVIOUS
  <2>2. ReadsParts(Step, Fs)
    <3> HIDE DEF Body, Fs, Step
    <3> QED BY <1>3, <2>1 DEF ReadsParts
  <2>3. "true" \in Values
    OBVIOUS
  <2>4. WellDefined(Step, Fs, Values)
    <3> HIDE DEF Step, Values
    <3> QED BY <1>2, <2>2, <2>3 DEF WellDefined
  <2> HIDE DEF Step, Fs, Values
  <2> QED BY <2>4, RecursionHasSolution
<1>5. f = [x \in Predicate |-> Body(x, f)]
  <2> HIDE DEF Body, Values
  <2> QED BY <1>4
<1>6. G = [x \in Predicate |-> Body(x, G)]
  <2> HIDE DEF Body
  <2> QED BY <1>5
<1>7. \A x : SQLTruth(x, row, ctx) = G[x]
  BY DEF SQLTruth
<1>8. G[p] = Body(p, G)
  <2> HIDE DEF Body, G
  <2> QED BY <1>6
<1>9. Body(p, G) = Clause(p, row, ctx)
  <2> HIDE DEF G
  <2> QED BY <1>7 DEF Clause
<1> QED
  BY <1>7, <1>8, <1>9

-----------------------------------------------------------------------------
(* The compiled clause of a predicate against its local evaluation *)

\* A valid predicate without connectives is a leaf with a known operator.
LEMMA LeafIsWellFormed ==
  ASSUME NEW p \in Predicate, ValidPredicate[p], p.all = <<>>, p.any = <<>>, p.not = <<>>
  PROVE  HasLeaf(p) /\ p.operator \in Operators
<1>1. WellFormed(p)
  BY ValidEquation
<1>2. ASSUME ~HasLeaf(p) PROVE FALSE
  <2>1. Branches(p) = {}
    BY <1>2 DEF Branches
  <2>2. Cardinality(Branches(p)) = 0
    BY <2>1, FS_EmptySet
  <2>3. Cardinality(Branches(p)) = 1
    BY <1>1 DEF WellFormed
  <2> QED
    BY <2>2, <2>3
<1> QED
  BY <1>1, <1>2 DEF WellFormed

\* A leaf that compiles is evaluated without an error, and its clause does not
\* contradict the answer.
LEMMA LeafAgrees ==
  ASSUME NEW p, NEW row, NEW ctx, p.operator \in Operators, LeafCompiles(p, ctx)
  PROVE  /\ EvaluateLeaf(p, row, ctx) \in {"true", "false"}
         /\ SQLLeaf(p, row, ctx) \in {EvaluateLeaf(p, row, ctx), "unknown"}
<1> DEFINE expected == ResolveValue(p.value, ctx)
           actual == row[p.fact]
<1>1. ValueFits(p.operator, expected)
  BY DEF LeafCompiles
<1> HIDE DEF expected, actual
<1>2. /\ LeafAnswer(p.operator, actual, expected) \in {"true", "false"}
      /\ SQLComparison(p.operator, actual, expected) \in {LeafAnswer(p.operator, actual, expected), "unknown"}
  BY <1>1 DEF LeafAnswer, SQLComparison, ValueFits, Truth, Operators, Same, IsScalar, Booleans
<1> QED
  BY <1>2 DEF EvaluateLeaf, SQLLeaf, expected, actual

\* A predicate that compiles is evaluated without an error, and its clause says of
\* every row what the evaluator answers, or nothing.
LEMMA ClauseNeverContradicts ==
  ASSUME NEW row, NEW ctx
  PROVE  \A p \in Predicate : Compiles(p, ctx) =>
           /\ EvaluatePredicate(p, row, ctx) \in {"true", "false"}
           /\ SQLTruth(p, row, ctx) \in {EvaluatePredicate(p, row, ctx), "unknown"}
<1> DEFINE Agrees(p) ==
             /\ EvaluatePredicate(p, row, ctx) \in {"true", "false"}
             /\ SQLTruth(p, row, ctx) \in {EvaluatePredicate(p, row, ctx), "unknown"}
           T == {p \in Predicate : Compiles(p, ctx) /\ ~Agrees(p)}
<1>1. SUFFICES ASSUME T # {} PROVE FALSE
  OBVIOUS
<1>2. PICK p \in T : \A q \in Parts(p) : q \notin T
  <2>1. T \subseteq Predicate
    OBVIOUS
  <2> HIDE DEF T
  <2> QED BY <1>1, <2>1, MinimalPredicate
<1>3. p \in Predicate /\ Compiles(p, ctx) /\ ~Agrees(p)
  BY <1>2
<1>4. /\ ValidPredicate[p] /\ p.path = <<>>
      /\ \A q \in Parts(p) : Compiles(q, ctx)
      /\ HasLeaf(p) => LeafCompiles(p, ctx)
  BY <1>3, CompilesEquation
<1>5. \A q \in Parts(p) : Agrees(q)
  BY <1>2, <1>3, <1>4, PartsArePredicates
<1>6. \A list \in {p.all, p.any, p.not} : \A i \in DOMAIN list : i \in Nat /\ Agrees(list[i])
  <2> HIDE DEF Agrees
  <2> QED BY <1>3, <1>5, PartsArePredicates
<1>7. /\ EvaluatePredicate(p, row, ctx) = Evaluation(p, row, ctx)
      /\ SQLTruth(p, row, ctx) = Clause(p, row, ctx)
  BY <1>3, EvaluationEquation, ClauseEquation
<1>8. ASSUME p.all # <<>> PROVE FALSE
  <2> DEFINE answers == [i \in DOMAIN p.all |-> EvaluatePredicate(p.all[i], row, ctx)]
             truths == {SQLTruth(p.all[i], row, ctx) : i \in DOMAIN p.all}
  <2>1. EvaluatePredicate(p, row, ctx) = Loop(answers, "true") /\ SQLTruth(p, row, ctx) = SQLAnd(truths)
    BY <1>4, <1>7, <1>8 DEF Evaluation, Clause
  <2>2. /\ DOMAIN answers \subseteq Nat
        /\ \A i \in DOMAIN answers : answers[i] \in {"true", "false"}
        /\ \A t \in truths : \E i \in DOMAIN answers : t \in {answers[i], "unknown"}
        /\ \A i \in DOMAIN answers : \E t \in truths : t \in {answers[i], "unknown"}
    BY <1>6
  <2>3. /\ Loop(answers, "true") \in {"true", "false"}
        /\ SQLAnd(truths) \in {Loop(answers, "true"), "unknown"}
    <3> HIDE DEF answers, truths
    <3> QED BY <2>2, LoopAnswers DEF SQLAnd
  <2> QED
    BY <1>3, <2>1, <2>3
<1>9. ASSUME p.all = <<>>, p.any # <<>> PROVE FALSE
  <2> DEFINE answers == [i \in DOMAIN p.any |-> EvaluatePredicate(p.any[i], row, ctx)]
             truths == {SQLTruth(p.any[i], row, ctx) : i \in DOMAIN p.any}
  <2>1. EvaluatePredicate(p, row, ctx) = Loop(answers, "false") /\ SQLTruth(p, row, ctx) = SQLOr(truths)
    BY <1>4, <1>7, <1>9 DEF Evaluation, Clause
  <2>2. /\ DOMAIN answers \subseteq Nat
        /\ \A i \in DOMAIN answers : answers[i] \in {"true", "false"}
        /\ \A t \in truths : \E i \in DOMAIN answers : t \in {answers[i], "unknown"}
        /\ \A i \in DOMAIN answers : \E t \in truths : t \in {answers[i], "unknown"}
    BY <1>6
  <2>3. /\ Loop(answers, "false") \in {"true", "false"}
        /\ SQLOr(truths) \in {Loop(answers, "false"), "unknown"}
    <3> HIDE DEF answers, truths
    <3> QED BY <2>2, LoopAnswers DEF SQLOr
  <2> QED
    BY <1>3, <2>1, <2>3
<1>10. ASSUME p.all = <<>>, p.any = <<>>, p.not # <<>> PROVE FALSE
  <2>1. /\ EvaluatePredicate(p, row, ctx) = Negated(EvaluatePredicate(p.not[1], row, ctx))
        /\ SQLTruth(p, row, ctx) = Negated(SQLTruth(p.not[1], row, ctx))
    BY <1>4, <1>7, <1>10 DEF Evaluation, Clause
  <2>2. Agrees(p.not[1])
    <3>1. 1 \in DOMAIN p.not
      BY <1>3, <1>10, PartsArePredicates
    <3> QED BY <1>6, <3>1
  <2> QED
    BY <1>3, <2>1, <2>2 DEF Negated
<1>11. ASSUME p.all = <<>>, p.any = <<>>, p.not = <<>> PROVE FALSE
  <2>1. /\ EvaluatePredicate(p, row, ctx) = EvaluateLeaf(p, row, ctx)
        /\ SQLTruth(p, row, ctx) = SQLLeaf(p, row, ctx)
    BY <1>4, <1>7, <1>11 DEF Evaluation, Clause
  <2>2. LeafCompiles(p, ctx) /\ p.operator \in Operators
    BY <1>3, <1>4, <1>11, LeafIsWellFormed
  <2> QED
    BY <1>3, <2>1, <2>2, LeafAgrees
<1> QED
  BY <1>8, <1>9, <1>10, <1>11

\* The evaluator answers every valid predicate with one of its three answers.
LEMMA AnswersKnown ==
  ASSUME NEW row, NEW ctx
  PROVE  \A p \in Predicate : ValidPredicate[p] => EvaluatePredicate(p, row, ctx) \in Answers
<1> DEFINE T == {p \in Predicate : ValidPredicate[p] /\ EvaluatePredicate(p, row, ctx) \notin Answers}
<1>1. SUFFICES ASSUME T # {} PROVE FALSE
  OBVIOUS
<1>2. PICK p \in T : \A q \in Parts(p) : q \notin T
  <2>1. T \subseteq Predicate
    OBVIOUS
  <2> HIDE DEF T
  <2> QED BY <1>1, <2>1, MinimalPredicate
<1>3. p \in Predicate /\ ValidPredicate[p] /\ EvaluatePredicate(p, row, ctx) \notin Answers
  BY <1>2
<1>4. \A q \in Parts(p) : EvaluatePredicate(q, row, ctx) \in Answers
  BY <1>2, <1>3, ValidEquation, PartsArePredicates
<1>5. \A list \in {p.all, p.any, p.not} : \A i \in DOMAIN list :
        i \in Nat /\ EvaluatePredicate(list[i], row, ctx) \in Answers
  BY <1>3, <1>4, PartsArePredicates
<1>6. EvaluatePredicate(p, row, ctx) = Evaluation(p, row, ctx)
  BY <1>3, EvaluationEquation
<1>7. ASSUME NEW list \in {p.all, p.any}, NEW onward \in Answers
      PROVE  Loop([i \in DOMAIN list |-> EvaluatePredicate(list[i], row, ctx)], onward) \in Answers
  <2> DEFINE answers == [i \in DOMAIN list |-> EvaluatePredicate(list[i], row, ctx)]
  <2>1. DOMAIN answers \subseteq Nat /\ \A i \in DOMAIN answers : answers[i] \in Answers
    BY <1>5
  <2>2. Loop(answers, onward) \in Answers
    <3> HIDE DEF answers
    <3> QED BY <2>1, LoopAnswers
  <2> QED
    BY <2>2
<1>8. p.not # <<>> => Negated(EvaluatePredicate(p.not[1], row, ctx)) \in Answers
  <2>1. p.not # <<>> => 1 \in DOMAIN p.not
    BY <1>3, PartsArePredicates
  <2> QED
    BY <1>5, <2>1 DEF Negated, Answers
<1>9. ASSUME p.all = <<>>, p.any = <<>>, p.not = <<>> PROVE EvaluateLeaf(p, row, ctx) \in Answers
  <2>1. p.operator \in Operators
    BY <1>3, <1>9, LeafIsWellFormed
  <2>2. \A actual, expected : LeafAnswer(p.operator, actual, expected) \in Answers
    BY <2>1 DEF LeafAnswer, Truth, Operators, Answers
  <2> QED
    BY <2>2 DEF EvaluateLeaf
<1>10. Evaluation(p, row, ctx) \in Answers
  <2>1. "true" \in Answers /\ "false" \in Answers /\ "error" \in Answers
    BY DEF Answers
  <2> QED
    BY <1>7, <1>8, <1>9, <2>1, Zenon DEF Evaluation
<1> QED
  BY <1>3, <1>6, <1>10

-----------------------------------------------------------------------------
(* A predicate, field by field *)

Blank == ""
PredicateFields == {"fact", "operator", "value", "path", "all", "any", "not"}

\* The zero predicate, field by field.
LEMMA ZeroFields ==
  /\ DOMAIN ZeroPredicate = PredicateFields
  /\ ZeroPredicate.fact = Blank /\ ZeroPredicate.operator = Blank
  /\ ZeroPredicate.path = <<>>
  /\ ZeroPredicate.all = <<>> /\ ZeroPredicate.any = <<>> /\ ZeroPredicate.not = <<>>
<1>1. DOMAIN ZeroPredicate = PredicateFields
  BY Zenon DEF ZeroPredicate, PredicateFields
<1>2. ZeroPredicate.fact = Blank /\ ZeroPredicate.operator = Blank
  BY Zenon DEF ZeroPredicate, Blank
<1>3. /\ ZeroPredicate.path = <<>>
      /\ ZeroPredicate.all = <<>> /\ ZeroPredicate.any = <<>> /\ ZeroPredicate.not = <<>>
  BY Zenon DEF ZeroPredicate
<1> QED
  BY <1>1, <1>2, <1>3

\* A predicate with one connective, or none, is well formed or not as it is.
LEMMA BranchesOf ==
  ASSUME NEW p
  PROVE  /\ HasLeaf(p) <=> p.fact # Blank \/ p.operator # Blank
         /\ "leaf" \in Branches(p) <=> HasLeaf(p)
         /\ "all" \in Branches(p) <=> p.all # <<>>
         /\ "any" \in Branches(p) <=> p.any # <<>>
         /\ "not" \in Branches(p) <=> p.not # <<>>
         /\ Branches(p) \subseteq {"leaf", "all", "any", "not"}
<1>1. HasLeaf(p) <=> p.fact # Blank \/ p.operator # Blank
  BY Zenon DEF HasLeaf, Blank
<1> QED
  BY <1>1 DEF Branches

-----------------------------------------------------------------------------
(* Lists and their arrangements *)

\* A list is a function on the first n positions.
IsList(s) == s = [i \in DOMAIN s |-> s[i]] /\ \E n \in Nat : DOMAIN s = 1..n

\* One list has the entries of the other, each as often.
Arranged(s, t) ==
  \E f \in Bijection(DOMAIN t, DOMAIN s) : \A i \in DOMAIN t : t[i] = s[f[i]]

\* A bijection, point by point.
LEMMA BijectionPoints ==
  ASSUME NEW S, NEW T, NEW f
  PROVE  f \in Bijection(S, T) <=>
           /\ f \in [S -> T]
           /\ \A a, b \in S : f[a] = f[b] => a = b
           /\ \A b \in T : \E a \in S : f[a] = b
  BY DEF Bijection, Injection, Surjection, IsInjective

\* The inverse of a bijection is one.
LEMMA BijectionBack ==
  ASSUME NEW S, NEW T, NEW f \in Bijection(S, T)
  PROVE  \E g \in Bijection(T, S) : \A b \in T : f[g[b]] = b
<1> DEFINE g == [b \in T |-> CHOOSE a \in S : f[a] = b]
<1>1. /\ f \in [S -> T]
      /\ \A a, b \in S : f[a] = f[b] => a = b
      /\ \A b \in T : \E a \in S : f[a] = b
  BY BijectionPoints
<1>2. ASSUME NEW b \in T PROVE g[b] \in S /\ f[g[b]] = b
  BY <1>1
<1>3. g \in [T -> S]
  BY <1>2
<1> HIDE DEF g
<1>4. \A a, b \in T : g[a] = g[b] => a = b
  BY <1>2
<1>5. \A a \in S : \E b \in T : g[b] = a
  BY <1>1, <1>2
<1>6. g \in Bijection(T, S)
  BY <1>3, <1>4, <1>5, BijectionPoints
<1> QED
  BY <1>2, <1>6

\* The composition of two bijections is one.
LEMMA BijectionOn ==
  ASSUME NEW S, NEW T, NEW U, NEW f \in Bijection(S, T), NEW g \in Bijection(T, U)
  PROVE  [a \in S |-> g[f[a]]] \in Bijection(S, U)
<1> DEFINE h == [a \in S |-> g[f[a]]]
<1>1. /\ f \in [S -> T]
      /\ \A a, b \in S : f[a] = f[b] => a = b
      /\ \A b \in T : \E a \in S : f[a] = b
  BY BijectionPoints
<1>2. /\ g \in [T -> U]
      /\ \A a, b \in T : g[a] = g[b] => a = b
      /\ \A b \in U : \E a \in T : g[a] = b
  BY BijectionPoints
<1>3. h \in [S -> U] /\ \A a \in S : h[a] = g[f[a]]
  BY <1>1, <1>2
<1> HIDE DEF h
<1>4. \A a, b \in S : h[a] = h[b] => a = b
  BY <1>1, <1>2, <1>3
<1>5. \A b \in U : \E a \in S : h[a] = b
  BY <1>1, <1>2, <1>3
<1>6. h \in Bijection(S, U)
  BY <1>3, <1>4, <1>5, BijectionPoints
<1> QED
  BY <1>6 DEF h

\* Arrangement goes both ways.
LEMMA ArrangedBack ==
  ASSUME NEW s, NEW t, Arranged(s, t)
  PROVE  Arranged(t, s)
<1>1. PICK f \in Bijection(DOMAIN t, DOMAIN s) : \A i \in DOMAIN t : t[i] = s[f[i]]
  BY DEF Arranged
<1>2. PICK g \in Bijection(DOMAIN s, DOMAIN t) : \A j \in DOMAIN s : f[g[j]] = j
  BY BijectionBack
<1>3. \A j \in DOMAIN s : g[j] \in DOMAIN t
  BY BijectionPoints
<1>4. \A j \in DOMAIN s : s[j] = t[g[j]]
  BY <1>1, <1>2, <1>3
<1> QED
  BY <1>4 DEF Arranged

\* Arrangement goes on from list to list.
LEMMA ArrangedOn ==
  ASSUME NEW s, NEW t, NEW u, Arranged(s, t), Arranged(t, u)
  PROVE  Arranged(s, u)
<1>1. PICK f \in Bijection(DOMAIN t, DOMAIN s) : \A i \in DOMAIN t : t[i] = s[f[i]]
  BY DEF Arranged
<1>2. PICK g \in Bijection(DOMAIN u, DOMAIN t) : \A i \in DOMAIN u : u[i] = t[g[i]]
  BY DEF Arranged
<1> DEFINE h == [i \in DOMAIN u |-> f[g[i]]]
<1>3. h \in Bijection(DOMAIN u, DOMAIN s)
  BY BijectionOn
<1>4. \A i \in DOMAIN u : g[i] \in DOMAIN t
  BY BijectionPoints
<1>5. \A i \in DOMAIN u : u[i] = s[h[i]]
  BY <1>1, <1>2, <1>4
<1> HIDE DEF h
<1> QED
  BY <1>3, <1>5 DEF Arranged

\* Arranged lists are of one length.
LEMMA ArrangedLength ==
  ASSUME NEW s, NEW t, IsList(s), IsList(t), Arranged(s, t)
  PROVE  DOMAIN s = DOMAIN t
<1>1. PICK n \in Nat, m \in Nat : DOMAIN s = 1..n /\ DOMAIN t = 1..m
  BY DEF IsList
<1>2. ExistsBijection(1..m, 1..n)
  BY <1>1 DEF Arranged, ExistsBijection
<1>3. Cardinality(1..n) = m
  BY <1>2, FS_CountingElements
<1>4. Cardinality(1..n) = n
  BY FS_Interval
<1> QED
  BY <1>1, <1>3, <1>4

\* An ordered list is an arrangement of the list.
LEMMA OrderedArranges ==
  ASSUME NEW s
  PROVE  \E f \in Bijection(DOMAIN s, DOMAIN s) : Ordered(s) = [i \in DOMAIN s |-> s[f[i]]]
<1> DEFINE arrangements == {[i \in DOMAIN s |-> s[f[i]]] : f \in Bijection(DOMAIN s, DOMAIN s)}
<1>1. [i \in DOMAIN s |-> i] \in Bijection(DOMAIN s, DOMAIN s)
  BY DEF Bijection, Injection, Surjection, IsInjective
<1>2. arrangements # {}
  BY <1>1
<1>3. Ordered(s) \in arrangements
  <2>1. Ordered(s) = CHOOSE t \in arrangements : TRUE
    BY DEF Ordered
  <2> HIDE DEF arrangements
  <2> QED BY <1>2, <2>1
<1> QED
  BY <1>3

\* It has the same members.
LEMMA OrderedMembers ==
  ASSUME NEW s
  PROVE  DOMAIN Ordered(s) = DOMAIN s /\ Range(Ordered(s)) = Range(s)
<1>1. PICK f \in Bijection(DOMAIN s, DOMAIN s) : Ordered(s) = [i \in DOMAIN s |-> s[f[i]]]
  BY OrderedArranges
<1>2. /\ \A i \in DOMAIN s : f[i] \in DOMAIN s
      /\ \A j \in DOMAIN s : \E i \in DOMAIN s : f[i] = j
  BY DEF Bijection, Injection, Surjection
<1>3. DOMAIN Ordered(s) = DOMAIN s /\ \A i \in DOMAIN s : Ordered(s)[i] = s[f[i]]
  BY <1>1
<1> QED
  BY <1>2, <1>3 DEF Range

\* An ordered list is an arrangement of the list, and the same one for every
\* arrangement.
LEMMA OrderedArranged ==
  ASSUME NEW s, NEW t, IsList(s), IsList(t)
  PROVE  Ordered(s) = Ordered(t) <=> Arranged(s, t)
<1> DEFINE All(x) == {[i \in DOMAIN x |-> x[f[i]]] : f \in Bijection(DOMAIN x, DOMAIN x)}
<1>1. ASSUME NEW x PROVE Arranged(x, Ordered(x))
  <2>1. PICK f \in Bijection(DOMAIN x, DOMAIN x) : Ordered(x) = [i \in DOMAIN x |-> x[f[i]]]
    BY OrderedArranges
  <2>2. DOMAIN Ordered(x) = DOMAIN x /\ \A i \in DOMAIN x : Ordered(x)[i] = x[f[i]]
    BY <2>1
  <2> QED
    BY <2>2 DEF Arranged
<1>2. ASSUME Ordered(s) = Ordered(t) PROVE Arranged(s, t)
  <2>1. Arranged(s, Ordered(t)) /\ Arranged(Ordered(t), t)
    BY <1>1, <1>2, ArrangedBack
  <2> QED
    BY <2>1, ArrangedOn
<1>3. ASSUME NEW x, NEW y, DOMAIN x = DOMAIN y, Arranged(x, y) PROVE All(y) \subseteq All(x)
  <2>1. PICK f \in Bijection(DOMAIN x, DOMAIN x) : \A i \in DOMAIN x : y[i] = x[f[i]]
    BY <1>3 DEF Arranged
  <2>2. ASSUME NEW g \in Bijection(DOMAIN x, DOMAIN x)
        PROVE  [i \in DOMAIN y |-> y[g[i]]] \in All(x)
    <3> DEFINE h == [i \in DOMAIN x |-> f[g[i]]]
    <3>1. h \in Bijection(DOMAIN x, DOMAIN x)
      BY BijectionOn
    <3>2. \A i \in DOMAIN x : g[i] \in DOMAIN x
      BY BijectionPoints
    <3>3. \A i \in DOMAIN x : y[g[i]] = x[h[i]]
      BY <2>1, <3>2
    <3>4. [i \in DOMAIN y |-> y[g[i]]] = [i \in DOMAIN x |-> x[h[i]]]
      BY <1>3, <3>3
    <3> HIDE DEF h
    <3> QED BY <3>1, <3>4
  <2> QED
    BY <1>3, <2>2
<1>4. ASSUME Arranged(s, t) PROVE Ordered(s) = Ordered(t)
  <2>1. DOMAIN s = DOMAIN t /\ Arranged(t, s)
    BY <1>4, ArrangedLength, ArrangedBack
  <2>2. All(s) = All(t)
    <3> HIDE DEF All
    <3> QED BY <1>3, <1>4, <2>1
  <2>3. Ordered(s) = (CHOOSE u \in All(s) : TRUE) /\ Ordered(t) = CHOOSE u \in All(t) : TRUE
    BY DEF Ordered
  <2> HIDE DEF All
  <2> QED BY <2>2, <2>3
<1> QED
  BY <1>2, <1>4

\* Lists whose entries agree in the same places are arranged in the same ways.
LEMMA ArrangedAlike ==
  ASSUME NEW s, NEW t, NEW u, NEW v, DOMAIN s = DOMAIN u, DOMAIN t = DOMAIN v,
         \A i \in DOMAIN s, j \in DOMAIN t : s[i] = t[j] <=> u[i] = v[j]
  PROVE  Arranged(s, t) <=> Arranged(u, v)
<1>1. ASSUME Arranged(s, t) PROVE Arranged(u, v)
  <2>1. PICK f \in Bijection(DOMAIN t, DOMAIN s) : \A i \in DOMAIN t : t[i] = s[f[i]]
    BY <1>1 DEF Arranged
  <2>2. \A i \in DOMAIN t : f[i] \in DOMAIN s
    BY BijectionPoints
  <2>3. \A i \in DOMAIN v : v[i] = u[f[i]]
    BY <2>1, <2>2
  <2> QED
    BY <2>1, <2>3 DEF Arranged
<1>2. ASSUME Arranged(u, v) PROVE Arranged(s, t)
  <2>1. PICK f \in Bijection(DOMAIN v, DOMAIN u) : \A i \in DOMAIN v : v[i] = u[f[i]]
    BY <1>2 DEF Arranged
  <2>2. \A i \in DOMAIN v : f[i] \in DOMAIN u
    BY BijectionPoints
  <2>3. \A i \in DOMAIN t : t[i] = s[f[i]]
    BY <2>1, <2>2
  <2> QED
    BY <2>1, <2>3 DEF Arranged
<1> QED
  BY <1>1, <1>2

=============================================================================
