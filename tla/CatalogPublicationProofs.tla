---------------------- MODULE CatalogPublicationProofs ----------------------
(***************************************************************************)
(* A host whose permissions were applied is acknowledged, and one that is  *)
(* told of a conflict was overtaken: for any number of hosts, any lists of *)
(* definitions and any number of attempts.  A data policy that a role      *)
(* grants is enforced as it is written: for any tree of connectives, in    *)
(* any spelling, and any record.  A receipt proves what the other side     *)
(* has, and a conflict that it has something else: for any catalogs, in any *)
(* order and spelling.                                                      *)
(***************************************************************************)
EXTENDS CatalogPublication, PolicyLanguageProofs

-----------------------------------------------------------------------------
(* Reconciling permissions *)

Stages == {"idle", "ready", "waiting", "invalid", "unknown", "acknowledged", "conflict", "rejected"}
Asking == {"ready", "waiting"}

Typed ==
  /\ DOMAIN held \in {{}, {1}} /\ held = [i \in DOMAIN held |-> held[i]]
  /\ stage \in [Host -> Stages]
  /\ base = [h \in Host |-> base[h]]
  /\ attempt \in [Host -> Nat]
  /\ sent = [h \in Host |-> sent[h]]
  /\ disturbed \in [Host -> BOOLEAN]

\* The request a host waits for carries the baseline the host read last.
RequestsOfBaseline ==
  \A h \in Host : \A request \in sent[h] :
    /\ request.attempt \in Nat /\ request.attempt <= attempt[h]
    /\ (stage[h] = "waiting" /\ request.attempt = attempt[h]) => request.previous = base[h]

\* An undisturbed host finds the snapshot it read, or its own.
BaselineStands ==
  \A h \in Host : (stage[h] \in Asking /\ ~disturbed[h]) => Snapshot \in {base[h], Own(h)}

IInv == Typed /\ RequestsOfBaseline /\ BaselineStands /\ RetriesAcknowledged

\* The hash of the only snapshot.
LEMMA SnapshotOfOne == \A d : [i \in DOMAIN <<d>> |-> SnapshotHash(<<d>>[i])] = <<SnapshotHash(d)>>
  OBVIOUS

\* The invariant holds at first: no host has asked for anything.
LEMMA InitIInv == Init => IInv
  <1> SUFFICES ASSUME Init PROVE IInv
    OBVIOUS
  <1>1. DOMAIN held \in {{}, {1}} /\ held = [i \in DOMAIN held |-> held[i]]
    <2>1. held = <<>> \/ \E d \in Definitions : held = <<d>>
      BY DEF Init
    <2>2. CASE held = <<>>
      <3>1. DOMAIN held = {}
        BY <2>2
      <3> QED BY <2>2, <3>1
    <2>3. ASSUME NEW d \in Definitions, held = <<d>>
          PROVE DOMAIN held \in {{}, {1}} /\ held = [i \in DOMAIN held |-> held[i]]
      BY <2>3
    <2> QED BY <2>1, <2>2, <2>3
  <1>2. Typed
    BY <1>1 DEF Init, Typed, Stages
  <1> QED BY <1>2 DEF Init, IInv, RequestsOfBaseline, BaselineStands, Asking, RetriesAcknowledged

\* A delivery either leaves the snapshot as it is or makes it the host's own.
LEMMA DeliverSnapshot ==
  ASSUME Typed, NEW h \in Host, NEW request \in sent[h], NEW arrives \in BOOLEAN,
         Deliver(h, request, arrives)
  PROVE  /\ DOMAIN held' \in {{}, {1}} /\ held' = [i \in DOMAIN held' |-> held'[i]]
         /\ disturbed' \in [Host -> BOOLEAN]
         /\ \A g \in Host : Own(g)' = Own(g)
         /\ \/ held' = held /\ Snapshot' = Snapshot /\ disturbed' = disturbed
            \/ /\ Applicable(h, request) /\ Snapshot # Own(h) /\ Snapshot' = Own(h)
               /\ \A g \in Host : disturbed'[g] = (disturbed[g] \/ g # h)
  <1> DEFINE changed == Applicable(h, request) /\ Snapshot # Own(h)
  <1>1. held' = (IF changed THEN <<draft[h]>> ELSE held)
    BY DEF Deliver
  <1>2. disturbed' = [g \in Host |-> disturbed[g] \/ (g # h /\ changed)]
    BY DEF Deliver
  <1>3. draft' = draft
    BY DEF Deliver
  <1>4. \A g \in Host : Own(g)' = Own(g)
    BY <1>3 DEF Own
  <1>5. disturbed' \in [Host -> BOOLEAN]
    BY <1>2, Zenon
  <1>6. CASE changed
    <2>1. held' = <<draft[h]>>
      BY <1>1, <1>6
    <2>2. Snapshot' = Own(h)
      BY <2>1, SnapshotOfOne DEF Snapshot, Own
    <2>3. \A g \in Host : disturbed'[g] = (disturbed[g] \/ g # h)
      BY <1>2, <1>6, Zenon
    <2> QED BY <1>4, <1>5, <1>6, <2>1, <2>2, <2>3
  <1>7. CASE ~changed
    <2>1. held' = held
      BY <1>1, <1>7
    <2>2. Snapshot' = Snapshot
      BY <2>1 DEF Snapshot
    <2>3. ASSUME NEW g \in Host PROVE disturbed'[g] = disturbed[g]
      <3>1. disturbed'[g] = (disturbed[g] \/ (g # h /\ changed))
        BY <1>2, Zenon
      <3>2. disturbed[g] \in BOOLEAN
        BY DEF Typed
      <3>3. disturbed'[g] \in BOOLEAN
        BY <1>5
      <3>4. disturbed'[g] <=> disturbed[g]
        BY <1>7, <3>1, Zenon
      <3> QED BY <3>2, <3>3, <3>4
    <2>4. disturbed' = disturbed
      BY <1>5, <2>3 DEF Typed
    <2> QED BY <1>4, <1>5, <2>1, <2>2, <2>4 DEF Typed
  <1> QED BY <1>6, <1>7

\* What becomes of the stages: only an arrived answer to the current request
\* changes one, into a conflict if the request does not apply.
LEMMA DeliverStage ==
  ASSUME IInv, NEW h \in Host, NEW request \in sent[h], NEW arrives \in BOOLEAN,
         Deliver(h, request, arrives)
  PROVE  /\ stage' \in [Host -> Stages]
         /\ \A g \in Host : g # h => stage'[g] = stage[g]
         /\ \/ stage'[h] = stage[h]
            \/ stage'[h] = "acknowledged"
            \/ stage'[h] = "conflict" /\ disturbed[h]
  <1> USE DEF IInv
  <1>1. CASE ~(arrives /\ stage[h] = "waiting" /\ request.attempt = attempt[h])
    BY <1>1 DEF Deliver, Typed
  <1>2. CASE arrives /\ stage[h] = "waiting" /\ request.attempt = attempt[h]
    <2>1. request.previous = base[h]
      BY <1>2 DEF RequestsOfBaseline
    <2>2. PICK previous \in {request.previous, Own(h)} :
            stage' = [stage EXCEPT ![h] =
              IF ~Applicable(h, request) THEN "conflict"
              ELSE IF ReceiptAccepted([previous |-> previous, snapshot |-> Own(h), count |-> Len(draft[h])], h)
                   THEN "acknowledged" ELSE "rejected"]
      BY <1>2 DEF Deliver
    <2>3. ReceiptAccepted([previous |-> previous, snapshot |-> Own(h), count |-> Len(draft[h])], h)
      BY <2>1, <2>2 DEF ReceiptAccepted
    <2>4. ~Applicable(h, request) => disturbed[h]
      BY <1>2, <2>1 DEF Applicable, BaselineStands, Asking
    <2> QED BY <2>2, <2>3, <2>4 DEF Typed, Stages
  <1> QED BY <1>1, <1>2

\* Every step keeps the invariant.
LEMMA NextIInv == IInv /\ [Next]_vars => IInv'
  <1> SUFFICES ASSUME IInv, [Next]_vars PROVE IInv'
    OBVIOUS
  <1> USE DEF IInv
  <1>1. ASSUME NEW h \in Host, ReadBaseline(h) PROVE IInv'
    <2>1. Snapshot' = Snapshot /\ \A g \in Host : Own(g)' = Own(g)
      BY <1>1 DEF ReadBaseline, Snapshot, Own
    <2>2. Typed'
      BY <1>1 DEF ReadBaseline, Typed, Stages
    <2>3. RequestsOfBaseline'
      BY <1>1 DEF ReadBaseline, RequestsOfBaseline, Typed
    <2>4. BaselineStands'
      BY <1>1, <2>1 DEF ReadBaseline, BaselineStands, Typed
    <2>5. RetriesAcknowledged'
      BY <1>1 DEF ReadBaseline, RetriesAcknowledged, Typed
    <2> QED BY <2>2, <2>3, <2>4, <2>5
  <1>2. ASSUME NEW h \in Host, stage[h] \in Asking, Send(h) PROVE IInv'
    <2>1. Snapshot' = Snapshot /\ \A g \in Host : Own(g)' = Own(g)
      BY <1>2 DEF Send, Snapshot, Own
    <2>2. Typed'
      <3>1. attempt' \in [Host -> Nat] /\ stage' \in [Host -> Stages]
        BY <1>2 DEF Send, Typed, Stages
      <3>2. sent' = [g \in Host |-> sent'[g]]
        BY <1>2 DEF Send, Typed
      <3>3. UNCHANGED <<held, base, disturbed>>
        BY <1>2 DEF Send
      <3> QED BY <3>1, <3>2, <3>3 DEF Typed
    <2>3. RequestsOfBaseline'
      BY <1>2 DEF Send, RequestsOfBaseline, Typed
    <2>4. BaselineStands'
      BY <1>2, <2>1 DEF Send, BaselineStands, Typed, Asking
    <2>5. RetriesAcknowledged'
      BY <1>2 DEF Send, RetriesAcknowledged, Typed
    <2> QED BY <2>2, <2>3, <2>4, <2>5
  <1>3. ASSUME NEW h \in Host, Refuse(h) \/ GiveUp(h) PROVE IInv'
    <2>1. Snapshot' = Snapshot /\ \A g \in Host : Own(g)' = Own(g)
      BY <1>3 DEF Refuse, GiveUp, Snapshot, Own
    <2>2. /\ stage' \in [Host -> Stages] /\ stage'[h] \in {"invalid", "unknown"}
          /\ \A g \in Host : g # h => stage'[g] = stage[g]
          /\ UNCHANGED <<kind, draft, held, base, attempt, sent, disturbed>>
      BY <1>3 DEF Refuse, GiveUp, Typed, Stages
    <2>3. Typed'
      BY <2>2 DEF Typed
    <2>4. RequestsOfBaseline'
      BY <2>2 DEF RequestsOfBaseline
    <2>5. BaselineStands'
      BY <2>1, <2>2 DEF BaselineStands, Asking
    <2>6. RetriesAcknowledged'
      BY <2>2 DEF RetriesAcknowledged
    <2> QED BY <2>3, <2>4, <2>5, <2>6
  <1>4. ASSUME NEW h \in Host, NEW request \in sent[h], NEW arrives \in BOOLEAN,
               Deliver(h, request, arrives)
        PROVE IInv'
    <2>1. /\ UNCHANGED <<kind, draft, base, attempt>>
          /\ sent' = [sent EXCEPT ![h] = @ \ {request}]
      BY <1>4 DEF Deliver
    <2>2. Typed'
      <3>1. /\ DOMAIN held' \in {{}, {1}} /\ held' = [i \in DOMAIN held' |-> held'[i]]
            /\ disturbed' \in [Host -> BOOLEAN]
        BY <1>4, DeliverSnapshot
      <3>2. stage' \in [Host -> Stages]
        BY <1>4, DeliverStage
      <3>3. sent' = [g \in Host |-> sent'[g]]
        BY <2>1 DEF Typed
      <3> QED BY <2>1, <3>1, <3>2, <3>3 DEF Typed
    <2>3. \A g \in Host : stage'[g] \in Asking => stage'[g] = stage[g]
      BY <1>4, DeliverStage DEF Asking
    <2>4. RequestsOfBaseline'
      BY <2>1, <2>3 DEF RequestsOfBaseline, Typed, Asking
    <2>5. BaselineStands'
      BY <1>4, <2>1, <2>3, DeliverSnapshot DEF BaselineStands
    <2>6. RetriesAcknowledged'
      BY <1>4, <2>1, DeliverSnapshot, DeliverStage DEF RetriesAcknowledged, Typed
    <2> QED BY <2>2, <2>4, <2>5, <2>6
  <1>5. ASSUME NEW h \in Host, NEW request \in sent[h], Lose(h, request) PROVE IInv'
    <2>1. Snapshot' = Snapshot /\ \A g \in Host : Own(g)' = Own(g)
      BY <1>5 DEF Lose, Snapshot, Own
    <2>2. Typed'
      BY <1>5 DEF Lose, Typed
    <2>3. RequestsOfBaseline'
      BY <1>5 DEF Lose, RequestsOfBaseline, Typed
    <2>4. BaselineStands' /\ RetriesAcknowledged'
      BY <1>5, <2>1 DEF Lose, BaselineStands, RetriesAcknowledged
    <2> QED BY <2>2, <2>3, <2>4
  <1>6. ASSUME NEW h \in Host, NEW g \in Host, Bootstrap(h, g) PROVE IInv'
    <2>1. Snapshot' = Snapshot /\ \A i \in Host : Own(i)' = Own(i)
      BY <1>6 DEF Bootstrap, Snapshot, Own
    <2>2. /\ stage' \in [Host -> Stages] /\ stage'[h] \in {"invalid", "acknowledged", "conflict"}
          /\ \A i \in Host : i # h => stage'[i] = stage[i]
          /\ UNCHANGED <<kind, draft, held, base, attempt, sent, disturbed>> /\ kind # "permissions"
      <3>1. PICK own, theirs : Compare(h, own, theirs)
        BY <1>6 DEF Bootstrap
      <3>2. \E s \in {"invalid", "acknowledged", "conflict"} : stage' = [stage EXCEPT ![h] = s]
        BY <3>1 DEF Compare
      <3> QED BY <1>6, <3>2 DEF Bootstrap, Typed, Stages
    <2>3. Typed'
      BY <2>2 DEF Typed
    <2>4. RequestsOfBaseline'
      BY <2>2 DEF RequestsOfBaseline
    <2>5. BaselineStands'
      BY <2>1, <2>2 DEF BaselineStands, Asking
    <2>6. RetriesAcknowledged'
      BY <2>2 DEF RetriesAcknowledged
    <2> QED BY <2>3, <2>4, <2>5, <2>6
  <1>7. ASSUME UNCHANGED vars PROVE IInv'
    <2>1. Snapshot' = Snapshot /\ \A i \in Host : Own(i)' = Own(i)
      BY <1>7 DEF vars, Snapshot, Own
    <2> QED BY <1>7, <2>1 DEF vars, Typed, RequestsOfBaseline, BaselineStands, RetriesAcknowledged
  <1>8. ASSUME NEW h \in Host, Reconcile(h) PROVE IInv'
    BY <1>2, <1>8 DEF Reconcile, Asking
  <1>9. ASSUME NEW h \in Host, RetryReconcile(h) PROVE IInv'
    BY <1>2, <1>9 DEF RetryReconcile, Asking
  <1> QED BY <1>1, <1>3, <1>4, <1>5, <1>6, <1>7, <1>8, <1>9 DEF Next

\* Publishing the same permissions again is answered as the first time, and a
\* conflict is the work of another host (PermissionReconcileReceipt.ValidateFor).
THEOREM RetriesAreAcknowledged == Spec => []RetriesAcknowledged
  <1>1. IInv => RetriesAcknowledged
    BY DEF IInv
  <1> QED BY InitIInv, NextIInv, <1>1, PTL DEF Spec

-----------------------------------------------------------------------------
(* Data policies as finite trees *)

\* The parts of a policy are policies.
LEMMA ChildrenArePolicies ==
  ASSUME NEW p \in Policy
  PROVE  /\ p.children \in Seq(Policy)
         /\ Range(p.children) \subseteq Policy
         /\ \A i \in DOMAIN p.children : i \in Nat /\ p.children[i] \in Range(p.children)
<1>1. p.children \in Seq(Policy)
  BY PolicyAssumption
<1> QED
  BY <1>1 DEF Range

\* Induction over policies: a set of policies that is not empty has a member
\* whose parts are all outside it.
LEMMA MinimalPolicy ==
  ASSUME NEW T, T \subseteq Policy, T # {}
  PROVE  \E p \in T : \A q \in Range(p.children) : q \notin T
<1> DEFINE sizes == {Nodes[p] : p \in T}
<1>1. sizes \subseteq Nat /\ sizes # {}
  BY PolicyAssumption
<1>2. PICK n \in sizes : \A m \in sizes : n <= m
  <2> HIDE DEF sizes
  <2> QED BY <1>1, LeastMember
<1>3. PICK p \in T : Nodes[p] = n
  OBVIOUS
<1>4. ASSUME NEW q \in Range(p.children), q \in T PROVE FALSE
  <2>1. Nodes[q] \in sizes
    BY <1>4
  <2>2. n <= Nodes[q] /\ n \in Nat /\ Nodes[q] \in Nat
    <3> HIDE DEF sizes
    <3> QED BY <1>1, <1>2, <2>1
  <2>3. Nodes[q] < Nodes[p]
    BY PolicyAssumption
  <2> QED
    BY <1>3, <2>2, <2>3
<1> QED
  BY <1>4

\* One level of each recursion over policies, of the values at the parts.
CompiledStep(p, parts) ==
  CASE OperatorOf(p) = "and" -> [ZeroPredicate EXCEPT !.all = parts]
    [] OperatorOf(p) = "or" -> [ZeroPredicate EXCEPT !.any = parts]
    [] OperatorOf(p) = "not" -> [ZeroPredicate EXCEPT !.not = parts]
    [] OTHER -> CompiledLeaf(p)

CanonicalStep(p, parts) ==
  [p EXCEPT !.operator = OperatorOf(p), !.field = Trim(@), !.claim = Trim(@),
            !.children = IF OperatorOf(p) \in {"and", "or"} THEN Ordered(parts) ELSE parts]

ContentStep(p, parts) ==
  [operator |-> OperatorOf(p), field |-> Trim(p.field), claim |-> Trim(p.claim), path |-> p.path,
   children |-> IF OperatorOf(p) = "not" THEN parts ELSE Count(parts)]

SaysStep(p, f, record) ==
  CASE OperatorOf(p) = "and" -> \A q \in Range(p.children) : f[q]
    [] OperatorOf(p) = "or" -> \E q \in Range(p.children) : f[q]
    [] OperatorOf(p) = "not" -> ~\A q \in Range(p.children) : f[q]
    [] OTHER -> record[Trim(p.field)] # Absent /\ record[Trim(p.field)] \in Claimed(p)

Unfold(p, f, record) ==
  [compiled |-> CompiledStep(p, [i \in DOMAIN p.children |-> f[p.children[i]].compiled]),
   canonical |-> CanonicalStep(p, [i \in DOMAIN p.children |-> f[p.children[i]].canonical]),
   content |-> ContentStep(p, [i \in DOMAIN p.children |-> f[p.children[i]].content]),
   says |-> SaysStep(p, [q \in Range(p.children) |-> f[q].says], record),
   formed |-> WellFormedPolicy(p) /\ \A q \in Range(p.children) : f[q].formed,
   local |-> p.path = <<>> /\ \A q \in Range(p.children) : f[q].local,
   plain |-> Trim(p.operator) = p.operator /\ \A q \in Range(p.children) : f[q].plain]

\* The recursions over policies have a solution.
LEMMA UnfoldingExists ==
  ASSUME NEW record
  PROVE  \E f : f = [p \in Policy |-> Unfold(p, f, record)]
<1> DEFINE Body(p, f) == Unfold(p, f, record)
           Solves(A, f) == A \subseteq Policy /\ \A p \in A : Range(p.children) \subseteq A /\ f[p] = Body(p, f)
           At(p, v) == \E A, f : Solves(A, f) /\ p \in A /\ f[p] = v
           F == [p \in Policy |-> CHOOSE v : At(p, v)]
           D == {p \in Policy : \E A, f : Solves(A, f) /\ p \in A}
<1>1. ASSUME NEW p \in Policy, NEW f, NEW g, \A q \in Range(p.children) : f[q] = g[q]
      PROVE  Body(p, f) = Body(p, g)
  <2>1. \A i \in DOMAIN p.children : f[p.children[i]] = g[p.children[i]]
    BY <1>1, ChildrenArePolicies
  <2>2. /\ [i \in DOMAIN p.children |-> f[p.children[i]].compiled] = [i \in DOMAIN p.children |-> g[p.children[i]].compiled]
        /\ [i \in DOMAIN p.children |-> f[p.children[i]].canonical] = [i \in DOMAIN p.children |-> g[p.children[i]].canonical]
        /\ [i \in DOMAIN p.children |-> f[p.children[i]].content] = [i \in DOMAIN p.children |-> g[p.children[i]].content]
        /\ [q \in Range(p.children) |-> f[q].says] = [q \in Range(p.children) |-> g[q].says]
    BY <1>1, <2>1
  <2>3. /\ (\A q \in Range(p.children) : f[q].formed) = (\A q \in Range(p.children) : g[q].formed)
        /\ (\A q \in Range(p.children) : f[q].local) = (\A q \in Range(p.children) : g[q].local)
        /\ (\A q \in Range(p.children) : f[q].plain) = (\A q \in Range(p.children) : g[q].plain)
    BY <1>1
  <2> QED
    BY <2>2, <2>3, Zenon DEF Unfold
<1> HIDE DEF Body
<1>2. ASSUME NEW A, NEW B, NEW f, NEW g, Solves(A, f), Solves(B, g), NEW p \in A \intersect B
      PROVE  f[p] = g[p]
  <2> DEFINE T == {q \in A \intersect B : f[q] # g[q]}
  <2>1. SUFFICES ASSUME T # {} PROVE FALSE
    OBVIOUS
  <2>2. T \subseteq Policy
    BY <1>2
  <2>3. PICK q \in T : \A r \in Range(q.children) : r \notin T
    <3> HIDE DEF T
    <3> QED BY <2>1, <2>2, MinimalPolicy
  <2>4. \A r \in Range(q.children) : f[r] = g[r]
    BY <1>2, <2>3
  <2>5. Body(q, f) = Body(q, g)
    BY <1>1, <2>2, <2>4
  <2> QED
    BY <1>2, <2>5
<1>3. ASSUME NEW A, NEW f, Solves(A, f), NEW p \in A
      PROVE  p \in D /\ F[p] = f[p]
  <2>1. At(p, f[p]) /\ p \in Policy
    BY <1>3
  <2>2. At(p, F[p])
    <3> HIDE DEF At
    <3> QED BY <2>1
  <2>3. PICK B, g : Solves(B, g) /\ p \in B /\ g[p] = F[p]
    <3> HIDE DEF F, Solves
    <3> QED BY <2>2
  <2>4. g[p] = f[p]
    <3> HIDE DEF F, Solves
    <3> QED BY <1>2, <1>3, <2>3
  <2> QED
    BY <1>3, <2>1, <2>3, <2>4
<1>4. Solves(D, F)
  <2>1. ASSUME NEW p \in D PROVE Range(p.children) \subseteq D /\ F[p] = Body(p, F)
    <3>1. PICK A, f : Solves(A, f) /\ p \in A
      BY <2>1
    <3>2. Range(p.children) \subseteq A /\ f[p] = Body(p, f)
      BY <3>1
    <3>3. Range(p.children) \subseteq D /\ F[p] = f[p] /\ \A q \in Range(p.children) : F[q] = f[q]
      <4> HIDE DEF D, F, Solves
      <4> QED BY <1>3, <3>1, <3>2
    <3>4. Body(p, F) = Body(p, f)
      <4> HIDE DEF F
      <4> QED BY <1>1, <2>1, <3>3
    <3> QED
      BY <3>2, <3>3, <3>4
  <2> QED
    BY <2>1
<1>5. D = Policy
  <2>1. SUFFICES ASSUME Policy \ D # {} PROVE FALSE
    OBVIOUS
  <2>2. PICK p \in Policy \ D : \A q \in Range(p.children) : q \notin Policy \ D
    <3> HIDE DEF D
    <3> QED BY <2>1, MinimalPolicy
  <2>3. Range(p.children) \subseteq D
    BY <2>2, ChildrenArePolicies
  <2> DEFINE G == [F EXCEPT ![p] = Body(p, F)]
             B == D \union {p}
  <2>4. G[p] = Body(p, F) /\ \A q \in D : G[q] = F[q]
    BY <2>2
  <2>5. ASSUME NEW q \in B PROVE Range(q.children) \subseteq B /\ G[q] = Body(q, G)
    <3>1. Range(q.children) \subseteq D /\ G[q] = Body(q, F) /\ q \in Policy
      <4>1. CASE q \in D
        <5> HIDE DEF F, G, D
        <5> QED BY <1>4, <2>4, <4>1
      <4>2. CASE q = p
        BY <2>2, <2>3, <2>4, <4>2
      <4> QED BY <4>1, <4>2
    <3>2. Body(q, F) = Body(q, G)
      <4>1. \A r \in Range(q.children) : F[r] = G[r]
        <5> HIDE DEF F, G, D
        <5> QED BY <2>4, <3>1
      <4> HIDE DEF F, G, D
      <4> QED BY <1>1, <3>1, <4>1
    <3> QED
      BY <3>1, <3>2
  <2>6. Solves(B, G)
    <3>1. B \subseteq Policy
      BY <2>2
    <3> HIDE DEF B, G
    <3> QED BY <2>5, <3>1
  <2>7. p \in D
    <3> HIDE DEF D, F, G, Solves
    <3> QED BY <1>3, <2>6
  <2> QED
    BY <2>2, <2>7
<1>6. F = [p \in Policy |-> Body(p, F)]
  <2>1. \A p \in Policy : F[p] = Body(p, F)
    <3> HIDE DEF F, D
    <3> QED BY <1>4, <1>5
  <2> HIDE DEF D
  <2> QED
    BY <2>1
<1> QED
  BY <1>6 DEF Body

\* compileProjectDataPolicy, one level unfolded.
LEMMA CompiledEquation ==
  ASSUME NEW p \in Policy
  PROVE  Compiled(p) = CompiledStep(p, [i \in DOMAIN p.children |-> Compiled(p.children[i])])
<1> DEFINE Body(x, f) == CompiledStep(x, [i \in DOMAIN x.children |-> f[x.children[i]]])
           G == CHOOSE f : f = [x \in Policy |-> Body(x, f)]
<1>1. PICK all : all = [x \in Policy |-> Unfold(x, all, 0)]
  BY UnfoldingExists
<1> DEFINE g == [x \in Policy |-> all[x].compiled]
<1>2. ASSUME NEW x \in Policy PROVE g[x] = Body(x, g)
  <2>1. [i \in DOMAIN x.children |-> all[x.children[i]].compiled] = [i \in DOMAIN x.children |-> g[x.children[i]]]
    BY ChildrenArePolicies
  <2>2. all[x].compiled = Unfold(x, all, 0).compiled
    BY <1>1
  <2>3. Unfold(x, all, 0).compiled = CompiledStep(x, [i \in DOMAIN x.children |-> all[x.children[i]].compiled])
    BY Zenon DEF Unfold
  <2> QED
    BY <2>1, <2>2, <2>3
<1>3. g = [x \in Policy |-> Body(x, g)]
  <2> DEFINE b == [x \in Policy |-> Body(x, g)]
  <2>1. \A x \in Policy : g[x] = b[x]
    <3> HIDE DEF Body, g
    <3> QED BY <1>2
  <2> QED
    BY <2>1
<1>4. G = [x \in Policy |-> Body(x, G)]
  <2> HIDE DEF Body, g
  <2> QED BY <1>3
<1>5. \A x : Compiled(x) = G[x]
  BY DEF Compiled, CompiledStep, Each
<1>6. G[p] = Body(p, G)
  <2> HIDE DEF Body, G
  <2> QED BY <1>4
<1>7. [i \in DOMAIN p.children |-> G[p.children[i]]] = [i \in DOMAIN p.children |-> Compiled(p.children[i])]
  <2> HIDE DEF G
  <2> QED BY <1>5
<1> QED
  BY <1>5, <1>6, <1>7

\* canonicalProjectDataPolicy, one level unfolded.
LEMMA CanonicalEquation ==
  ASSUME NEW p \in Policy
  PROVE  CanonicalPolicy(p) = CanonicalStep(p, [i \in DOMAIN p.children |-> CanonicalPolicy(p.children[i])])
<1> DEFINE Body(x, f) == CanonicalStep(x, [i \in DOMAIN x.children |-> f[x.children[i]]])
           G == CHOOSE f : f = [x \in Policy |-> Body(x, f)]
<1>1. PICK all : all = [x \in Policy |-> Unfold(x, all, 0)]
  BY UnfoldingExists
<1> DEFINE g == [x \in Policy |-> all[x].canonical]
<1>2. ASSUME NEW x \in Policy PROVE g[x] = Body(x, g)
  <2>1. [i \in DOMAIN x.children |-> all[x.children[i]].canonical] = [i \in DOMAIN x.children |-> g[x.children[i]]]
    BY ChildrenArePolicies
  <2>2. all[x].canonical = Unfold(x, all, 0).canonical
    BY <1>1
  <2>3. Unfold(x, all, 0).canonical = CanonicalStep(x, [i \in DOMAIN x.children |-> all[x.children[i]].canonical])
    BY Zenon DEF Unfold
  <2> QED
    BY <2>1, <2>2, <2>3
<1>3. g = [x \in Policy |-> Body(x, g)]
  <2> DEFINE b == [x \in Policy |-> Body(x, g)]
  <2>1. \A x \in Policy : g[x] = b[x]
    <3> HIDE DEF Body, g
    <3> QED BY <1>2
  <2> QED
    BY <2>1
<1>4. G = [x \in Policy |-> Body(x, G)]
  <2> HIDE DEF Body, g
  <2> QED BY <1>3
<1>5. \A x : CanonicalPolicy(x) = G[x]
  BY DEF CanonicalPolicy, CanonicalStep, Each
<1>6. G[p] = Body(p, G)
  <2> HIDE DEF Body, G
  <2> QED BY <1>4
<1>7. [i \in DOMAIN p.children |-> G[p.children[i]]] = [i \in DOMAIN p.children |-> CanonicalPolicy(p.children[i])]
  <2> HIDE DEF G
  <2> QED BY <1>5
<1> QED
  BY <1>5, <1>6, <1>7

\* The content of a policy, one level unfolded.
LEMMA ContentEquation ==
  ASSUME NEW p \in Policy
  PROVE  PolicyContent(p) = ContentStep(p, [i \in DOMAIN p.children |-> PolicyContent(p.children[i])])
<1> DEFINE Body(x, f) == ContentStep(x, [i \in DOMAIN x.children |-> f[x.children[i]]])
           G == CHOOSE f : f = [x \in Policy |-> Body(x, f)]
<1>1. PICK all : all = [x \in Policy |-> Unfold(x, all, 0)]
  BY UnfoldingExists
<1> DEFINE g == [x \in Policy |-> all[x].content]
<1>2. ASSUME NEW x \in Policy PROVE g[x] = Body(x, g)
  <2>1. [i \in DOMAIN x.children |-> all[x.children[i]].content] = [i \in DOMAIN x.children |-> g[x.children[i]]]
    BY ChildrenArePolicies
  <2>2. all[x].content = Unfold(x, all, 0).content
    BY <1>1
  <2>3. Unfold(x, all, 0).content = ContentStep(x, [i \in DOMAIN x.children |-> all[x.children[i]].content])
    BY Zenon DEF Unfold
  <2> QED
    BY <2>1, <2>2, <2>3
<1>3. g = [x \in Policy |-> Body(x, g)]
  <2> DEFINE b == [x \in Policy |-> Body(x, g)]
  <2>1. \A x \in Policy : g[x] = b[x]
    <3> HIDE DEF Body, g
    <3> QED BY <1>2
  <2> QED
    BY <2>1
<1>4. G = [x \in Policy |-> Body(x, G)]
  <2> HIDE DEF Body, g
  <2> QED BY <1>3
<1>5. \A x : PolicyContent(x) = G[x]
  BY DEF PolicyContent, ContentStep, Each
<1>6. G[p] = Body(p, G)
  <2> HIDE DEF Body, G
  <2> QED BY <1>4
<1>7. [i \in DOMAIN p.children |-> G[p.children[i]]] = [i \in DOMAIN p.children |-> PolicyContent(p.children[i])]
  <2> HIDE DEF G
  <2> QED BY <1>5
<1> QED
  BY <1>5, <1>6, <1>7

\* What a policy says, one level unfolded.
LEMMA SaysEquation ==
  ASSUME NEW p \in Policy, NEW record
  PROVE  Says(p, record) = SaysStep(p, [q \in Range(p.children) |-> Says(q, record)], record)
<1> DEFINE Body(x, f) == SaysStep(x, [q \in Range(x.children) |-> f[q]], record)
           G == CHOOSE f : f = [x \in Policy |-> Body(x, f)]
<1>1. PICK all : all = [x \in Policy |-> Unfold(x, all, record)]
  BY UnfoldingExists
<1> DEFINE g == [x \in Policy |-> all[x].says]
<1>2. ASSUME NEW x \in Policy PROVE g[x] = Body(x, g)
  <2>1. [q \in Range(x.children) |-> all[q].says] = [q \in Range(x.children) |-> g[q]]
    BY ChildrenArePolicies
  <2>2. all[x].says = Unfold(x, all, record).says
    BY <1>1
  <2>3. Unfold(x, all, record).says = SaysStep(x, [q \in Range(x.children) |-> all[q].says], record)
    BY Zenon DEF Unfold
  <2> QED
    BY <2>1, <2>2, <2>3
<1>3. g = [x \in Policy |-> Body(x, g)]
  <2> DEFINE b == [x \in Policy |-> Body(x, g)]
  <2>1. \A x \in Policy : g[x] = b[x]
    <3> HIDE DEF Body, g
    <3> QED BY <1>2
  <2> QED
    BY <2>1
<1>4. G = [x \in Policy |-> Body(x, G)]
  <2> HIDE DEF Body, g
  <2> QED BY <1>3
<1>5. \A x : Says(x, record) = G[x]
  BY DEF Says, SaysStep
<1>6. G[p] = Body(p, G)
  <2> HIDE DEF Body, G
  <2> QED BY <1>4
<1>7. [q \in Range(p.children) |-> G[q]] = [q \in Range(p.children) |-> Says(q, record)]
  <2> HIDE DEF G
  <2> QED BY <1>5
<1> QED
  BY <1>5, <1>6, <1>7

\* ProjectDataPolicy.Validate, one level unfolded.
LEMMA WellFormedEquation ==
  ASSUME NEW p \in Policy
  PROVE  AllWellFormed[p] <=> (WellFormedPolicy(p)) /\ \A q \in Range(p.children) : AllWellFormed[q]
<1> DEFINE Body(x, f) == (WellFormedPolicy(x)) /\ \A q \in Range(x.children) : f[q]
           G == CHOOSE f : f = [x \in Policy |-> Body(x, f)]
<1>1. PICK all : all = [x \in Policy |-> Unfold(x, all, 0)]
  BY UnfoldingExists
<1> DEFINE g == [x \in Policy |-> all[x].formed]
<1>2. ASSUME NEW x \in Policy PROVE g[x] = Body(x, g)
  <2>1. \A q \in Range(x.children) : all[q].formed = g[q]
    BY ChildrenArePolicies
  <2>2. all[x].formed = Unfold(x, all, 0).formed
    BY <1>1
  <2>3. Unfold(x, all, 0).formed = ((WellFormedPolicy(x)) /\ \A q \in Range(x.children) : all[q].formed)
    BY Zenon DEF Unfold
  <2>4. (\A q \in Range(x.children) : all[q].formed) = (\A q \in Range(x.children) : g[q])
    BY <2>1
  <2> QED
    BY <2>2, <2>3, <2>4
<1>3. g = [x \in Policy |-> Body(x, g)]
  <2> DEFINE b == [x \in Policy |-> Body(x, g)]
  <2>1. \A x \in Policy : g[x] = b[x]
    <3> HIDE DEF Body, g
    <3> QED BY <1>2
  <2> QED
    BY <2>1
<1>4. G = [x \in Policy |-> Body(x, G)]
  <2> HIDE DEF Body, g
  <2> QED BY <1>3
<1>5. AllWellFormed = G
  BY DEF AllWellFormed
<1> HIDE DEF G
<1> QED
  BY <1>4, <1>5

\* A policy without relation paths, one level unfolded.
LEMMA LocalEquation ==
  ASSUME NEW p \in Policy
  PROVE  Local[p] <=> (p.path = <<>>) /\ \A q \in Range(p.children) : Local[q]
<1> DEFINE Body(x, f) == (x.path = <<>>) /\ \A q \in Range(x.children) : f[q]
           G == CHOOSE f : f = [x \in Policy |-> Body(x, f)]
<1>1. PICK all : all = [x \in Policy |-> Unfold(x, all, 0)]
  BY UnfoldingExists
<1> DEFINE g == [x \in Policy |-> all[x].local]
<1>2. ASSUME NEW x \in Policy PROVE g[x] = Body(x, g)
  <2>1. \A q \in Range(x.children) : all[q].local = g[q]
    BY ChildrenArePolicies
  <2>2. all[x].local = Unfold(x, all, 0).local
    BY <1>1
  <2>3. Unfold(x, all, 0).local = ((x.path = <<>>) /\ \A q \in Range(x.children) : all[q].local)
    BY Zenon DEF Unfold
  <2>4. (\A q \in Range(x.children) : all[q].local) = (\A q \in Range(x.children) : g[q])
    BY <2>1
  <2> QED
    BY <2>2, <2>3, <2>4
<1>3. g = [x \in Policy |-> Body(x, g)]
  <2> DEFINE b == [x \in Policy |-> Body(x, g)]
  <2>1. \A x \in Policy : g[x] = b[x]
    <3> HIDE DEF Body, g
    <3> QED BY <1>2
  <2> QED
    BY <2>1
<1>4. G = [x \in Policy |-> Body(x, G)]
  <2> HIDE DEF Body, g
  <2> QED BY <1>3
<1>5. Local = G
  BY DEF Local
<1> HIDE DEF G
<1> QED
  BY <1>4, <1>5

\* A policy whose operators are trimmed, one level unfolded.
LEMMA PlainEquation ==
  ASSUME NEW p \in Policy
  PROVE  Plain[p] <=> (Trim(p.operator) = p.operator) /\ \A q \in Range(p.children) : Plain[q]
<1> DEFINE Body(x, f) == (Trim(x.operator) = x.operator) /\ \A q \in Range(x.children) : f[q]
           G == CHOOSE f : f = [x \in Policy |-> Body(x, f)]
<1>1. PICK all : all = [x \in Policy |-> Unfold(x, all, 0)]
  BY UnfoldingExists
<1> DEFINE g == [x \in Policy |-> all[x].plain]
<1>2. ASSUME NEW x \in Policy PROVE g[x] = Body(x, g)
  <2>1. \A q \in Range(x.children) : all[q].plain = g[q]
    BY ChildrenArePolicies
  <2>2. all[x].plain = Unfold(x, all, 0).plain
    BY <1>1
  <2>3. Unfold(x, all, 0).plain = ((Trim(x.operator) = x.operator) /\ \A q \in Range(x.children) : all[q].plain)
    BY Zenon DEF Unfold
  <2>4. (\A q \in Range(x.children) : all[q].plain) = (\A q \in Range(x.children) : g[q])
    BY <2>1
  <2> QED
    BY <2>2, <2>3, <2>4
<1>3. g = [x \in Policy |-> Body(x, g)]
  <2> DEFINE b == [x \in Policy |-> Body(x, g)]
  <2>1. \A x \in Policy : g[x] = b[x]
    <3> HIDE DEF Body, g
    <3> QED BY <1>2
  <2> QED
    BY <2>1
<1>4. G = [x \in Policy |-> Body(x, G)]
  <2> HIDE DEF Body, g
  <2> QED BY <1>3
<1>5. Plain = G
  BY DEF Plain
<1> HIDE DEF G
<1> QED
  BY <1>4, <1>5

-----------------------------------------------------------------------------
(* Texts *)

\* Trimming and lowering twice is doing so once.
LEMMA TextForms ==
  /\ \A text : Trim(Trim(text)) = Trim(text)
  /\ \A text : Lower(Lower(text)) = Lower(text)
  /\ \A text : Trim(Lower(Trim(text))) = Lower(Trim(text))
<1> USE TextAssumption DEF Trim, Lower
<1>1. \A text : Trim(text) \notin DOMAIN Bare
  OBVIOUS
<1>2. \A text : Lower(text) \notin DOMAIN LowerCase
  OBVIOUS
<1>3. \A text : text \notin DOMAIN Bare => Lower(text) \notin DOMAIN Bare
  OBVIOUS
<1> QED
  BY <1>1, <1>2, <1>3

-----------------------------------------------------------------------------
(* What a compiled policy answers *)

Branch(c, parts) == [ZeroPredicate EXCEPT ![c] = parts]

BranchForm(p, c, parts) ==
  /\ WellFormed(p) /\ p.path = <<>>
  /\ p.all = IF c = "all" THEN parts ELSE <<>>
  /\ p.any = IF c = "any" THEN parts ELSE <<>>
  /\ p.not = IF c = "not" THEN parts ELSE <<>>
  /\ Parts(p) = Range(parts)

\* A compiled branch has its parts under one connective.
LEMMA CompiledBranch ==
  ASSUME NEW c \in {"all", "any", "not"}, NEW parts, parts # <<>>
  PROVE  BranchForm(Branch(c, parts), c, parts)
<1> DEFINE p == Branch(c, parts)
<1>1. /\ p.fact = Blank /\ p.operator = Blank /\ p.path = <<>>
      /\ p.all = IF c = "all" THEN parts ELSE <<>>
      /\ p.any = IF c = "any" THEN parts ELSE <<>>
      /\ p.not = IF c = "not" THEN parts ELSE <<>>
  <2> USE ZeroFields DEF PredicateFields, Branch
  <2>1. p.fact = Blank /\ p.operator = Blank /\ p.path = <<>>
    OBVIOUS
  <2>2. p.all = IF c = "all" THEN parts ELSE <<>>
    OBVIOUS
  <2>3. p.any = IF c = "any" THEN parts ELSE <<>>
    OBVIOUS
  <2>4. p.not = IF c = "not" THEN parts ELSE <<>>
    OBVIOUS
  <2> QED
    BY <2>1, <2>2, <2>3, <2>4
<1> HIDE DEF p
<1>2. ~HasLeaf(p)
  BY <1>1, BranchesOf
<1>3. Branches(p) = {c}
  BY <1>1, <1>2, BranchesOf
<1>4. Cardinality(Branches(p)) = 1
  BY <1>3, FS_Singleton
<1>5. WellFormed(p)
  BY <1>1, <1>2, <1>4 DEF WellFormed
<1>6. Range(<<>>) = {}
  BY DEF Range
<1>7. Parts(p) = Range(parts)
  BY <1>1, <1>6 DEF Parts
<1> QED
  BY <1>1, <1>5, <1>7 DEF p, BranchForm

\* What WellFormedPolicy says of a leaf and of a branch.
LEMMA FormedBranch ==
  ASSUME NEW p \in Policy, WellFormedPolicy(p)
  PROVE  /\ OperatorOf(p) \in {"and", "or", "not", "eq", "in"}
         /\ OperatorOf(p) \in {"and", "or", "not"} => p.children # <<>>
         /\ OperatorOf(p) = "not" => Len(p.children) = 1
         /\ OperatorOf(p) \in {"eq", "in"} =>
              /\ p.children = <<>> /\ Trim(p.field) # Blank
              /\ Trim(p.claim) \in IF OperatorOf(p) = "eq" THEN ScalarClaims ELSE CollectionClaims
<1>1. \/ /\ OperatorOf(p) \in {"and", "or", "not"}
         /\ IF OperatorOf(p) = "not" THEN Len(p.children) = 1 ELSE Len(p.children) >= 2
      \/ /\ OperatorOf(p) \in {"eq", "in"}
         /\ p.children = <<>> /\ Trim(p.field) # Blank
         /\ Trim(p.claim) \in IF OperatorOf(p) = "eq" THEN ScalarClaims ELSE CollectionClaims
  BY Zenon DEF WellFormedPolicy, Blank
<1>2. p.children \in Seq(Policy)
  BY ChildrenArePolicies
<1>3. Len(p.children) = 1 \/ Len(p.children) >= 2 => p.children # <<>>
  <2>1. p.children = <<>> => Len(p.children) = 0
    OBVIOUS
  <2> QED
    BY <2>1
<1> QED
  BY <1>1, <1>3

\* What the property asks the evaluator with.
Asked == [subject |-> Subject, claims |-> <<>>]

\* A compiled leaf is a leaf, and compares what the policy compares.
LEMMA CompiledLeafMeans ==
  ASSUME NEW p \in Policy, WellFormedPolicy(p), OperatorOf(p) \in {"eq", "in"},
         p.path = <<>>, Trim(p.operator) = p.operator
  PROVE  /\ WellFormed(CompiledLeaf(p)) /\ CompiledLeaf(p).path = <<>>
         /\ CompiledLeaf(p).all = <<>> /\ CompiledLeaf(p).any = <<>> /\ CompiledLeaf(p).not = <<>>
         /\ Parts(CompiledLeaf(p)) = {}
         /\ \A record : EvaluateLeaf(CompiledLeaf(p), record, Asked)
                          = Truth(record[Trim(p.field)] # Absent /\ record[Trim(p.field)] \in Claimed(p))
<1> DEFINE l == CompiledLeaf(p)
           operator == IF Lower(p.operator) = "in" THEN "in" ELSE "eq"
           value == [kind |-> "subject", items |-> <<Trim(p.claim)>>]
<1>1. /\ l.fact = Trim(p.field) /\ l.path = p.path /\ l.operator = operator /\ l.value = value
      /\ l.all = <<>> /\ l.any = <<>> /\ l.not = <<>>
  <2> USE ZeroFields DEF PredicateFields, CompiledLeaf
  <2> HIDE DEF operator, value
  <2>1. l = [ZeroPredicate EXCEPT !.fact = Trim(p.field), !.path = p.path, !.operator = operator, !.value = value]
    BY DEF operator, value
  <2> HIDE DEF l
  <2>2. l.fact = Trim(p.field) /\ l.path = p.path /\ l.operator = operator /\ l.value = value
    BY <2>1
  <2>3. l.all = <<>> /\ l.any = <<>> /\ l.not = <<>>
    BY <2>1
  <2> QED
    BY <2>2, <2>3
<1>2. operator = OperatorOf(p)
  BY DEF OperatorOf
<1>3. Trim(p.field) # Blank
  BY FormedBranch
<1> DEFINE claim == Trim(p.claim)
<1>4. /\ claim \in IF OperatorOf(p) = "eq" THEN ScalarClaims ELSE CollectionClaims
      /\ claim \in DOMAIN Subject
  BY FormedBranch, CatalogAssumption DEF SubjectClaims
<1>5. ResolveValue(value, Asked) = Subject[claim]
  <2>1. value.kind = "subject" /\ value.items[1] = claim /\ Asked.subject = Subject
    BY DEF Asked
  <2> HIDE DEF value, claim
  <2> QED BY <1>4, <2>1, Zenon DEF ResolveValue
<1> HIDE DEF l, value, operator, claim
<1>6. WellFormed(l)
  <2>1. HasLeaf(l) /\ l.fact # Blank
    BY <1>1, <1>3, BranchesOf
  <2>2. Branches(l) = {"leaf"}
    BY <1>1, <2>1, BranchesOf
  <2>3. Cardinality(Branches(l)) = 1
    BY <2>2, FS_Singleton
  <2>4. l.fact # "" /\ l.operator \in Operators /\ l.path = <<>>
    <3>1. l.operator \in Operators
      BY <1>1, <1>2 DEF Operators
    <3> QED BY <1>1, <2>1, <3>1, Zenon DEF Blank
  <2> QED
    BY <2>3, <2>4, Zenon DEF WellFormed
<1>7. Parts(l) = {}
  BY <1>1 DEF Parts, Range
<1>8. ASSUME NEW record
      PROVE  EvaluateLeaf(l, record, Asked) = Truth(record[Trim(p.field)] # Absent /\ record[Trim(p.field)] \in Claimed(p))
  <2> DEFINE actual == record[Trim(p.field)]
  <2>1. EvaluateLeaf(l, record, Asked) = LeafAnswer(operator, actual, Subject[claim])
    BY <1>1, <1>5 DEF EvaluateLeaf
  <2>2. Claimed(p) = Range(Subject[claim].items)
    BY DEF Claimed, claim
  <2> HIDE DEF actual
  <2>3. CASE OperatorOf(p) = "eq"
    <3>1. Subject[claim].kind = "scalar" /\ Range(Subject[claim].items) = {Subject[claim].items[1]}
      BY <1>4, <2>3, CatalogAssumption DEF SubjectClaims
    <3>2. LeafAnswer(operator, actual, Subject[claim]) = Truth(actual # Absent /\ Subject[claim].items[1] = actual)
      BY <1>2, <2>3, <3>1 DEF LeafAnswer, Same, IsScalar
    <3>3. actual \in Claimed(p) <=> Subject[claim].items[1] = actual
      BY <2>2, <3>1
    <3> QED
      BY <2>1, <3>2, <3>3 DEF actual, Truth
  <2>4. CASE OperatorOf(p) = "in"
    <3>1. Subject[claim].kind = "list"
      BY <1>4, <2>4, CatalogAssumption DEF SubjectClaims
    <3>2. LeafAnswer(operator, actual, Subject[claim])
            = Truth(actual # Absent /\ ((actual \in Range(Subject[claim].items)) = TRUE))
      BY <1>2, <2>4, <3>1 DEF LeafAnswer
    <3> QED
      BY <2>1, <2>2, <3>2 DEF actual, Truth
  <2> QED
    BY <2>3, <2>4
<1> QED
  BY <1>1, <1>6, <1>7, <1>8 DEF l

\* What the property asks of a compiled policy.
Means(p) ==
  /\ ValidPredicate[Compiled(p)]
  /\ \A record : EvaluatePredicate(Compiled(p), record, Asked) = Truth(Says(p, record))

Compilable(p) == AllWellFormed[p] /\ Local[p] /\ Plain[p] /\ Compiled(p) \in Predicate

\* A policy whose operators are trimmed is compiled to what it says.
LEMMA CompiledMeans ==
  \A p \in Policy : Compilable(p) => Means(p)
<1> DEFINE T == {p \in Policy : Compilable(p) /\ ~Means(p)}
<1>1. SUFFICES ASSUME T # {} PROVE FALSE
  OBVIOUS
<1>2. PICK p \in T : \A q \in Range(p.children) : q \notin T
  <2>1. T \subseteq Policy
    OBVIOUS
  <2> HIDE DEF T
  <2> QED BY <1>1, <2>1, MinimalPolicy
<1>3. p \in Policy /\ Compilable(p) /\ ~Means(p)
  BY <1>2
<1>4. /\ WellFormedPolicy(p) /\ p.path = <<>> /\ Trim(p.operator) = p.operator
      /\ Compiled(p) \in Predicate
      /\ \A q \in Range(p.children) : q \in Policy /\ AllWellFormed[q] /\ Local[q] /\ Plain[q]
  BY <1>3, WellFormedEquation, LocalEquation, PlainEquation, ChildrenArePolicies DEF Compilable
<1> DEFINE parts == [i \in DOMAIN p.children |-> Compiled(p.children[i])]
           c == Compiled(p)
<1>5. c = CompiledStep(p, parts)
  BY <1>3, CompiledEquation
<1>6. \A record : Says(p, record) = SaysStep(p, [q \in Range(p.children) |-> Says(q, record)], record)
  BY <1>3, SaysEquation
<1>7. OperatorOf(p) \in {"and", "or", "not", "eq", "in"}
  BY <1>3, <1>4, FormedBranch
<1>c. /\ \A i \in DOMAIN p.children : i \in Nat /\ p.children[i] \in Range(p.children)
      /\ \A q \in Range(p.children) : \E i \in DOMAIN p.children : q = p.children[i]
  BY <1>3, ChildrenArePolicies DEF Range
\* The branches: their parts mean what they say.
<1>8. ASSUME NEW conn \in {"all", "any", "not"}, p.children # <<>>,
             c = Branch(conn, parts)
      PROVE  /\ ValidPredicate[c] /\ c.path = <<>>
             /\ c.all = IF conn = "all" THEN parts ELSE <<>>
             /\ c.any = IF conn = "any" THEN parts ELSE <<>>
             /\ c.not = IF conn = "not" THEN parts ELSE <<>>
             /\ parts # <<>>
             /\ \A i \in DOMAIN parts : i \in Nat /\ Means(p.children[i])
  <2>1. parts # <<>> /\ DOMAIN parts = DOMAIN p.children
    <3>1. p.children \in Seq(Policy)
      BY <1>3, ChildrenArePolicies
    <3>2. 1 \in DOMAIN p.children
      BY <1>8, <3>1
    <3> QED BY <3>2
  <2>a. c = Branch(conn, parts)
    BY <1>8
  <2> HIDE DEF parts, c
  <2>2. /\ WellFormed(c) /\ c.path = <<>>
        /\ c.all = IF conn = "all" THEN parts ELSE <<>>
        /\ c.any = IF conn = "any" THEN parts ELSE <<>>
        /\ c.not = IF conn = "not" THEN parts ELSE <<>>
        /\ Parts(c) = Range(parts)
    <3>1. BranchForm(c, conn, parts)
      BY <2>1, <2>a, CompiledBranch
    <3> QED BY <3>1 DEF BranchForm
  <2>3. c \in Predicate
    BY <1>4 DEF c
  <2>4. ASSUME NEW i \in DOMAIN parts PROVE i \in Nat /\ Means(p.children[i]) /\ parts[i] = Compiled(p.children[i])
    <3>1. parts[i] = Compiled(p.children[i]) /\ p.children[i] \in Range(p.children) /\ i \in Nat
      BY <1>c, <2>1, <2>4 DEF parts
    <3>2. parts[i] \in Parts(c)
      BY <2>2 DEF Range
    <3>3. parts[i] \in Predicate
      BY <2>3, <3>2, PartsArePredicates
    <3>4. Compilable(p.children[i])
      BY <1>4, <3>1, <3>3 DEF Compilable
    <3> QED
      BY <1>2, <1>4, <3>1, <3>4
  <2>5. \A q \in Parts(c) : ValidPredicate[q]
    BY <2>2, <2>4 DEF Range, Means
  <2>6. ValidPredicate[c]
    BY <2>2, <2>3, <2>5, ValidEquation
  <2> QED
    BY <2>1, <2>2, <2>4, <2>6
<1>9. CASE OperatorOf(p) = "and"
  <2>1. c = Branch("all", parts) /\ p.children # <<>>
    BY <1>3, <1>4, <1>5, <1>9, FormedBranch DEF CompiledStep, Branch
  <2>2. /\ ValidPredicate[c] /\ c.path = <<>> /\ c.all = parts /\ parts # <<>>
        /\ \A i \in DOMAIN parts : i \in Nat /\ Means(p.children[i])
    <3> HIDE DEF c, parts
    <3> QED BY <1>8, <2>1
  <2>3. ASSUME NEW record PROVE EvaluatePredicate(c, record, Asked) = Truth(Says(p, record))
    <3> DEFINE answers == [i \in DOMAIN c.all |-> EvaluatePredicate(c.all[i], record, Asked)]
    <3>1. EvaluatePredicate(c, record, Asked) = Loop(answers, "true")
      <4>1. EvaluatePredicate(c, record, Asked) = Evaluation(c, record, Asked)
        BY <1>4, EvaluationEquation
      <4> QED BY <2>2, <4>1, Zenon DEF Evaluation
    <3>2. /\ DOMAIN answers = DOMAIN p.children /\ DOMAIN answers \subseteq Nat
          /\ \A i \in DOMAIN answers : answers[i] = Truth(Says(p.children[i], record))
      <4>1. DOMAIN c.all = DOMAIN p.children
        BY <2>2
      <4>2. ASSUME NEW i \in DOMAIN p.children
            PROVE  i \in Nat /\ EvaluatePredicate(c.all[i], record, Asked) = Truth(Says(p.children[i], record))
        <5>1. i \in Nat /\ Means(p.children[i])
          BY <2>2
        <5>2. c.all[i] = Compiled(p.children[i])
          BY <2>2
        <5> HIDE DEF c, parts
        <5> QED BY <5>1, <5>2 DEF Means
      <4> HIDE DEF c, parts
      <4> QED BY <4>1, <4>2
    <3>3. Says(p, record) <=> \A q \in Range(p.children) : Says(q, record)
      BY <1>6, <1>9 DEF SaysStep
    <3>4. Says(p, record) <=> \A i \in DOMAIN answers : Says(p.children[i], record)
      BY <1>c, <3>2, <3>3
    <3>5. Loop(answers, "true") = Truth(\A i \in DOMAIN answers : Says(p.children[i], record))
      <4> HIDE DEF answers
      <4> QED BY <3>2, LoopAnswers DEF Truth
    <3> QED
      BY <3>1, <3>4, <3>5 DEF Truth
  <2> QED
    BY <1>3, <2>2, <2>3 DEF Means
<1>10. CASE OperatorOf(p) = "or"
  <2>1. c = Branch("any", parts) /\ p.children # <<>>
    BY <1>3, <1>4, <1>5, <1>10, FormedBranch DEF CompiledStep, Branch
  <2>2. /\ ValidPredicate[c] /\ c.path = <<>> /\ c.all = <<>> /\ c.any = parts /\ parts # <<>>
        /\ \A i \in DOMAIN parts : i \in Nat /\ Means(p.children[i])
    <3> HIDE DEF c, parts
    <3> QED BY <1>8, <2>1
  <2>3. ASSUME NEW record PROVE EvaluatePredicate(c, record, Asked) = Truth(Says(p, record))
    <3> DEFINE answers == [i \in DOMAIN c.any |-> EvaluatePredicate(c.any[i], record, Asked)]
    <3>1. EvaluatePredicate(c, record, Asked) = Loop(answers, "false")
      <4>1. EvaluatePredicate(c, record, Asked) = Evaluation(c, record, Asked)
        BY <1>4, EvaluationEquation
      <4> QED BY <2>2, <4>1, Zenon DEF Evaluation
    <3>2. /\ DOMAIN answers = DOMAIN p.children /\ DOMAIN answers \subseteq Nat
          /\ \A i \in DOMAIN answers : answers[i] = Truth(Says(p.children[i], record))
      <4>1. DOMAIN c.any = DOMAIN p.children
        BY <2>2
      <4>2. ASSUME NEW i \in DOMAIN p.children
            PROVE  i \in Nat /\ EvaluatePredicate(c.any[i], record, Asked) = Truth(Says(p.children[i], record))
        <5>1. i \in Nat /\ Means(p.children[i])
          BY <2>2
        <5>2. c.any[i] = Compiled(p.children[i])
          BY <2>2
        <5> HIDE DEF c, parts
        <5> QED BY <5>1, <5>2 DEF Means
      <4> HIDE DEF c, parts
      <4> QED BY <4>1, <4>2
    <3>3. Says(p, record) <=> \E q \in Range(p.children) : Says(q, record)
      BY <1>6, <1>10 DEF SaysStep
    <3>4. Says(p, record) <=> \E i \in DOMAIN answers : Says(p.children[i], record)
      BY <1>c, <3>2, <3>3
    <3>5. Loop(answers, "false") = Truth(\E i \in DOMAIN answers : Says(p.children[i], record))
      <4> HIDE DEF answers
      <4> QED BY <3>2, LoopAnswers DEF Truth
    <3> QED
      BY <3>1, <3>4, <3>5 DEF Truth
  <2> QED
    BY <1>3, <2>2, <2>3 DEF Means
<1>11. CASE OperatorOf(p) = "not"
  <2>1. c = Branch("not", parts) /\ p.children # <<>> /\ Len(p.children) = 1
    BY <1>3, <1>4, <1>5, <1>11, FormedBranch DEF CompiledStep, Branch
  <2>2. /\ ValidPredicate[c] /\ c.path = <<>> /\ c.all = <<>> /\ c.any = <<>> /\ c.not = parts /\ parts # <<>>
        /\ \A i \in DOMAIN parts : i \in Nat /\ Means(p.children[i])
    <3> HIDE DEF c, parts
    <3> QED BY <1>8, <2>1
  <2>3. DOMAIN p.children = {1} /\ Range(p.children) = {p.children[1]}
    <3>1. DOMAIN p.children = 1..1
      BY <1>3, <2>1, ChildrenArePolicies
    <3> QED BY <3>1 DEF Range
  <2>4. ASSUME NEW record PROVE EvaluatePredicate(c, record, Asked) = Truth(Says(p, record))
    <3>1. EvaluatePredicate(c, record, Asked) = Negated(EvaluatePredicate(c.not[1], record, Asked))
      <4>1. EvaluatePredicate(c, record, Asked) = Evaluation(c, record, Asked)
        BY <1>4, EvaluationEquation
      <4> QED BY <2>2, <4>1, Zenon DEF Evaluation
    <3>2. EvaluatePredicate(c.not[1], record, Asked) = Truth(Says(p.children[1], record))
      BY <2>2, <2>3 DEF Means
    <3>3. Says(p, record) <=> ~Says(p.children[1], record)
      BY <1>6, <1>11, <2>3 DEF SaysStep
    <3> QED
      BY <3>1, <3>2, <3>3 DEF Truth, Negated
  <2> QED
    BY <1>3, <2>2, <2>4 DEF Means
<1>12. CASE OperatorOf(p) \in {"eq", "in"}
  <2>1. c = CompiledLeaf(p)
    BY <1>5, <1>12 DEF CompiledStep
  <2>2. /\ WellFormed(c) /\ c.path = <<>> /\ c.all = <<>> /\ c.any = <<>> /\ c.not = <<>> /\ Parts(c) = {}
        /\ \A record : EvaluateLeaf(c, record, Asked)
                         = Truth(record[Trim(p.field)] # Absent /\ record[Trim(p.field)] \in Claimed(p))
    BY <1>3, <1>4, <1>12, <2>1, CompiledLeafMeans
  <2>3. ValidPredicate[c]
    BY <1>4, <2>2, ValidEquation
  <2>4. ASSUME NEW record PROVE EvaluatePredicate(c, record, Asked) = Truth(Says(p, record))
    <3>1. EvaluatePredicate(c, record, Asked) = EvaluateLeaf(c, record, Asked)
      <4>1. EvaluatePredicate(c, record, Asked) = Evaluation(c, record, Asked)
        BY <1>4, EvaluationEquation
      <4> QED BY <2>2, <2>3, <4>1, Zenon DEF Evaluation
    <3>2. Says(p, record) <=> record[Trim(p.field)] # Absent /\ record[Trim(p.field)] \in Claimed(p)
      BY <1>6, <1>12 DEF SaysStep
    <3> QED
      BY <2>2, <3>1, <3>2 DEF Truth
  <2> QED
    BY <1>3, <2>3, <2>4 DEF Means
<1> QED
  BY <1>7, <1>9, <1>10, <1>11, <1>12

\* The canonical form of a policy, field by field: its parts are the canonical
\* forms of the parts.
LEMMA CanonicalFields ==
  ASSUME NEW p \in Policy, CanonicalPolicy(p) \in Policy
  PROVE  LET c == CanonicalPolicy(p) IN
         /\ c.operator = OperatorOf(p) /\ c.field = Trim(p.field)
         /\ c.claim = Trim(p.claim) /\ c.path = p.path
         /\ Len(c.children) = Len(p.children)
         /\ c.children = <<>> <=> p.children = <<>>
         /\ Range(c.children) = {CanonicalPolicy(q) : q \in Range(p.children)}
<1> DEFINE c == CanonicalPolicy(p)
           parts == [i \in DOMAIN p.children |-> CanonicalPolicy(p.children[i])]
           children == IF OperatorOf(p) \in {"and", "or"} THEN Ordered(parts) ELSE parts
<1>1. c = [p EXCEPT !.operator = OperatorOf(p), !.field = Trim(@), !.claim = Trim(@), !.children = children]
  BY CanonicalEquation DEF CanonicalStep
<1>2. DOMAIN children = DOMAIN p.children /\ Range(children) = Range(parts)
  <2>1. DOMAIN parts = DOMAIN p.children
    OBVIOUS
  <2> HIDE DEF parts
  <2> QED BY <2>1, OrderedMembers
<1>3. Range(parts) = {CanonicalPolicy(q) : q \in Range(p.children)}
  BY DEF Range
<1> HIDE DEF children, parts
<1>4. /\ c.operator = OperatorOf(p) /\ c.field = Trim(p.field) /\ c.claim = Trim(p.claim)
      /\ c.path = p.path /\ c.children = children
  <2> HIDE DEF c
  <2> QED BY <1>1, PolicyAssumption
<1>5. c.children \in Seq(Policy) /\ p.children \in Seq(Policy)
  BY ChildrenArePolicies
<1>6. Len(c.children) = Len(p.children)
  <2> HIDE DEF c
  <2> QED BY <1>2, <1>4, <1>5
<1>7. c.children = <<>> <=> p.children = <<>>
  <2> HIDE DEF c
  <2>1. \A s \in Seq(Policy) : s = <<>> <=> Len(s) = 0
    OBVIOUS
  <2> QED BY <1>5, <1>6, <2>1
<1> QED
  BY <1>2, <1>3, <1>4, <1>6, <1>7

\* What the property needs of a canonical form.
Canonized(p) == AllWellFormed[p] /\ Local[p] /\ CanonicalPolicy(p) \in Policy

Kept(p) ==
  /\ AllWellFormed[CanonicalPolicy(p)] /\ Local[CanonicalPolicy(p)] /\ Plain[CanonicalPolicy(p)]
  /\ \A record : Says(CanonicalPolicy(p), record) <=> Says(p, record)

\* The canonical form of an accepted policy is accepted, has trimmed operators and
\* says the same.
LEMMA CanonicalMeans ==
  \A p \in Policy : Canonized(p) => Kept(p)
<1> DEFINE T == {p \in Policy : Canonized(p) /\ ~Kept(p)}
<1>1. SUFFICES ASSUME T # {} PROVE FALSE
  OBVIOUS
<1>2. PICK p \in T : \A q \in Range(p.children) : q \notin T
  <2>1. T \subseteq Policy
    OBVIOUS
  <2> HIDE DEF T
  <2> QED BY <1>1, <2>1, MinimalPolicy
<1>3. p \in Policy /\ Canonized(p) /\ ~Kept(p)
  BY <1>2
<1> DEFINE c == CanonicalPolicy(p)
<1>4. /\ c \in Policy /\ WellFormedPolicy(p) /\ p.path = <<>>
      /\ \A q \in Range(p.children) : q \in Policy /\ AllWellFormed[q] /\ Local[q]
  BY <1>3, WellFormedEquation, LocalEquation, ChildrenArePolicies DEF Canonized
<1>5. /\ c.operator = OperatorOf(p) /\ c.field = Trim(p.field)
      /\ c.claim = Trim(p.claim) /\ c.path = p.path
      /\ Len(c.children) = Len(p.children)
      /\ c.children = <<>> <=> p.children = <<>>
      /\ Range(c.children) = {CanonicalPolicy(q) : q \in Range(p.children)}
  BY <1>3, <1>4, CanonicalFields
<1> HIDE DEF c, T
<1>6. ASSUME NEW q \in Range(p.children) PROVE CanonicalPolicy(q) \in Range(c.children) /\ Kept(q)
  <2>1. CanonicalPolicy(q) \in Range(c.children)
    BY <1>5
  <2>2. CanonicalPolicy(q) \in Policy
    BY <1>4, <2>1, ChildrenArePolicies
  <2> QED
    BY <1>2, <1>4, <2>1, <2>2 DEF T, Canonized
<1>7. /\ OperatorOf(c) = OperatorOf(p) /\ Trim(c.operator) = c.operator
      /\ Trim(c.field) = Trim(p.field) /\ Trim(c.claim) = Trim(p.claim)
  BY <1>5, TextForms DEF OperatorOf
<1>8. WellFormedPolicy(c)
  <2>1. \/ /\ OperatorOf(p) \in {"and", "or", "not"}
           /\ IF OperatorOf(p) = "not" THEN Len(p.children) = 1 ELSE Len(p.children) >= 2
           /\ p.path = <<>> /\ Trim(p.field) = Blank /\ Trim(p.claim) = Blank
        \/ /\ OperatorOf(p) \in {"eq", "in"}
           /\ p.children = <<>> /\ Trim(p.field) # Blank /\ Len(p.path) <= 3
           /\ \A i \in DOMAIN p.path : p.path[i]
           /\ Trim(p.claim) \in IF OperatorOf(p) = "eq" THEN ScalarClaims ELSE CollectionClaims
    BY <1>4, Zenon DEF WellFormedPolicy, Blank
  <2>2. \/ /\ OperatorOf(c) \in {"and", "or", "not"}
           /\ IF OperatorOf(c) = "not" THEN Len(c.children) = 1 ELSE Len(c.children) >= 2
           /\ c.path = <<>> /\ Trim(c.field) = Blank /\ Trim(c.claim) = Blank
        \/ /\ OperatorOf(c) \in {"eq", "in"}
           /\ c.children = <<>> /\ Trim(c.field) # Blank /\ Len(c.path) <= 3
           /\ \A i \in DOMAIN c.path : c.path[i]
           /\ Trim(c.claim) \in IF OperatorOf(c) = "eq" THEN ScalarClaims ELSE CollectionClaims
    BY <1>5, <1>7, <2>1
  <2> QED
    BY <2>2, Zenon DEF WellFormedPolicy, Blank
<1>9. /\ \A r \in Range(c.children) : AllWellFormed[r] /\ Local[r] /\ Plain[r]
      /\ AllWellFormed[c] /\ Local[c] /\ Plain[c]
  <2>1. \A r \in Range(c.children) : AllWellFormed[r] /\ Local[r] /\ Plain[r]
    BY <1>5, <1>6 DEF Kept
  <2> QED
    BY <1>4, <1>5, <1>7, <1>8, <2>1, WellFormedEquation, LocalEquation, PlainEquation
<1>10. ASSUME NEW record PROVE Says(c, record) <=> Says(p, record)
  <2>1. /\ Says(c, record) = SaysStep(c, [r \in Range(c.children) |-> Says(r, record)], record)
        /\ Says(p, record) = SaysStep(p, [q \in Range(p.children) |-> Says(q, record)], record)
    BY <1>3, <1>4, SaysEquation
  <2>2. \A q \in Range(p.children) : CanonicalPolicy(q) \in Range(c.children)
                                     /\ (Says(CanonicalPolicy(q), record) <=> Says(q, record))
    BY <1>6 DEF Kept
  <2>3. \A r \in Range(c.children) : \E q \in Range(p.children) : r = CanonicalPolicy(q)
    BY <1>5
  <2>4. Claimed(c) = Claimed(p)
    BY <1>7 DEF Claimed
  <2>5. /\ (\A r \in Range(c.children) : Says(r, record)) <=> \A q \in Range(p.children) : Says(q, record)
        /\ (\E r \in Range(c.children) : Says(r, record)) <=> \E q \in Range(p.children) : Says(q, record)
    BY <2>2, <2>3
  <2> QED
    BY <1>7, <2>1, <2>4, <2>5 DEF SaysStep
<1> QED
  BY <1>3, <1>9, <1>10 DEF Kept, c

-----------------------------------------------------------------------------
(* The policies granted *)

\* What the hosts publish does not change.
DraftsTyped == kind \in {"permissions", "roles", "navigation"} /\ draft \in [Host -> Drafts]

\* No action writes a draft.
LEMMA DraftsStay == Spec => []DraftsTyped
<1>1. Init => DraftsTyped
  BY DEF Init, DraftsTyped
<1>2. DraftsTyped /\ [Next]_vars => DraftsTyped'
  <2>1. [Next]_vars => UNCHANGED <<kind, draft>>
    BY DEF Next, vars, ReadBaseline, Reconcile, Refuse, RetryReconcile, Send, GiveUp, Deliver, Lose, Bootstrap
  <2> QED
    BY <2>1 DEF DraftsTyped, Drafts
<1> QED
  BY <1>1, <1>2, PTL DEF Spec

\* What an accepted data policy is compiled to, in its canonical form and where no
\* operator has spaces around it as it was written, is valid and answers what
\* the policy says, whatever the record (compileProjectDataPolicy,
\* canonicalProjectDataPolicy).
LEMMA AcceptedPolicyMeans ==
  ASSUME NEW p \in Policy, PolicyAccepted(p), Local[p],
         NEW q, q = CanonicalPolicy(p) \/ (Plain[p] /\ q = p)
  PROVE  /\ ValidPredicate[Compiled(q)]
         /\ \A record : EvaluatePredicate(Compiled(q), record, Asked) = Truth(Says(p, record))
<1>1. /\ AllWellFormed[p] /\ CanonicalPolicy(p) \in Policy
      /\ Compiled(p) \in Predicate /\ Compiled(CanonicalPolicy(p)) \in Predicate
  BY CatalogAssumption DEF PoliciesClosed, PolicyAccepted
<1>2. CASE Plain[p] /\ q = p
  BY <1>1, <1>2, CompiledMeans DEF Compilable, Means
<1>3. CASE q = CanonicalPolicy(p)
  <2>1. Kept(p)
    BY <1>1, CanonicalMeans DEF Canonized
  <2>2. Means(q)
    BY <1>1, <1>3, <2>1, CompiledMeans DEF Compilable, Kept
  <2> QED
    BY <1>3, <2>1, <2>2 DEF Means, Kept, Truth
<1> QED
  BY <1>2, <1>3

\* The policies granted are policies of the instance.
LEMMA GrantedPolicies ==
  ASSUME DraftsTyped, NEW g \in Grants
  PROVE  Range(g.policy) \subseteq Policy
<1>1. kind = "roles" /\ \E h \in Host : \E r \in Range(draft[h].roles) : g \in Range(r.grants)
  BY DEF Grants
<1>2. \A h \in Host : draft[h] \in Catalogs
  BY <1>1 DEF DraftsTyped, Drafts
<1>3. g.policy = <<>> \/ \E p \in Policy : g.policy = <<p>>
  BY <1>1, <1>2, CatalogAssumption DEF CatalogShapes, RoleShape, GrantShape
<1> QED
  BY <1>3 DEF Range

\* The data policies that roles grant are enforced as they are written: the
\* predicate compiled from each is valid and is answered with what the policy
\* says of the record, for every tree of connectives and every record.
THEOREM PoliciesAreMeant == Spec => []PoliciesMeanWhatTheySay
<1>1. DraftsTyped => PoliciesMeanWhatTheySay
  <2> SUFFICES ASSUME DraftsTyped, NEW g \in Grants, NEW p \in Range(g.policy), PolicyAccepted(p), Local[p],
                      NEW predicate \in {Compiled(q) : q \in {CanonicalPolicy(p)} \union IF Plain[p] THEN {p} ELSE {}}
               PROVE  /\ ValidPredicate[predicate]
                      /\ \A record \in Records :
                           EvaluatePredicate(predicate, record, [subject |-> Subject, claims |-> <<>>])
                             = Truth(Says(p, record))
    BY DEF PoliciesMeanWhatTheySay
  <2>1. p \in Policy
    BY GrantedPolicies
  <2>2. PICK q : predicate = Compiled(q) /\ (q = CanonicalPolicy(p) \/ (Plain[p] /\ q = p))
    OBVIOUS
  <2>3. /\ ValidPredicate[Compiled(q)]
        /\ \A record : EvaluatePredicate(Compiled(q), record, Asked) = Truth(Says(p, record))
    BY <2>1, <2>2, AcceptedPolicyMeans
  <2> QED
    BY <2>2, <2>3 DEF Asked
<1> QED
  BY <1>1, DraftsStay, PTL

-----------------------------------------------------------------------------
(* Lists and their arrangements *)

\* Two lists that repeat nothing and have the same members are arranged.
LEMMA DistinctArranged ==
  ASSUME NEW s, NEW t,
         \A i, j \in DOMAIN s : s[i] = s[j] => i = j,
         \A i, j \in DOMAIN t : t[i] = t[j] => i = j,
         Range(s) = Range(t)
  PROVE  Arranged(s, t)
<1> DEFINE f == [i \in DOMAIN t |-> CHOOSE j \in DOMAIN s : s[j] = t[i]]
<1>1. ASSUME NEW i \in DOMAIN t PROVE f[i] \in DOMAIN s /\ s[f[i]] = t[i]
  <2>1. t[i] \in Range(s)
    BY DEF Range
  <2>2. \E j \in DOMAIN s : s[j] = t[i]
    BY <2>1 DEF Range
  <2> QED
    BY <2>2
<1>2. f \in [DOMAIN t -> DOMAIN s]
  BY <1>1
<1> HIDE DEF f
<1>3. \A i, j \in DOMAIN t : f[i] = f[j] => i = j
  BY <1>1
<1>4. ASSUME NEW j \in DOMAIN s PROVE \E i \in DOMAIN t : f[i] = j
  <2>1. s[j] \in Range(t)
    BY DEF Range
  <2>2. PICK i \in DOMAIN t : t[i] = s[j]
    BY <2>1 DEF Range
  <2> QED
    BY <1>1, <2>2
<1>5. f \in Bijection(DOMAIN t, DOMAIN s)
  BY <1>2, <1>3, <1>4, BijectionPoints
<1> QED
  BY <1>1, <1>5 DEF Arranged

At(s, e) == {i \in DOMAIN s : s[i] = e}

\* A list has an entry at finitely many positions.
LEMMA PositionsFinite ==
  ASSUME NEW s, IsList(s), NEW e
  PROVE  IsFiniteSet(At(s, e))
<1>1. PICK n \in Nat : DOMAIN s = 1..n
  BY DEF IsList
<1>2. IsFiniteSet(1..n)
  BY FS_Interval
<1>3. At(s, e) \in SUBSET (1..n)
  BY <1>1 DEF At
<1> QED
  BY <1>2, <1>3, FS_Subset

\* What is counted of a list is what all its arrangements share.
LEMMA CountArranged ==
  ASSUME NEW s, NEW t, IsList(s), IsList(t)
  PROVE  Count(s) = Count(t) <=> Arranged(s, t)
<1>1. \A x : Count(x) = [e \in Range(x) |-> Cardinality(At(x, e))]
  BY DEF Count, At
<1>2. ASSUME Arranged(s, t) PROVE Count(s) = Count(t)
  <2>1. PICK f \in Bijection(DOMAIN t, DOMAIN s) : \A i \in DOMAIN t : t[i] = s[f[i]]
    BY <1>2 DEF Arranged
  <2>2. /\ f \in [DOMAIN t -> DOMAIN s]
        /\ \A a, b \in DOMAIN t : f[a] = f[b] => a = b
        /\ \A b \in DOMAIN s : \E a \in DOMAIN t : f[a] = b
    BY BijectionPoints
  <2>3. Range(s) = Range(t)
    BY <2>1, <2>2 DEF Range
  <2>4. ASSUME NEW e PROVE Cardinality(At(s, e)) = Cardinality(At(t, e))
    <3> DEFINE g == [i \in At(t, e) |-> f[i]]
    <3>1. /\ g \in [At(t, e) -> At(s, e)] /\ \A i \in At(t, e) : g[i] = f[i] /\ i \in DOMAIN t
          /\ \A j \in At(s, e) : \E i \in At(t, e) : f[i] = j
      BY <2>1, <2>2 DEF At
    <3> HIDE DEF g
    <3>2. /\ \A a, b \in At(t, e) : g[a] = g[b] => a = b
          /\ \A b \in At(s, e) : \E a \in At(t, e) : g[a] = b
      BY <2>2, <3>1
    <3>3. g \in Bijection(At(t, e), At(s, e))
      BY <3>1, <3>2, BijectionPoints
    <3>4. ExistsBijection(At(t, e), At(s, e))
      BY <3>3 DEF ExistsBijection
    <3> QED
      BY <3>4, PositionsFinite, FS_Bijection
  <2> QED
    BY <1>1, <2>3, <2>4
<1>3. ASSUME Count(s) = Count(t) PROVE Arranged(s, t)
  <2>1. Range(s) = Range(t)
    <3>1. DOMAIN Count(s) = Range(s) /\ DOMAIN Count(t) = Range(t)
      BY <1>1
    <3> QED BY <1>3, <3>1
  <2>2. ASSUME NEW e \in Range(t) PROVE Bijection(At(t, e), At(s, e)) # {}
    <3>1. Count(s)[e] = Cardinality(At(s, e)) /\ Count(t)[e] = Cardinality(At(t, e))
      BY <1>1, <2>1
    <3>2. Cardinality(At(t, e)) = Cardinality(At(s, e))
      BY <1>3, <3>1
    <3>3. ExistsBijection(At(t, e), At(s, e))
      BY <3>2, PositionsFinite, FS_SameCardinalityBij
    <3> QED
      BY <3>3 DEF ExistsBijection
  <2> DEFINE b == [e \in Range(t) |-> CHOOSE g \in Bijection(At(t, e), At(s, e)) : TRUE]
             f == [i \in DOMAIN t |-> b[t[i]][i]]
  <2>3. ASSUME NEW e \in Range(t)
        PROVE  /\ b[e] \in [At(t, e) -> At(s, e)]
               /\ \A i, j \in At(t, e) : b[e][i] = b[e][j] => i = j
               /\ \A j \in At(s, e) : \E i \in At(t, e) : b[e][i] = j
    <3>1. b[e] \in Bijection(At(t, e), At(s, e))
      BY <2>2
    <3> HIDE DEF b
    <3> QED BY <3>1, BijectionPoints
  <2>4. \A i \in DOMAIN t : t[i] \in Range(t) /\ i \in At(t, t[i]) /\ f[i] = b[t[i]][i]
    BY DEF Range, At
  <2>5. \A i \in DOMAIN t : f[i] \in At(s, t[i])
    <3> HIDE DEF b, f
    <3> QED BY <2>3, <2>4
  <2>6. \A i \in DOMAIN t : f[i] \in DOMAIN s /\ s[f[i]] = t[i]
    <3> HIDE DEF b, f
    <3> QED BY <2>5 DEF At
  <2>7. f \in [DOMAIN t -> DOMAIN s]
    BY <2>6
  <2> HIDE DEF b, f
  <2>8. ASSUME NEW i \in DOMAIN t, NEW j \in DOMAIN t, f[i] = f[j] PROVE i = j
    <3>1. t[i] = t[j]
      BY <2>6, <2>8
    <3>2. b[t[i]][i] = b[t[i]][j] /\ i \in At(t, t[i]) /\ j \in At(t, t[i])
      BY <2>4, <2>8, <3>1
    <3> QED
      BY <2>3, <2>4, <3>2
  <2>9. ASSUME NEW j \in DOMAIN s PROVE \E i \in DOMAIN t : f[i] = j
    <3>1. s[j] \in Range(t) /\ j \in At(s, s[j])
      BY <2>1 DEF Range, At
    <3>2. PICK i \in At(t, s[j]) : b[s[j]][i] = j
      BY <2>3, <3>1
    <3>3. i \in DOMAIN t /\ t[i] = s[j]
      BY DEF At
    <3> QED
      BY <2>4, <3>2, <3>3
  <2>10. f \in Bijection(DOMAIN t, DOMAIN s)
    BY <2>7, <2>8, <2>9, BijectionPoints
  <2> QED
    BY <2>6, <2>10 DEF Arranged
<1> QED
  BY <1>2, <1>3

\* Such lists are equal or not together.
LEMMA EqualAlike ==
  ASSUME NEW s, NEW t, NEW u, NEW v, IsList(s), IsList(t), IsList(u), IsList(v),
         DOMAIN s = DOMAIN u, DOMAIN t = DOMAIN v,
         \A i \in DOMAIN s, j \in DOMAIN t : s[i] = t[j] <=> u[i] = v[j]
  PROVE  s = t <=> u = v
<1>1. s = t <=> DOMAIN s = DOMAIN t /\ \A i \in DOMAIN s : s[i] = t[i]
  BY DEF IsList
<1>2. u = v <=> DOMAIN u = DOMAIN v /\ \A i \in DOMAIN u : u[i] = v[i]
  BY DEF IsList
<1> QED
  BY <1>1, <1>2

\* Two canonical forms are one if they agree in every field.
LEMMA CanonicalEqual ==
  ASSUME NEW p \in Policy, NEW q \in Policy, NEW cp, NEW cq
  PROVE  CanonicalStep(p, cp) = CanonicalStep(q, cq) <=>
           /\ OperatorOf(p) = OperatorOf(q) /\ Trim(p.field) = Trim(q.field)
           /\ Trim(p.claim) = Trim(q.claim) /\ p.path = q.path
           /\ IF OperatorOf(p) \in {"and", "or"} THEN Ordered(cp) = Ordered(cq) ELSE cp = cq
<1> DEFINE Fields == {"operator", "field", "claim", "path", "children"}
           Sorted(x, c) == IF OperatorOf(x) \in {"and", "or"} THEN Ordered(c) ELSE c
<1>1. ASSUME NEW x \in Policy, NEW c
      PROVE  LET r == CanonicalStep(x, c) IN
             /\ r = [y \in Fields |-> r[y]]
             /\ r.operator = OperatorOf(x) /\ r.field = Trim(x.field) /\ r.claim = Trim(x.claim)
             /\ r.path = x.path /\ r.children = Sorted(x, c)
  <2> DEFINE r == CanonicalStep(x, c)
  <2>1. r = [x EXCEPT !.operator = OperatorOf(x), !.field = Trim(@), !.claim = Trim(@), !.children = Sorted(x, c)]
    BY DEF CanonicalStep
  <2>2. DOMAIN x = Fields
    BY PolicyAssumption
  <2> HIDE DEF r, Sorted
  <2>3. r = [y \in Fields |-> r[y]]
    BY <2>1, <2>2
  <2>4. /\ r.operator = OperatorOf(x) /\ r.field = Trim(x.field) /\ r.claim = Trim(x.claim)
        /\ r.path = x.path /\ r.children = Sorted(x, c)
    BY <2>1, <2>2
  <2> QED
    BY <2>3, <2>4 DEF r
<1> DEFINE a == CanonicalStep(p, cp)
           b == CanonicalStep(q, cq)
<1>2. /\ a = [y \in Fields |-> a[y]] /\ b = [y \in Fields |-> b[y]]
      /\ a.operator = OperatorOf(p) /\ a.field = Trim(p.field) /\ a.claim = Trim(p.claim)
      /\ a.path = p.path /\ a.children = Sorted(p, cp)
      /\ b.operator = OperatorOf(q) /\ b.field = Trim(q.field) /\ b.claim = Trim(q.claim)
      /\ b.path = q.path /\ b.children = Sorted(q, cq)
  BY <1>1
<1> HIDE DEF a, b
<1>3. a = b <=> \A y \in Fields : a[y] = b[y]
  <2> HIDE DEF Fields
  <2> QED BY <1>2
<1>4. a = b <=> /\ a.operator = b.operator /\ a.field = b.field /\ a.claim = b.claim
                /\ a.path = b.path /\ a.children = b.children
  BY <1>3
<1>5. OperatorOf(p) = OperatorOf(q) =>
        (Sorted(p, cp) = Sorted(q, cq) <=> IF OperatorOf(p) \in {"and", "or"} THEN Ordered(cp) = Ordered(cq) ELSE cp = cq)
  OBVIOUS
<1> HIDE DEF Sorted
<1> QED
  BY <1>2, <1>4, <1>5 DEF a, b

\* The canonical form of a well-formed policy tells what its content tells.
LEMMA CanonicalContent ==
  \A p, q \in Policy : AllWellFormed[p] /\ AllWellFormed[q] =>
    (CanonicalPolicy(p) = CanonicalPolicy(q) <=> PolicyContent(p) = PolicyContent(q))
<1> DEFINE Agree(p, q) == CanonicalPolicy(p) = CanonicalPolicy(q) <=> PolicyContent(p) = PolicyContent(q)
           T == {p \in Policy : AllWellFormed[p] /\ \E q \in Policy : AllWellFormed[q] /\ ~Agree(p, q)}
<1>1. SUFFICES ASSUME T # {} PROVE FALSE
  OBVIOUS
<1>2. PICK p \in T : \A r \in Range(p.children) : r \notin T
  <2>1. T \subseteq Policy
    OBVIOUS
  <2> HIDE DEF T
  <2> QED BY <1>1, <2>1, MinimalPolicy
<1>3. PICK q \in Policy : AllWellFormed[q] /\ ~Agree(p, q)
  BY <1>2
<1>4. p \in Policy /\ AllWellFormed[p]
  BY <1>2
<1> DEFINE cp == [i \in DOMAIN p.children |-> CanonicalPolicy(p.children[i])]
           cq == [i \in DOMAIN q.children |-> CanonicalPolicy(q.children[i])]
           tp == [i \in DOMAIN p.children |-> PolicyContent(p.children[i])]
           tq == [i \in DOMAIN q.children |-> PolicyContent(q.children[i])]
<1>5. /\ IsList(cp) /\ IsList(cq) /\ IsList(tp) /\ IsList(tq)
      /\ DOMAIN cp = DOMAIN tp /\ DOMAIN cq = DOMAIN tq
  <2>1. p.children \in Seq(Policy) /\ q.children \in Seq(Policy)
    BY <1>4, ChildrenArePolicies
  <2>2. (\E n \in Nat : DOMAIN p.children = 1..n) /\ (\E n \in Nat : DOMAIN q.children = 1..n)
    BY <2>1
  <2> QED
    BY <2>2 DEF IsList
<1>6. \A i \in DOMAIN cp, j \in DOMAIN cq : cp[i] = cq[j] <=> tp[i] = tq[j]
  <2> SUFFICES ASSUME NEW i \in DOMAIN cp, NEW j \in DOMAIN cq PROVE Agree(p.children[i], q.children[j])
    OBVIOUS
  <2>1. p.children[i] \in Range(p.children) /\ q.children[j] \in Range(q.children)
    BY DEF Range
  <2>2. p.children[i] \in Policy /\ q.children[j] \in Policy
    BY <1>4, <2>1, ChildrenArePolicies
  <2>3. AllWellFormed[p.children[i]] /\ AllWellFormed[q.children[j]]
    BY <1>3, <1>4, <2>1, WellFormedEquation
  <2> HIDE DEF Agree
  <2> QED
    BY <1>2, <2>1, <2>2, <2>3
<1>7. /\ CanonicalPolicy(p) = CanonicalStep(p, cp) /\ CanonicalPolicy(q) = CanonicalStep(q, cq)
      /\ PolicyContent(p) = ContentStep(p, tp) /\ PolicyContent(q) = ContentStep(q, tq)
  BY <1>4, CanonicalEquation, ContentEquation
<1>8. /\ OperatorOf(p) \in {"and", "or", "not", "eq", "in"}
      /\ OperatorOf(p) \in {"eq", "in"} => p.children = <<>>
      /\ OperatorOf(q) \in {"eq", "in"} => q.children = <<>>
  BY <1>3, <1>4, WellFormedEquation, FormedBranch
<1>9. OperatorOf(p) \in {"eq", "in"} /\ OperatorOf(p) = OperatorOf(q) => cp = cq /\ tp = tq
  BY <1>8
<1>10. Agree(p, q) <=> (CanonicalStep(p, cp) = CanonicalStep(q, cq) <=> ContentStep(p, tp) = ContentStep(q, tq))
  BY <1>7
<1> HIDE DEF cp, cq, tp, tq, T
<1>11. ContentStep(p, tp) = ContentStep(q, tq) <=>
         /\ OperatorOf(p) = OperatorOf(q) /\ Trim(p.field) = Trim(q.field)
         /\ Trim(p.claim) = Trim(q.claim) /\ p.path = q.path
         /\ IF OperatorOf(p) = "not" THEN tp = tq ELSE Count(tp) = Count(tq)
  BY DEF ContentStep
<1>12. CanonicalStep(p, cp) = CanonicalStep(q, cq) <=>
         /\ OperatorOf(p) = OperatorOf(q) /\ Trim(p.field) = Trim(q.field)
         /\ Trim(p.claim) = Trim(q.claim) /\ p.path = q.path
         /\ IF OperatorOf(p) \in {"and", "or"} THEN Ordered(cp) = Ordered(cq) ELSE cp = cq
  BY <1>4, CanonicalEqual
<1>13. cp = cq <=> tp = tq
  BY <1>5, <1>6, EqualAlike
<1>14. Ordered(cp) = Ordered(cq) <=> Count(tp) = Count(tq)
  <2>1. Arranged(cp, cq) <=> Arranged(tp, tq)
    BY <1>5, <1>6, ArrangedAlike
  <2> QED
    BY <1>5, <2>1, OrderedArranged, CountArranged
<1>15. Agree(p, q)
  <2> HIDE DEF Agree
  <2>1. OperatorOf(p) = OperatorOf(q) =>
          ((IF OperatorOf(p) \in {"and", "or"} THEN Ordered(cp) = Ordered(cq) ELSE cp = cq)
             <=> (IF OperatorOf(p) = "not" THEN tp = tq ELSE Count(tp) = Count(tq)))
    BY <1>8, <1>9, <1>13, <1>14
  <2> QED
    BY <1>10, <1>11, <1>12, <2>1
<1> QED
  BY <1>3, <1>15

\* A member of Seq is a list, and what is made of each of its entries is one.
LEMMA ListOfEach ==
  ASSUME NEW s, List(s)
  PROVE  /\ IsList(s)
         /\ \A t : DOMAIN t = DOMAIN s /\ t = [i \in DOMAIN t |-> t[i]] => IsList(t)
<1>1. s = [i \in DOMAIN s |-> s[i]] /\ \E n \in Nat : DOMAIN s = 1..n
  BY DEF List
<1> QED
  BY <1>1 DEF IsList

-----------------------------------------------------------------------------
(* Grants and roles *)

\* A normal grant, field by field.
LEMMA NormalGrantFields ==
  ASSUME NEW g, GrantShape(g)
  PROVE  LET n == NormalGrant(g) IN
         /\ n = [y \in {"key", "scope", "policy", "audit"} |-> n[y]]
         /\ n.key = Trim(g.key) /\ n.scope = g.scope /\ n.audit = g.audit
         /\ n.policy = [i \in DOMAIN g.policy |-> CanonicalPolicy(g.policy[i])]
<1> DEFINE n == NormalGrant(g)
           policy == [i \in DOMAIN g.policy |-> CanonicalPolicy(g.policy[i])]
<1>1. n = [g EXCEPT !.key = Trim(@), !.policy = policy]
  BY DEF NormalGrant, Each
<1>2. DOMAIN g = {"key", "scope", "policy", "audit"}
  BY DEF GrantShape
<1> HIDE DEF n, policy
<1>3. n = [y \in {"key", "scope", "policy", "audit"} |-> n[y]]
  BY <1>1, <1>2
<1>4. n.key = Trim(g.key) /\ n.scope = g.scope /\ n.audit = g.audit /\ n.policy = policy
  BY <1>1, <1>2
<1> QED
  BY <1>3, <1>4 DEF n, policy

\* The normal form of an accepted grant tells what its content tells.
LEMMA NormalGrantContent ==
  ASSUME NEW g, NEW h, GrantShape(g), GrantShape(h), GrantAccepted(g), GrantAccepted(h)
  PROVE  NormalGrant(g) = NormalGrant(h) <=> GrantContent(g) = GrantContent(h)
<1> DEFINE canonical(x) == [i \in DOMAIN x.policy |-> CanonicalPolicy(x.policy[i])]
           content(x) == [i \in DOMAIN x.policy |-> PolicyContent(x.policy[i])]
<1>1. ASSUME NEW x, GrantShape(x), GrantAccepted(x)
      PROVE  /\ \A i \in DOMAIN x.policy : x.policy[i] \in Policy /\ AllWellFormed[x.policy[i]]
             /\ DOMAIN x.policy = 1..0 \/ DOMAIN x.policy = 1..1
  <2>1. x.policy = <<>> \/ (\E p \in Policy : x.policy = <<p>> /\ AllWellFormed[p])
    <3>1. x.policy = <<>> \/ PolicyAccepted(x.policy[1])
      BY <1>1, Zenon DEF GrantAccepted
    <3>2. \A p : x.policy = <<p>> => x.policy[1] = p
      OBVIOUS
    <3>3. x.policy = <<>> \/ \E p \in Policy : x.policy = <<p>>
      BY <1>1 DEF GrantShape
    <3>4. \A p : PolicyAccepted(p) => AllWellFormed[p]
      BY DEF PolicyAccepted
    <3>5. ASSUME NEW p \in Policy, x.policy = <<p>>, x.policy # <<>> PROVE AllWellFormed[p]
      <4>1. PolicyAccepted(x.policy[1])
        BY <3>1, <3>5, Zenon
      <4>2. x.policy[1] = p
        BY <3>2, <3>5
      <4> QED BY <3>4, <4>1, <4>2, Zenon
    <3> QED BY <3>3, <3>5, Zenon
  <2> QED
    BY <2>1
<1>2. /\ IsList(canonical(g)) /\ IsList(canonical(h)) /\ IsList(content(g)) /\ IsList(content(h))
  <2>1. 0 \in Nat /\ 1 \in Nat
    OBVIOUS
  <2>2. /\ \E n \in Nat : DOMAIN g.policy = 1..n
        /\ \E n \in Nat : DOMAIN h.policy = 1..n
    BY <1>1, <2>1
  <2> QED
    BY <2>2 DEF IsList
<1>3. \A i \in DOMAIN canonical(g), j \in DOMAIN canonical(h) :
        canonical(g)[i] = canonical(h)[j] <=> content(g)[i] = content(h)[j]
  BY <1>1, CanonicalContent
<1>4. canonical(g) = canonical(h) <=> content(g) = content(h)
  <2>1. DOMAIN canonical(g) = DOMAIN content(g) /\ DOMAIN canonical(h) = DOMAIN content(h)
    OBVIOUS
  <2> HIDE DEF canonical, content
  <2> QED BY <1>2, <1>3, <2>1, EqualAlike
<1>5. GrantContent(g) = GrantContent(h) <=>
        Trim(g.key) = Trim(h.key) /\ g.scope = h.scope /\ content(g) = content(h) /\ g.audit = h.audit
  <2>1. \A x : GrantContent(x) = <<Trim(x.key), x.scope, content(x), x.audit>>
    BY Zenon DEF GrantContent, Each
  <2> HIDE DEF content
  <2> QED BY <2>1
<1>6. NormalGrant(g) = NormalGrant(h) <=>
        Trim(g.key) = Trim(h.key) /\ g.scope = h.scope /\ canonical(g) = canonical(h) /\ g.audit = h.audit
  <2> DEFINE a == NormalGrant(g)
             b == NormalGrant(h)
  <2>1. /\ a = [y \in {"key", "scope", "policy", "audit"} |-> a[y]]
        /\ a.key = Trim(g.key) /\ a.scope = g.scope /\ a.audit = g.audit /\ a.policy = canonical(g)
    BY NormalGrantFields
  <2>2. /\ b = [y \in {"key", "scope", "policy", "audit"} |-> b[y]]
        /\ b.key = Trim(h.key) /\ b.scope = h.scope /\ b.audit = h.audit /\ b.policy = canonical(h)
    BY NormalGrantFields
  <2> HIDE DEF a, b, canonical
  <2>3. a = b <=> a.key = b.key /\ a.scope = b.scope /\ a.policy = b.policy /\ a.audit = b.audit
    BY <2>1, <2>2
  <2> QED
    BY <2>1, <2>2, <2>3 DEF a, b
<1> QED
  BY <1>4, <1>5, <1>6

NormalGrants(r) == [i \in DOMAIN r.grants |-> NormalGrant(r.grants[i])]
GrantContents(r) == {GrantContent(g) : g \in Range(r.grants)}

\* The normal grants of a role are told apart by their keys.
LEMMA NormalGrantsOf ==
  ASSUME NEW r, RoleShape(r), RoleAccepted(r)
  PROVE  /\ IsList(NormalGrants(r))
         /\ \A i, j \in DOMAIN NormalGrants(r) : NormalGrants(r)[i] = NormalGrants(r)[j] => i = j
         /\ Range(NormalGrants(r)) = {NormalGrant(g) : g \in Range(r.grants)}
         /\ \A g \in Range(r.grants) : GrantShape(g) /\ GrantAccepted(g)
<1>1. /\ \A i \in DOMAIN r.grants : GrantAccepted(r.grants[i])
      /\ \A i, j \in DOMAIN r.grants : Trim(r.grants[i].key) = Trim(r.grants[j].key) => i = j
  BY Zenon DEF RoleAccepted, Distinct
<1>2. \A g \in Range(r.grants) : GrantShape(g) /\ GrantAccepted(g)
  BY <1>1 DEF RoleShape, Range
<1>3. \A i \in DOMAIN r.grants : NormalGrant(r.grants[i]).key = Trim(r.grants[i].key)
  <2>1. \A i \in DOMAIN r.grants : GrantShape(r.grants[i])
    BY <1>2 DEF Range
  <2> QED BY <2>1, NormalGrantFields
<1>4. /\ DOMAIN NormalGrants(r) = DOMAIN r.grants
      /\ NormalGrants(r) = [i \in DOMAIN NormalGrants(r) |-> NormalGrants(r)[i]]
      /\ \A i \in DOMAIN r.grants : NormalGrants(r)[i] = NormalGrant(r.grants[i])
  BY DEF NormalGrants
<1>5. IsList(NormalGrants(r))
  BY <1>4, ListOfEach DEF RoleShape
<1>6. \A i, j \in DOMAIN NormalGrants(r) : NormalGrants(r)[i] = NormalGrants(r)[j] => i = j
  BY <1>1, <1>3, <1>4
<1>7. Range(NormalGrants(r)) = {NormalGrant(g) : g \in Range(r.grants)}
  BY <1>4 DEF Range
<1> QED
  BY <1>2, <1>5, <1>6, <1>7

\* Sorted, the normal grants tell what the set of their contents tells.
LEMMA GrantsContent ==
  ASSUME NEW r, NEW s, RoleShape(r), RoleShape(s), RoleAccepted(r), RoleAccepted(s)
  PROVE  Ordered(NormalGrants(r)) = Ordered(NormalGrants(s)) <=> GrantContents(r) = GrantContents(s)
<1>1. \A g \in Range(r.grants), h \in Range(s.grants) :
        NormalGrant(g) = NormalGrant(h) <=> GrantContent(g) = GrantContent(h)
  BY NormalGrantsOf, NormalGrantContent
<1>2. {NormalGrant(g) : g \in Range(r.grants)} = {NormalGrant(g) : g \in Range(s.grants)}
        <=> GrantContents(r) = GrantContents(s)
  <2>1. ASSUME {NormalGrant(g) : g \in Range(r.grants)} = {NormalGrant(g) : g \in Range(s.grants)}
        PROVE  GrantContents(r) = GrantContents(s)
    <3>1. /\ \A g \in Range(r.grants) : \E h \in Range(s.grants) : NormalGrant(g) = NormalGrant(h)
          /\ \A h \in Range(s.grants) : \E g \in Range(r.grants) : NormalGrant(g) = NormalGrant(h)
      BY <2>1
    <3> QED BY <1>1, <3>1 DEF GrantContents
  <2>2. ASSUME GrantContents(r) = GrantContents(s)
        PROVE  {NormalGrant(g) : g \in Range(r.grants)} = {NormalGrant(g) : g \in Range(s.grants)}
    <3>1. /\ \A g \in Range(r.grants) : \E h \in Range(s.grants) : GrantContent(g) = GrantContent(h)
          /\ \A h \in Range(s.grants) : \E g \in Range(r.grants) : GrantContent(g) = GrantContent(h)
      BY <2>2 DEF GrantContents
    <3> QED BY <1>1, <3>1
  <2> QED
    BY <2>1, <2>2
<1>3. Ordered(NormalGrants(r)) = Ordered(NormalGrants(s)) <=> Range(NormalGrants(r)) = Range(NormalGrants(s))
  <2>1. ASSUME Range(NormalGrants(r)) = Range(NormalGrants(s))
        PROVE  Ordered(NormalGrants(r)) = Ordered(NormalGrants(s))
    BY <2>1, NormalGrantsOf, DistinctArranged, OrderedArranged
  <2> QED
    BY <2>1, OrderedMembers
<1> QED
  BY <1>2, <1>3, NormalGrantsOf

RoleFields == {"key", "name", "audience", "mode", "binding", "grants", "related", "rules", "provision"}
TrimmedRelated(r) == [i \in DOMAIN r.related |-> Trim(r.related[i])]

\* A normal role, field by field.
LEMMA NormalRoleFields ==
  ASSUME NEW r, RoleShape(r)
  PROVE  LET n == NormalRole(r) IN
         /\ n = [y \in RoleFields |-> n[y]]
         /\ n.key = Trim(r.key) /\ n.name = Trim(r.name) /\ n.binding = Trim(r.binding)
         /\ n.rules = CanonicalJSON(r.rules) /\ n.provision = r.provision
         /\ n.audience = Default(r.audience, "any") /\ n.mode = Default(r.mode, "manual")
         /\ n.related = Ordered(TrimmedRelated(r)) /\ n.grants = Ordered(NormalGrants(r))
<1> DEFINE n == NormalRole(r)
           related == Ordered(TrimmedRelated(r))
           grants == Ordered(NormalGrants(r))
           audience == Default(r.audience, "any")
           mode == Default(r.mode, "manual")
<1>1. n = [r EXCEPT !.key = Trim(@), !.name = Trim(@), !.binding = Trim(@), !.rules = CanonicalJSON(@),
                    !.audience = audience, !.mode = mode, !.related = related, !.grants = grants]
  BY DEF NormalRole, NormalGrants, TrimmedRelated, Each
<1>2. DOMAIN r = RoleFields
  BY DEF RoleShape, RoleFields
<1> HIDE DEF n, related, grants, audience, mode
<1>3. n = [y \in RoleFields |-> n[y]]
  BY <1>1, <1>2
<1>4. /\ n.key = Trim(r.key) /\ n.name = Trim(r.name) /\ n.binding = Trim(r.binding)
      /\ n.rules = CanonicalJSON(r.rules) /\ n.provision = r.provision
  BY <1>1, <1>2 DEF RoleFields
<1>5. n.audience = audience /\ n.mode = mode /\ n.related = related /\ n.grants = grants
  BY <1>1, <1>2 DEF RoleFields
<1> QED
  BY <1>3, <1>4, <1>5 DEF n, related, grants, audience, mode

\* The normal form of an accepted role tells what its content tells.
LEMMA NormalRoleContent ==
  ASSUME NEW r, NEW s, RoleShape(r), RoleShape(s), RoleAccepted(r), RoleAccepted(s), r.provision = s.provision
  PROVE  NormalRole(r) = NormalRole(s) <=> RoleContent(r) = RoleContent(s)
<1> DEFINE Alike == /\ Trim(r.key) = Trim(s.key) /\ Trim(r.name) = Trim(s.name)
                    /\ Default(r.audience, "any") = Default(s.audience, "any")
                    /\ Default(r.mode, "manual") = Default(s.mode, "manual")
                    /\ Trim(r.binding) = Trim(s.binding) /\ CanonicalJSON(r.rules) = CanonicalJSON(s.rules)
<1>1. RoleContent(r) = RoleContent(s) <=>
        Alike /\ GrantContents(r) = GrantContents(s) /\ Count(TrimmedRelated(r)) = Count(TrimmedRelated(s))
  <2>1. \A x : RoleContent(x) =
          <<Trim(x.key), Trim(x.name), Default(x.audience, "any"), Default(x.mode, "manual"), Trim(x.binding),
            CanonicalJSON(x.rules), GrantContents(x), Count(TrimmedRelated(x))>>
    BY Zenon DEF RoleContent, GrantContents, TrimmedRelated, Each
  <2> QED
    BY <2>1
<1>2. NormalRole(r) = NormalRole(s) <=>
        /\ Alike
        /\ Ordered(NormalGrants(r)) = Ordered(NormalGrants(s))
        /\ Ordered(TrimmedRelated(r)) = Ordered(TrimmedRelated(s))
  <2> DEFINE a == NormalRole(r)
             b == NormalRole(s)
  <2>1. /\ a = [y \in RoleFields |-> a[y]]
        /\ a.key = Trim(r.key) /\ a.name = Trim(r.name) /\ a.binding = Trim(r.binding)
        /\ a.rules = CanonicalJSON(r.rules) /\ a.provision = r.provision
        /\ a.audience = Default(r.audience, "any") /\ a.mode = Default(r.mode, "manual")
        /\ a.related = Ordered(TrimmedRelated(r)) /\ a.grants = Ordered(NormalGrants(r))
    BY NormalRoleFields
  <2>2. /\ b = [y \in RoleFields |-> b[y]]
        /\ b.key = Trim(s.key) /\ b.name = Trim(s.name) /\ b.binding = Trim(s.binding)
        /\ b.rules = CanonicalJSON(s.rules) /\ b.provision = s.provision
        /\ b.audience = Default(s.audience, "any") /\ b.mode = Default(s.mode, "manual")
        /\ b.related = Ordered(TrimmedRelated(s)) /\ b.grants = Ordered(NormalGrants(s))
    BY NormalRoleFields
  <2> HIDE DEF a, b
  <2>3. a = b <=> /\ a.key = b.key /\ a.name = b.name /\ a.audience = b.audience /\ a.mode = b.mode
                  /\ a.binding = b.binding /\ a.grants = b.grants /\ a.related = b.related
                  /\ a.rules = b.rules /\ a.provision = b.provision
    BY <2>1, <2>2 DEF RoleFields
  <2> QED
    BY <2>1, <2>2, <2>3 DEF a, b
<1>3. Ordered(TrimmedRelated(r)) = Ordered(TrimmedRelated(s)) <=> Count(TrimmedRelated(r)) = Count(TrimmedRelated(s))
  <2>1. IsList(TrimmedRelated(r)) /\ IsList(TrimmedRelated(s))
    BY ListOfEach DEF RoleShape, TrimmedRelated
  <2> QED
    BY <2>1, OrderedArranged, CountArranged
<1> HIDE DEF Alike
<1> QED
  BY <1>1, <1>2, <1>3, GrantsContent

-----------------------------------------------------------------------------
(* Digests and contents of catalogs *)

\* Sorted, two lists that repeat nothing are equal when their members are.
LEMMA OrderedDistinct ==
  ASSUME NEW s, NEW t, IsList(s), IsList(t),
         \A i, j \in DOMAIN s : s[i] = s[j] => i = j,
         \A i, j \in DOMAIN t : t[i] = t[j] => i = j
  PROVE  Ordered(s) = Ordered(t) <=> Range(s) = Range(t)
<1>1. Range(s) = Range(t) => Ordered(s) = Ordered(t)
  BY DistinctArranged, OrderedArranged
<1> QED
  BY <1>1, OrderedMembers

BareDefinitions(d) == [i \in DOMAIN d |-> BareDefinition(d[i])]

\* The hash of a snapshot tells its definitions, the order apart.
LEMMA SnapshotContent ==
  ASSUME NEW d, NEW e
  PROVE  /\ SnapshotHash(d) = SnapshotHash(e)
              => {BareDefinition(x) : x \in Range(d)} = {BareDefinition(x) : x \in Range(e)}
         /\ List(d) /\ DefinitionsAccepted(d) /\ List(e) /\ DefinitionsAccepted(e) =>
              ({BareDefinition(x) : x \in Range(d)} = {BareDefinition(x) : x \in Range(e)}
                 => SnapshotHash(d) = SnapshotHash(e))
<1>1. \A x : SnapshotHash(x) = Ordered(BareDefinitions(x))
  BY DEF SnapshotHash, BareDefinitions, Each
<1>2. \A x : Range(BareDefinitions(x)) = {BareDefinition(y) : y \in Range(x)}
  BY DEF BareDefinitions, Range
<1>3. ASSUME NEW x, List(x), DefinitionsAccepted(x)
      PROVE  /\ IsList(BareDefinitions(x))
             /\ \A i, j \in DOMAIN BareDefinitions(x) : BareDefinitions(x)[i] = BareDefinitions(x)[j] => i = j
  <2>1. /\ DOMAIN BareDefinitions(x) = DOMAIN x
        /\ BareDefinitions(x) = [i \in DOMAIN BareDefinitions(x) |-> BareDefinitions(x)[i]]
        /\ \A i \in DOMAIN x : BareDefinitions(x)[i].key = Trim(x[i].key)
    BY DEF BareDefinitions, BareDefinition
  <2>2. \A i, j \in DOMAIN x : Trim(x[i].key) = Trim(x[j].key) => i = j
    BY <1>3, Zenon DEF DefinitionsAccepted, Distinct
  <2>3. IsList(BareDefinitions(x))
    BY <1>3, <2>1, ListOfEach
  <2> QED
    BY <2>1, <2>2, <2>3
<1>4. SnapshotHash(d) = SnapshotHash(e) => Range(BareDefinitions(d)) = Range(BareDefinitions(e))
  BY <1>1, OrderedMembers
<1>5. ASSUME List(d), DefinitionsAccepted(d), List(e), DefinitionsAccepted(e),
             Range(BareDefinitions(d)) = Range(BareDefinitions(e))
      PROVE  SnapshotHash(d) = SnapshotHash(e)
  <2>1. Ordered(BareDefinitions(d)) = Ordered(BareDefinitions(e))
    BY <1>3, <1>5, OrderedDistinct
  <2> QED
    BY <1>1, <2>1
<1>6. /\ Range(BareDefinitions(d)) = {BareDefinition(x) : x \in Range(d)}
      /\ Range(BareDefinitions(e)) = {BareDefinition(x) : x \in Range(e)}
  BY <1>2
<1> QED
  BY <1>4, <1>5, <1>6, Zenon

BareMenus(n) == [i \in DOMAIN n.menus |-> BareMenu(n.menus[i])]
BareSets(n) == [i \in DOMAIN n.sets |-> BareSet(n.sets[i])]
NavigationContent(n) ==
  {<<"menu", BareMenu(m)>> : m \in Range(n.menus)} \union {<<"set", BareSet(s)>> : s \in Range(n.sets)}

\* The hash of a navigation tells its menus and the menus of each role.
LEMMA NavigationDigest ==
  ASSUME NEW a, NEW b, List(a.menus), List(a.sets), List(b.menus), List(b.sets),
         NavigationAccepted(a.menus, a.sets), NavigationAccepted(b.menus, b.sets)
  PROVE  NavigationHash(a.menus, a.sets) = NavigationHash(b.menus, b.sets)
           <=> NavigationContent(a) = NavigationContent(b)
<1>1. ASSUME NEW n, List(n.menus), List(n.sets), NavigationAccepted(n.menus, n.sets)
      PROVE  /\ IsList(BareMenus(n)) /\ IsList(BareSets(n))
             /\ \A i, j \in DOMAIN BareMenus(n) : BareMenus(n)[i] = BareMenus(n)[j] => i = j
             /\ \A i, j \in DOMAIN BareSets(n) : BareSets(n)[i] = BareSets(n)[j] => i = j
  <2>1. /\ \A i, j \in DOMAIN BareMenus(n) : BareMenus(n)[i].key = BareMenus(n)[j].key => i = j
        /\ \A i, j \in DOMAIN n.sets : Trim(n.sets[i].role) = Trim(n.sets[j].role) => i = j
    BY <1>1, Zenon DEF NavigationAccepted, BareMenus, Distinct, Each
  <2>2. /\ DOMAIN BareSets(n) = DOMAIN n.sets /\ DOMAIN BareMenus(n) = DOMAIN n.menus
        /\ BareSets(n) = [i \in DOMAIN BareSets(n) |-> BareSets(n)[i]]
        /\ BareMenus(n) = [i \in DOMAIN BareMenus(n) |-> BareMenus(n)[i]]
        /\ \A i \in DOMAIN n.sets : BareSets(n)[i].role = Trim(n.sets[i].role)
    BY DEF BareSets, BareMenus, BareSet
  <2>3. IsList(BareMenus(n)) /\ IsList(BareSets(n))
    BY <1>1, <2>2, ListOfEach
  <2> QED
    BY <2>1, <2>2, <2>3
<1>2. \A n : NavigationHash(n.menus, n.sets) = <<Ordered(BareMenus(n)), Ordered(BareSets(n))>>
  BY DEF NavigationHash, BareMenus, BareSets, Each
<1>3. NavigationHash(a.menus, a.sets) = NavigationHash(b.menus, b.sets)
        <=> Ordered(BareMenus(a)) = Ordered(BareMenus(b)) /\ Ordered(BareSets(a)) = Ordered(BareSets(b))
  BY <1>2
<1>4. /\ Ordered(BareMenus(a)) = Ordered(BareMenus(b)) <=> Range(BareMenus(a)) = Range(BareMenus(b))
      /\ Ordered(BareSets(a)) = Ordered(BareSets(b)) <=> Range(BareSets(a)) = Range(BareSets(b))
  BY <1>1, OrderedDistinct
<1>5. \A n : NavigationContent(n)
               = {<<"menu", m>> : m \in Range(BareMenus(n))} \union {<<"set", s>> : s \in Range(BareSets(n))}
  BY DEF NavigationContent, BareMenus, BareSets, Range
<1>6. NavigationContent(a) = NavigationContent(b)
        <=> Range(BareMenus(a)) = Range(BareMenus(b)) /\ Range(BareSets(a)) = Range(BareSets(b))
  <2>1. \A n, m : /\ <<"menu", m>> \in NavigationContent(n) <=> m \in Range(BareMenus(n))
                  /\ <<"set", m>> \in NavigationContent(n) <=> m \in Range(BareSets(n))
    BY <1>5
  <2>2. ASSUME NavigationContent(a) = NavigationContent(b)
        PROVE  Range(BareMenus(a)) = Range(BareMenus(b)) /\ Range(BareSets(a)) = Range(BareSets(b))
    <3>1. \A m : m \in Range(BareMenus(a)) <=> m \in Range(BareMenus(b))
      BY <2>1, <2>2, Zenon
    <3>2. \A m : m \in Range(BareSets(a)) <=> m \in Range(BareSets(b))
      BY <2>1, <2>2, Zenon
    <3> QED BY <3>1, <3>2
  <2> QED
    BY <1>5, <2>2
<1> QED
  BY <1>3, <1>4, <1>6

\* The roles of a catalog that workspaces get.
Selected(d) == {s \in Range(d.roles) : s.provision}

\* Normal, they are told apart by their keys, and the administrator's is one.
LEMMA ProvisionedRoles ==
  ASSUME NEW d \in Catalogs, RolesAccepted(d.roles, d.administrator)
  PROVE  /\ IsList(Provisioned(d.roles))
         /\ \A i, j \in DOMAIN Provisioned(d.roles) :
              Provisioned(d.roles)[i] = Provisioned(d.roles)[j] => i = j
         /\ Range(Provisioned(d.roles)) = {NormalRole(r) : r \in Selected(d)}
         /\ \A r \in Selected(d) : RoleShape(r) /\ RoleAccepted(r) /\ r.provision = TRUE
         /\ \E r \in Selected(d) : Trim(r.key) = Trim(d.administrator)
<1> DEFINE roles == d.roles
           P == Provisioned(roles)
           selected == {i \in DOMAIN roles : roles[i].provision}
           order == CHOOSE f \in Bijection(1..Cardinality(selected), selected) : TRUE
<1>1. /\ \A i \in DOMAIN roles : RoleAccepted(roles[i])
      /\ \A i, j \in DOMAIN roles : Trim(roles[i].key) = Trim(roles[j].key) => i = j
      /\ \E r \in Range(P) : r.key = Trim(d.administrator)
  BY Zenon DEF RolesAccepted, Distinct
<1>2. /\ List(roles) /\ \A r \in Range(roles) : RoleShape(r)
  BY CatalogAssumption DEF CatalogShapes
<1>3. \A i \in DOMAIN roles : RoleShape(roles[i]) /\ RoleAccepted(roles[i]) /\ NormalRole(roles[i]).key = Trim(roles[i].key)
  <2>1. \A i \in DOMAIN roles : RoleShape(roles[i])
    BY <1>2 DEF Range
  <2> QED BY <1>1, <2>1, NormalRoleFields
<1>4. IsFiniteSet(selected)
  <2>1. PICK n \in Nat : DOMAIN roles = 1..n
    BY <1>2, ListOfEach DEF IsList
  <2>2. IsFiniteSet(1..n) /\ selected \in SUBSET (1..n)
    BY <2>1, FS_Interval
  <2> HIDE DEF selected
  <2> QED BY <2>2, FS_Subset
<1>5. /\ Cardinality(selected) \in Nat
      /\ order \in Bijection(1..Cardinality(selected), selected)
  <2> HIDE DEF selected
  <2>1. Cardinality(selected) \in Nat /\ ExistsBijection(1..Cardinality(selected), selected)
    BY <1>4, FS_CardinalityType
  <2> QED BY <2>1 DEF ExistsBijection
<1>6. P = [n \in DOMAIN order |-> NormalRole(roles[order[n]])]
  BY DEF Provisioned
<1> DEFINE c == 1..Cardinality(selected)
<1> HIDE DEF P, order, c
<1>7. /\ DOMAIN order = c /\ \A n \in c : order[n] \in selected
      /\ \A m, n \in c : order[m] = order[n] => m = n
      /\ \A i \in selected : \E n \in c : order[n] = i
  <2> HIDE DEF selected
  <2>1. order \in Bijection(c, selected)
    BY <1>5 DEF c
  <2>2. /\ order \in [c -> selected]
        /\ \A m, n \in c : order[m] = order[n] => m = n
        /\ \A i \in selected : \E n \in c : order[n] = i
    BY <2>1, BijectionPoints
  <2> QED
    BY <2>2
<1>8. DOMAIN P = c /\ P = [n \in DOMAIN P |-> P[n]] /\ \A n \in c : P[n] = NormalRole(roles[order[n]])
  BY <1>6, <1>7
<1>9. IsList(P)
  BY <1>5, <1>8 DEF IsList, c
<1>10. \A m, n \in DOMAIN P : P[m] = P[n] => m = n
  <2>1. ASSUME NEW m \in c, NEW n \in c, P[m] = P[n] PROVE m = n
    <3>1. order[m] \in DOMAIN roles /\ order[n] \in DOMAIN roles
      BY <1>7
    <3>2. order[m] = order[n]
      BY <1>1, <1>3, <1>8, <2>1, <3>1
    <3> QED BY <1>7, <3>2
  <2> QED BY <1>8, <2>1
<1>11. \A r : r \in Selected(d) <=> \E i \in selected : r = roles[i]
  BY DEF Selected, Range
<1>12. \A x : x \in Range(P) <=> \E r \in Selected(d) : x = NormalRole(r)
  <2>1. \A x : x \in Range(P) <=> \E n \in c : x = NormalRole(roles[order[n]])
    BY <1>8 DEF Range
  <2>2. \A x : x \in Range(P) <=> \E i \in selected : x = NormalRole(roles[i])
    <3> HIDE DEF selected
    <3> QED BY <1>7, <2>1
  <2> HIDE DEF selected
  <2> QED BY <1>11, <2>2
<1>13. \A r \in Selected(d) : RoleShape(r) /\ RoleAccepted(r) /\ r.provision = TRUE /\ NormalRole(r).key = Trim(r.key)
  <2>1. \A i \in selected : i \in DOMAIN roles /\ roles[i].provision
    OBVIOUS
  <2>2. \A r : RoleShape(r) => r.provision \in BOOLEAN
    BY DEF RoleShape
  <2> HIDE DEF selected
  <2> QED BY <1>3, <1>11, <2>1, <2>2
<1>14. \E r \in Selected(d) : Trim(r.key) = Trim(d.administrator)
  <2> HIDE DEF selected
  <2> QED BY <1>1, <1>12, <1>13
<1>15. Range(P) = {NormalRole(r) : r \in Selected(d)}
  <2> HIDE DEF selected
  <2> QED BY <1>12
<1> QED
  BY <1>9, <1>10, <1>13, <1>14, <1>15 DEF P

RolesContent(d) == {<<RoleContent(r), Trim(r.key) = Trim(d.administrator)>> : r \in Selected(d)}

\* The hash of a role catalog tells its roles and the administrator's.
LEMMA RolesDigest ==
  ASSUME NEW a \in Catalogs, NEW b \in Catalogs,
         RolesAccepted(a.roles, a.administrator), RolesAccepted(b.roles, b.administrator)
  PROVE  RolesHash(a.roles, a.administrator) = RolesHash(b.roles, b.administrator)
           <=> RolesContent(a) = RolesContent(b)
<1> DEFINE Alike == /\ \A r \in Selected(a) : \E s \in Selected(b) : RoleContent(r) = RoleContent(s)
                    /\ \A s \in Selected(b) : \E r \in Selected(a) : RoleContent(r) = RoleContent(s)
<1>1. RolesHash(a.roles, a.administrator) = RolesHash(b.roles, b.administrator)
        <=> /\ Ordered(Provisioned(a.roles)) = Ordered(Provisioned(b.roles))
            /\ Trim(a.administrator) = Trim(b.administrator)
  BY DEF RolesHash
<1>2. Ordered(Provisioned(a.roles)) = Ordered(Provisioned(b.roles))
        <=> {NormalRole(r) : r \in Selected(a)} = {NormalRole(s) : s \in Selected(b)}
  BY ProvisionedRoles, OrderedDistinct
<1>3. \A r \in Selected(a), s \in Selected(b) : NormalRole(r) = NormalRole(s) <=> RoleContent(r) = RoleContent(s)
  BY ProvisionedRoles, NormalRoleContent
<1>4. {NormalRole(r) : r \in Selected(a)} = {NormalRole(s) : s \in Selected(b)} <=> Alike
  <2>1. {NormalRole(r) : r \in Selected(a)} = {NormalRole(s) : s \in Selected(b)}
          <=> /\ \A r \in Selected(a) : \E s \in Selected(b) : NormalRole(r) = NormalRole(s)
              /\ \A s \in Selected(b) : \E r \in Selected(a) : NormalRole(r) = NormalRole(s)
    OBVIOUS
  <2> QED
    BY <1>3, <2>1
<1>5. \A r, s : RoleContent(r) = RoleContent(s) => Trim(r.key) = Trim(s.key)
  BY DEF RoleContent
<1>6. ASSUME Alike, Trim(a.administrator) = Trim(b.administrator) PROVE RolesContent(a) = RolesContent(b)
  <2>1. /\ \A r \in Selected(a) : \E s \in Selected(b) :
             RoleContent(r) = RoleContent(s) /\ (Trim(r.key) = Trim(a.administrator)) = (Trim(s.key) = Trim(b.administrator))
        /\ \A s \in Selected(b) : \E r \in Selected(a) :
             RoleContent(r) = RoleContent(s) /\ (Trim(r.key) = Trim(a.administrator)) = (Trim(s.key) = Trim(b.administrator))
    BY <1>5, <1>6
  <2> QED
    BY <2>1 DEF RolesContent
<1>7. ASSUME RolesContent(a) = RolesContent(b) PROVE Alike /\ Trim(a.administrator) = Trim(b.administrator)
  <2>1. /\ \A r \in Selected(a) : \E s \in Selected(b) :
             RoleContent(r) = RoleContent(s) /\ (Trim(r.key) = Trim(a.administrator)) = (Trim(s.key) = Trim(b.administrator))
        /\ \A s \in Selected(b) : \E r \in Selected(a) :
             RoleContent(r) = RoleContent(s) /\ (Trim(r.key) = Trim(a.administrator)) = (Trim(s.key) = Trim(b.administrator))
    <3> DEFINE pair(r, d) == <<RoleContent(r), Trim(r.key) = Trim(d.administrator)>>
    <3>1. /\ \A x : x \in RolesContent(a) <=> \E r \in Selected(a) : x = pair(r, a)
          /\ \A x : x \in RolesContent(b) <=> \E r \in Selected(b) : x = pair(r, b)
      BY DEF RolesContent
    <3>2. \A r, s : pair(r, a) = pair(s, b) =>
            RoleContent(r) = RoleContent(s) /\ (Trim(r.key) = Trim(a.administrator)) = (Trim(s.key) = Trim(b.administrator))
      OBVIOUS
    <3> HIDE DEF pair
    <3>3. /\ \A r \in Selected(a) : \E s \in Selected(b) : pair(r, a) = pair(s, b)
          /\ \A s \in Selected(b) : \E r \in Selected(a) : pair(r, a) = pair(s, b)
      BY <1>7, <3>1
    <3> QED BY <3>2, <3>3
  <2>2. PICK r \in Selected(a) : Trim(r.key) = Trim(a.administrator)
    BY ProvisionedRoles
  <2> QED
    BY <1>5, <2>1, <2>2
<1> HIDE DEF Alike
<1> QED
  BY <1>1, <1>2, <1>4, <1>6, <1>7

-----------------------------------------------------------------------------
(* Receipts *)

\* The registry has accepted what it holds, and never goes back to nothing.
HeldAccepted ==
  /\ DOMAIN held = {1} => held[1] \in Definitions /\ DefinitionsAccepted(held[1])
  /\ DOMAIN held = {} => \A h \in Host : base[h] = Snapshot /\ \A request \in sent[h] : request.previous = Snapshot

\* Only accepted permissions are sent.
SentAccepted ==
  \A h \in Host :
    /\ stage[h] \in Asking => kind = "permissions"
    /\ stage[h] = "waiting" => DefinitionsAccepted(draft[h])
    /\ sent[h] # {} => kind = "permissions" /\ DefinitionsAccepted(draft[h])

RInv ==
  /\ DraftsTyped /\ Typed /\ seen = [h \in Host |-> seen[h]]
  /\ HeldAccepted /\ SentAccepted /\ ReceiptsProveContent

\* What the content of a catalog is, for each kind.
LEMMA ContentOfKind ==
  /\ kind = "permissions" => \A d : Content(d) = {BareDefinition(x) : x \in Range(d)}
  /\ kind = "roles" => \A d : Content(d) = RolesContent(d)
  /\ kind = "navigation" => \A d : Content(d) = NavigationContent(d)
<1>1. kind = "permissions" => \A d : Content(d) = {BareDefinition(x) : x \in Range(d)}
  BY DEF Content
<1>2. kind = "roles" => \A d : Content(d) = RolesContent(d)
  BY DEF Content, RolesContent, Selected
<1>3. kind = "navigation" => \A d : Content(d) = NavigationContent(d)
  BY DEF Content, NavigationContent
<1> QED
  BY <1>1, <1>2, <1>3

\* A host has its receipt, or its conflict, for cause.
ContentsOf(h) == {Content(own) : own \in Readings(draft[h])}

Proved(h) ==
  /\ stage[h] = "acknowledged" => \E content \in ContentsOf(h) : seen[h] = content
  /\ stage[h] = "conflict" => \E content \in ContentsOf(h) : seen[h] # content

\* What can be read in a draft stays, and so do its type and its hash.
LEMMA ContentStays ==
  ASSUME UNCHANGED <<kind, draft>>
  PROVE  /\ \A h \in Host : ContentsOf(h)' = ContentsOf(h)
         /\ DraftsTyped => DraftsTyped'
         /\ \A h \in Host : Own(h)' = Own(h)
<1>1. \A h \in Host : ContentsOf(h)' = ContentsOf(h)
  BY DEF ContentsOf, Readings, Content
<1>2. DraftsTyped => DraftsTyped'
  BY DEF DraftsTyped, Drafts
<1> QED
  BY <1>1, <1>2 DEF Own

\* Permissions are read in one way.
LEMMA OneContent ==
  ASSUME kind = "permissions", NEW h \in Host
  PROVE  ContentsOf(h) = {Content(draft[h])}
  BY DEF ContentsOf, Readings

\* The invariant is made of these.
LEMMA RInvOf ==
  RInv <=> /\ DraftsTyped /\ Typed /\ seen = [h \in Host |-> seen[h]]
           /\ HeldAccepted /\ SentAccepted /\ \A h \in Host : Proved(h)
<1>1. \A h \in Host :
        Proved(h) <=> /\ stage[h] = "acknowledged" => \E own \in Readings(draft[h]) : seen[h] = Content(own)
                      /\ stage[h] = "conflict" => \E own \in Readings(draft[h]) : seen[h] # Content(own)
  BY DEF Proved, ContentsOf
<1> QED
  BY <1>1 DEF RInv, ReceiptsProveContent

\* A step that leaves a host alone leaves what is proved of it.
LEMMA ProvedStays ==
  ASSUME NEW h \in Host, Proved(h), UNCHANGED <<kind, draft>>, seen'[h] = seen[h],
         stage'[h] \in {"acknowledged", "conflict"} => stage'[h] = stage[h]
  PROVE  Proved(h)'
  BY ContentStays DEF Proved

\* The registry holds the permissions of a host, or others, by the hashes.
LEMMA SnapshotIs ==
  ASSUME Typed, NEW h
  PROVE  /\ Snapshot = Own(h) => DOMAIN held = {1} /\ SnapshotHash(held[1]) = SnapshotHash(draft[h])
         /\ DOMAIN held = {1} /\ SnapshotHash(held[1]) = SnapshotHash(draft[h]) => Snapshot = Own(h)
<1> DEFINE hash == SnapshotHash(draft[h])
<1>1. DOMAIN Snapshot = DOMAIN held /\ \A i \in DOMAIN held : Snapshot[i] = SnapshotHash(held[i])
  BY DEF Snapshot
<1>2. Own(h) = [i \in {1} |-> hash]
  <2> HIDE DEF hash
  <2>1. <<hash>> = [i \in {1} |-> hash]
    OBVIOUS
  <2> QED BY <2>1 DEF Own, hash
<1>3. DOMAIN Own(h) = {1} /\ Own(h)[1] = hash
  BY <1>2
<1>4. ASSUME DOMAIN held = {1}, SnapshotHash(held[1]) = hash PROVE Snapshot = [i \in {1} |-> hash]
  <2>1. \A i \in {1} : SnapshotHash(held[i]) = hash
    BY <1>4
  <2> HIDE DEF hash
  <2> QED BY <1>4, <2>1 DEF Snapshot
<1> QED
  BY <1>1, <1>2, <1>3, <1>4

\* What an answer of the registry tells the host that waits for it.
LEMMA DeliverProves ==
  ASSUME RInv, NEW h \in Host, NEW request \in sent[h], NEW arrives \in BOOLEAN,
         Deliver(h, request, arrives)
  PROVE  \A g \in Host : Proved(g)'
<1> DEFINE applied == Applicable(h, request)
           changed == applied /\ Snapshot # Own(h)
<1>1. /\ UNCHANGED <<kind, draft>>
      /\ held' = IF changed THEN <<draft[h]>> ELSE held
  BY DEF Deliver
<1>2. /\ kind = "permissions" /\ DefinitionsAccepted(draft[h])
      /\ draft[h] \in Definitions
  BY DEF RInv, SentAccepted, DraftsTyped, Drafts
<1>3. \A g \in Host : Proved(g)
  BY RInvOf
<1>4. CASE ~(arrives /\ stage[h] = "waiting" /\ request.attempt = attempt[h])
  <2>1. UNCHANGED <<stage, seen>>
    BY <1>4 DEF Deliver
  <2> QED
    BY <1>1, <1>3, <2>1, ProvedStays
<1>5. CASE arrives /\ stage[h] = "waiting" /\ request.attempt = attempt[h]
  <2>1. /\ seen' = [seen EXCEPT ![h] = Content(held'[1])]
        /\ \E s \in {"conflict", "acknowledged", "rejected"} :
             stage' = [stage EXCEPT ![h] = s] /\ (s = "conflict" <=> ~applied)
    BY <1>5 DEF Deliver
  <2>2. ASSUME NEW g \in Host, g # h PROVE Proved(g)'
    <3>1. seen'[g] = seen[g] /\ stage'[g] = stage[g]
      BY <2>1, <2>2
    <3> QED
      BY <1>1, <1>3, <3>1, ProvedStays
  <2>3. /\ seen'[h] = Content(held'[1])
        /\ stage'[h] = "conflict" <=> ~applied
    BY <2>1 DEF RInv, Typed
  <2>4. /\ \A d : Content(d) = {BareDefinition(x) : x \in Range(d)}
        /\ List(draft[h])
    BY <1>2, ContentOfKind, CatalogAssumption DEF CatalogShapes
  <2>5. ASSUME ~applied PROVE Proved(h)'
    <3>1. held' = held /\ Snapshot # request.previous /\ Snapshot # Own(h)
      BY <1>1, <2>5 DEF Applicable
    <3>2. DOMAIN held = {1} /\ held[1] \in Definitions /\ DefinitionsAccepted(held[1])
      BY <3>1 DEF RInv, HeldAccepted, Typed
    <3>3. SnapshotHash(held[1]) # SnapshotHash(draft[h])
      BY <3>1, <3>2, SnapshotIs DEF RInv
    <3>4. List(held[1])
      BY <3>2, CatalogAssumption DEF CatalogShapes
    <3>5. Content(held[1]) # Content(draft[h])
      BY <1>2, <2>4, <3>2, <3>3, <3>4, SnapshotContent
    <3> QED
      BY <1>1, <1>2, <2>3, <2>5, <3>1, <3>5, ContentStays, OneContent DEF Proved
  <2>6. ASSUME applied PROVE Proved(h)'
    <3>1. Content(held'[1]) = Content(draft[h])
      <4>1. CASE changed
        <5>1. held'[1] = draft[h]
          BY <1>1, <4>1
        <5> QED BY <5>1
      <4>2. CASE ~changed
        <5>1. held' = held /\ Snapshot = Own(h)
          BY <1>1, <2>6, <4>2
        <5>2. SnapshotHash(held[1]) = SnapshotHash(draft[h])
          BY <5>1, SnapshotIs DEF RInv
        <5> QED BY <2>4, <5>1, <5>2, SnapshotContent
      <4> QED BY <4>1, <4>2
    <3> QED
      BY <1>1, <1>2, <2>3, <2>6, <3>1, ContentStays, OneContent DEF Proved
  <2> QED
    BY <2>2, <2>5, <2>6
<1> QED
  BY <1>4, <1>5

\* A reading of a catalog is one of lists, as the catalog is.
LEMMA ReadingShape ==
  ASSUME DraftsTyped, NEW h \in Host, NEW d \in Readings(draft[h])
  PROVE  /\ kind = "roles" => d \in Catalogs
         /\ kind = "navigation" => List(d.menus) /\ List(d.sets)
<1>1. ASSUME kind = "roles" PROVE d \in Catalogs
  BY <1>1 DEF DraftsTyped, Drafts, Readings
<1>2. ASSUME kind = "navigation" PROVE List(d.menus) /\ List(d.sets)
  <2>1. draft[h] \in Navigations
    BY <1>2 DEF DraftsTyped, Drafts
  <2>2. List(draft[h].menus) /\ List(draft[h].sets)
    BY <2>1, CatalogAssumption DEF CatalogShapes
  <2>3. PICK read \in MenuReadings(draft[h].menus) : d = [draft[h] EXCEPT !.menus = read]
    BY <1>2 DEF Readings
  <2>4. DOMAIN read = DOMAIN draft[h].menus /\ read = [i \in DOMAIN read |-> read[i]]
    BY DEF MenuReadings
  <2>5. List(read)
    <3>1. PICK n \in Nat : DOMAIN draft[h].menus = 1..n
      BY <2>2, ListOfEach DEF IsList
    <3>2. read \in [1..n -> Range(read)]
      BY <2>4, <3>1 DEF Range
    <3> QED
      BY <3>2 DEF List
  <2>6. DOMAIN draft[h] = {"menus", "sets"}
    BY <2>1, CatalogAssumption DEF CatalogShapes
  <2>7. d.menus = read /\ d.sets = draft[h].sets
    BY <2>3, <2>6
  <2> QED
    BY <2>2, <2>5, <2>7
<1> QED
  BY <1>1, <1>2

\* Of two readings that are digested, the digests tell what the contents tell.
LEMMA DigestContent ==
  ASSUME DraftsTyped, kind # "permissions", NEW h \in Host, NEW g \in Host,
         NEW own \in Readings(draft[h]), NEW theirs \in Readings(draft[g]),
         Digestible(own), Digestible(theirs)
  PROVE  Digest(own) = Digest(theirs) <=> Content(own) = Content(theirs)
<1>1. CASE kind = "roles"
  <2>1. own \in Catalogs /\ theirs \in Catalogs
    BY <1>1, ReadingShape
  <2>2. \A d : /\ Digestible(d) = RolesAccepted(d.roles, d.administrator)
               /\ Digest(d) = RolesHash(d.roles, d.administrator)
               /\ Content(d) = RolesContent(d)
    BY <1>1, ContentOfKind DEF Digestible, Digest
  <2> QED
    BY <2>1, <2>2, RolesDigest
<1>2. CASE kind = "navigation"
  <2>1. List(own.menus) /\ List(own.sets) /\ List(theirs.menus) /\ List(theirs.sets)
    BY <1>2, ReadingShape
  <2>2. \A d : /\ Digestible(d) = NavigationAccepted(d.menus, d.sets)
               /\ Digest(d) = NavigationHash(d.menus, d.sets)
               /\ Content(d) = NavigationContent(d)
    BY <1>2, ContentOfKind DEF Digestible, Digest
  <2> QED
    BY <2>1, <2>2, NavigationDigest
<1> QED
  BY <1>1, <1>2 DEF DraftsTyped

\* What the comparison of two digests tells.
LEMMA BootstrapProves ==
  ASSUME RInv, NEW h \in Host, NEW g \in Host, Bootstrap(h, g)
  PROVE  \A i \in Host : Proved(i)'
<1>1. PICK own \in Readings(draft[h]), theirs \in Readings(draft[g]) : Compare(h, own, theirs)
  BY DEF Bootstrap
<1>2. /\ UNCHANGED <<kind, draft>> /\ kind # "permissions" /\ Digestible(theirs)
      /\ seen' = [seen EXCEPT ![h] = Content(theirs)]
      /\ stage' = [stage EXCEPT ![h] =
           IF ~Digestible(own) THEN "invalid"
           ELSE IF Digest(own) = Digest(theirs) THEN "acknowledged" ELSE "conflict"]
  BY <1>1 DEF Bootstrap, Compare
<1>3. \A i \in Host : Proved(i)
  BY RInvOf
<1>4. ASSUME NEW i \in Host, i # h PROVE Proved(i)'
  <2>1. seen'[i] = seen[i] /\ stage'[i] = stage[i]
    BY <1>2, <1>4
  <2> QED
    BY <1>2, <1>3, <2>1, ProvedStays
<1>5. Proved(h)'
  <2>1. /\ seen'[h] = Content(theirs)
        /\ stage'[h] = IF ~Digestible(own) THEN "invalid"
                       ELSE IF Digest(own) = Digest(theirs) THEN "acknowledged" ELSE "conflict"
    BY <1>2 DEF RInv, Typed
  <2>2. Digestible(own) => (Digest(own) = Digest(theirs) <=> Content(own) = Content(theirs))
    BY <1>2, DigestContent DEF RInv
  <2>3. ContentsOf(h)' = ContentsOf(h) /\ Content(own) \in ContentsOf(h)
    BY <1>2, ContentStays DEF ContentsOf
  <2>4. /\ stage'[h] = "acknowledged" => seen'[h] = Content(own)
        /\ stage'[h] = "conflict" => seen'[h] # Content(own)
    BY <2>1, <2>2
  <2> QED
    BY <2>3, <2>4 DEF Proved
<1> QED
  BY <1>4, <1>5

\* It holds at first: nothing is sent, and nobody is told anything.
LEMMA InitRInv == Init => RInv
<1> SUFFICES ASSUME Init PROVE RInv
  OBVIOUS
<1>1. DraftsTyped /\ Typed /\ seen = [h \in Host |-> seen[h]]
  BY InitIInv DEF Init, DraftsTyped, IInv
<1>2. SentAccepted /\ \A h \in Host : Proved(h)
  BY DEF Init, SentAccepted, Asking, Proved
<1>3. HeldAccepted
  <2>1. CASE held = <<>>
    <3>1. DOMAIN held = {}
      BY <2>1
    <3>2. Snapshot = <<>>
      BY <2>1 DEF Snapshot
    <3> QED
      BY <3>1, <3>2 DEF HeldAccepted, Init
  <2>2. ASSUME NEW d \in Definitions, DefinitionsAccepted(d), held = <<d>> PROVE HeldAccepted
    <3>1. DOMAIN held = {1} /\ held[1] = d
      BY <2>2
    <3> QED
      BY <2>2, <3>1 DEF HeldAccepted
  <2> QED
    BY <2>1, <2>2 DEF Init
<1> QED
  BY <1>1, <1>2, <1>3, RInvOf

\* Every step keeps the invariant.
LEMMA NextRInv == RInv /\ Typed' /\ [Next]_vars => RInv'
<1> SUFFICES ASSUME RInv, Typed', [Next]_vars PROVE RInv'
  OBVIOUS
<1> USE DEF Asking
<1>a. /\ DraftsTyped /\ Typed /\ seen = [h \in Host |-> seen[h]]
      /\ HeldAccepted /\ SentAccepted /\ \A h \in Host : Proved(h)
  BY RInvOf
<1>b. ASSUME HeldAccepted', SentAccepted', \A h \in Host : Proved(h)', UNCHANGED <<kind, draft>>,
             seen' = [h \in Host |-> seen'[h]]
      PROVE  RInv'
  <2>1. Typed' /\ DraftsTyped'
    BY <1>a, <1>b, ContentStays
  <2>2. \A h \in Host :
          Proved(h)' => /\ stage'[h] = "acknowledged" => \E own \in Readings(draft[h])' : seen'[h] = Content(own)'
                        /\ stage'[h] = "conflict" => \E own \in Readings(draft[h])' : seen'[h] # Content(own)'
    BY DEF Proved, ContentsOf
  <2> QED
    BY <1>b, <2>1, <2>2 DEF RInv, ReceiptsProveContent
<1>c. ASSUME held' = held PROVE Snapshot' = Snapshot
  BY <1>c DEF Snapshot
<1>1. ASSUME NEW h \in Host, ReadBaseline(h) PROVE RInv'
  <2>1. /\ UNCHANGED <<kind, draft, held, sent, seen>> /\ kind = "permissions"
        /\ base' = [base EXCEPT ![h] = Snapshot] /\ stage' = [stage EXCEPT ![h] = "ready"]
    BY <1>1 DEF ReadBaseline
  <2>2. HeldAccepted'
    BY <1>a, <1>c, <2>1 DEF HeldAccepted, Typed
  <2>3. SentAccepted'
    BY <1>a, <2>1 DEF SentAccepted, Typed
  <2>4. ASSUME NEW g \in Host PROVE Proved(g)'
    BY <1>a, <2>1, ProvedStays DEF Typed
  <2> QED
    BY <1>a, <1>b, <2>1, <2>2, <2>3, <2>4
<1>2. ASSUME NEW h \in Host, stage[h] \in Asking, DefinitionsAccepted(draft[h]), Send(h) PROVE RInv'
  <2>1. /\ UNCHANGED <<kind, draft, held, base, seen>> /\ kind = "permissions"
        /\ sent' = [sent EXCEPT ![h] = @ \union {[previous |-> base[h], attempt |-> attempt[h] + 1]}]
        /\ stage' = [stage EXCEPT ![h] = "waiting"]
    BY <1>a, <1>2 DEF Send, SentAccepted
  <2>2. HeldAccepted'
    BY <1>a, <1>c, <2>1 DEF HeldAccepted, Typed
  <2>3. SentAccepted'
    BY <1>a, <1>2, <2>1 DEF SentAccepted, Typed
  <2>4. ASSUME NEW g \in Host PROVE Proved(g)'
    BY <1>a, <2>1, ProvedStays DEF Typed
  <2> QED
    BY <1>a, <1>b, <2>1, <2>2, <2>3, <2>4
<1>3. ASSUME NEW h \in Host, Refuse(h) \/ GiveUp(h) PROVE RInv'
  <2>1. /\ UNCHANGED <<kind, draft, held, base, sent, seen>>
        /\ \E s \in {"invalid", "unknown"} : stage' = [stage EXCEPT ![h] = s]
    BY <1>3 DEF Refuse, GiveUp
  <2>2. HeldAccepted'
    BY <1>a, <1>c, <2>1 DEF HeldAccepted
  <2>3. SentAccepted'
    BY <1>a, <2>1 DEF SentAccepted, Typed
  <2>4. ASSUME NEW g \in Host PROVE Proved(g)'
    BY <1>a, <2>1, ProvedStays DEF Typed
  <2> QED
    BY <1>a, <1>b, <2>1, <2>2, <2>3, <2>4
<1>4. ASSUME NEW h \in Host, NEW request \in sent[h], NEW arrives \in BOOLEAN, Deliver(h, request, arrives)
      PROVE  RInv'
  <2>1. /\ UNCHANGED <<kind, draft, base>> /\ sent' = [sent EXCEPT ![h] = @ \ {request}]
        /\ held' = <<draft[h]>> \/ held' = held
    BY <1>4 DEF Deliver
  <2>2. kind = "permissions" /\ DefinitionsAccepted(draft[h]) /\ draft[h] \in Definitions
    BY <1>a DEF SentAccepted, DraftsTyped, Drafts
  <2>3. HeldAccepted'
    <3>1. CASE held' = <<draft[h]>>
      <4>1. DOMAIN held' = {1} /\ held'[1] = draft[h]
        BY <3>1
      <4> QED BY <2>2, <4>1 DEF HeldAccepted
    <3>2. CASE held' = held
      BY <1>a, <1>c, <2>1, <3>2 DEF HeldAccepted, Typed
    <3> QED BY <2>1, <3>1, <3>2
  <2>4. \A g \in Host : stage'[g] \in Asking => stage'[g] = stage[g]
    <3>1. stage' = stage \/ \E s \in {"conflict", "acknowledged", "rejected"} : stage' = [stage EXCEPT ![h] = s]
      <4> DEFINE kept == ~(arrives /\ stage[h] = "waiting" /\ request.attempt = attempt[h])
      <4>1. CASE kept
        BY <1>4, <4>1, Zenon DEF Deliver
      <4>2. CASE ~kept
        <5> DEFINE Answered(s) == [stage EXCEPT ![h] = s]
                   receipt(v) == [previous |-> v, snapshot |-> Own(h), count |-> Len(draft[h])]
        <5>1. \E v : stage' = Answered(IF ~Applicable(h, request) THEN "conflict"
                                      ELSE IF ReceiptAccepted(receipt(v), h) THEN "acknowledged" ELSE "rejected")
          BY <1>4, <4>2, Zenon DEF Deliver
        <5> HIDE DEF Answered, receipt
        <5>2. \E s \in {"conflict", "acknowledged", "rejected"} : stage' = Answered(s)
          BY <5>1
        <5> QED BY <5>2 DEF Answered
      <4> QED BY <4>1, <4>2
    <3> QED BY <1>a, <3>1 DEF Typed
  <2>5. SentAccepted'
    BY <1>a, <2>1, <2>4 DEF SentAccepted, Typed
  <2>6. \A g \in Host : Proved(g)'
    BY <1>4, DeliverProves
  <2>7. seen' = [g \in Host |-> seen'[g]]
    BY <1>4, <1>a DEF Deliver
  <2> QED
    BY <1>b, <2>1, <2>3, <2>5, <2>6, <2>7
<1>5. ASSUME NEW h \in Host, NEW request \in sent[h], Lose(h, request) PROVE RInv'
  <2>1. /\ UNCHANGED <<kind, draft, held, stage, base, seen>>
        /\ sent' = [sent EXCEPT ![h] = @ \ {request}]
    BY <1>5 DEF Lose
  <2>2. HeldAccepted'
    BY <1>a, <1>c, <2>1 DEF HeldAccepted, Typed
  <2>3. SentAccepted'
    BY <1>a, <2>1 DEF SentAccepted, Typed
  <2>4. ASSUME NEW g \in Host PROVE Proved(g)'
    BY <1>a, <2>1, ProvedStays
  <2> QED
    BY <1>a, <1>b, <2>1, <2>2, <2>3, <2>4
<1>6. ASSUME NEW h \in Host, NEW g \in Host, Bootstrap(h, g) PROVE RInv'
  <2>1. /\ UNCHANGED <<kind, draft, held, base, sent>>
        /\ \E s \in {"invalid", "acknowledged", "conflict"} : stage' = [stage EXCEPT ![h] = s]
        /\ \E content : seen' = [seen EXCEPT ![h] = content]
    <3>1. PICK own \in Readings(draft[h]), theirs \in Readings(draft[g]) : Compare(h, own, theirs)
      BY <1>6 DEF Bootstrap
    <3> QED
      BY <1>6, <3>1 DEF Bootstrap, Compare
  <2>2. HeldAccepted'
    BY <1>a, <1>c, <2>1 DEF HeldAccepted
  <2>3. SentAccepted'
    BY <1>a, <2>1 DEF SentAccepted, Typed
  <2>4. \A i \in Host : Proved(i)'
    BY <1>6, BootstrapProves
  <2>5. seen' = [i \in Host |-> seen'[i]]
    BY <1>a, <2>1
  <2> QED
    BY <1>b, <2>1, <2>2, <2>3, <2>4, <2>5
<1>7. ASSUME UNCHANGED vars PROVE RInv'
  <2>1. UNCHANGED <<kind, draft, held, stage, base, sent, seen>>
    BY <1>7 DEF vars
  <2>2. HeldAccepted' /\ SentAccepted'
    BY <1>a, <1>c, <2>1 DEF HeldAccepted, SentAccepted
  <2>3. ASSUME NEW g \in Host PROVE Proved(g)'
    BY <1>a, <2>1, ProvedStays
  <2> QED
    BY <1>a, <1>b, <2>1, <2>2, <2>3
<1>8. ASSUME NEW h \in Host, Reconcile(h) \/ RetryReconcile(h) PROVE RInv'
  BY <1>2, <1>8, <1>a DEF Reconcile, RetryReconcile, SentAccepted
<1> QED
  BY <1>1, <1>3, <1>4, <1>5, <1>6, <1>7, <1>8 DEF Next

\* An acknowledged catalog is the one the other side has, entry for entry, and a
\* conflict tells of another: permissions by the snapshot in force, roles and
\* navigation by the digests that a bootstrap compares.  A navigation with locales
\* that trim alike is taken for one of its readings.
THEOREM ReceiptsAreProofs == Spec => []ReceiptsProveContent
<1>1. RInv => ReceiptsProveContent
  BY DEF RInv
<1>2. IInv => Typed
  BY DEF IInv
<1> QED
  BY InitIInv, NextIInv, InitRInv, NextRInv, <1>1, <1>2, PTL DEF Spec

=============================================================================
