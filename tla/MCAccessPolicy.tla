--------------------------- MODULE MCAccessPolicy ---------------------------
(***************************************************************************)
(* An instance of AccessPolicy: orders and their lines, records with a      *)
(* status and an owner that may be absent, and bundles of a few entries     *)
(* drawn from pools that cover each kind of entry and each kind of value.   *)
(***************************************************************************)
EXTENDS AccessPolicy, TLC

Scalar(x) == [kind |-> "scalar", items |-> <<x>>]
ListOf(s) == [kind |-> "list", items |-> s]
Subject(c) == [kind |-> "subject", items |-> <<c>>]
Claim(c) == [kind |-> "claim", items |-> <<c>>]

Leaf(f, op, v) == [ZeroPredicate EXCEPT !.fact = f, !.operator = op, !.value = v]
Not(p) == [ZeroPredicate EXCEPT !.not = <<p>>]
AllOf(s) == [ZeroPredicate EXCEPT !.all = s]
AnyOf(s) == [ZeroPredicate EXCEPT !.any = s]

IsOpen == Leaf("status", "eq", Scalar("open"))
NotOpen == Leaf("status", "neq", Scalar("open"))
InOrg == Leaf("owner", "in", Subject("org_scope_ids"))
NotInOrg == Leaf("owner", "not_in", Subject("org_scope_ids"))
OwnClaim == Leaf("owner", "eq", Claim("profile"))
HasOwner == Leaf("owner", "exists", Scalar("true"))
Lost == Leaf("owner", "exists", Scalar("perhaps"))
Unknown == Leaf("owner", "eq", Subject("nickname"))
NotNull == Leaf("owner", "neq", [kind |-> "nil", items |-> <<>>])
Related == [IsOpen EXCEPT !.path = <<TRUE, TRUE>>]
Opening == Leaf("status", "prefix", Scalar("op"))
Composite == AllOf(<<HasOwner, AnyOf(<<Opening, Not(OwnClaim)>>)>>)

Either == AnyOf(<<IsOpen, Unknown>>)
\* Those that list their parts the other way round.
Turned == {AllOf(<<AnyOf(<<Not(OwnClaim), Opening>>), HasOwner>>), AnyOf(<<Unknown, IsOpen>>)}

RECURSIVE Closure(_)
Closure(S) == LET more == UNION {Parts(p) : p \in S} IN IF more \subseteq S THEN S ELSE Closure(S \union more)
MCPredicate == Closure({ZeroPredicate, NotOpen, IsOpen, InOrg, NotInOrg, Lost, Unknown, Not(NotNull), Related, Not(IsOpen), Not(InOrg), Composite, Either} \union Turned)
MCPrefixes == {<<"open", "op">>}

G(r, a, e) == [resource |-> r, action |-> a, effect |-> e]
D(k, r, a, e, s, p) == [key |-> <<k>>, resource |-> r, action |-> a, effect |-> e,
                        scopes |-> s, predicate |-> p, audit |-> e = "deny"]
F(r, f, open, masked, rules) == [resource |-> r, field |-> f, read |-> "read" \in open, write |-> "write" \in open,
                                 export |-> "export" \in open, masked |-> masked, rules |-> rules]
NoMask == [type |-> "", lastN |-> 0]
R(k, n, acts, e, p, m) == [key |-> k, priority |-> n, actions |-> acts, effect |-> e, predicate |-> p, mask |-> m]
X(r, ref, ok) == [source |-> r, reference |-> ref, target |-> "line", display |-> {"name"}, allowed |-> ok]
E(r, m, fs) == [resource |-> r, mode |-> m, fields |-> fs]
U(k, r, a, f, p) == [key |-> k, resource |-> r, action |-> a, field |-> f, predicate |-> p]

MCResource == {"order", "line"}
MCAction == {"read", "approve", "export"}
MCField == {"note"}
MCRecord == {[status |-> "open", owner |-> "north"], [status |-> "shut", owner |-> "east"],
             [status |-> "open", owner |-> Absent], [status |-> Absent, owner |-> "north"]}
MCBusinessClaims == {<<>>, "profile" :> Scalar("north")}

MCScopeSet == {{<<"order", "read">>, <<"line", "approve">>}, {<<"order", "approve">>}}
MCGrant == {[resource |-> "line", action |-> "approve", fields |-> {"note"}, source |-> <<<<"order", "read">>>>],
            [resource |-> "order", action |-> "approve", fields |-> {}, source |-> <<<<"line", "approve">>>>],
            [resource |-> "order", action |-> "approve", fields |-> {"note"}, source |-> <<>>]}

Blank == [version |-> "current", revision |-> "r1", expiresAt |-> 1,
  subject |-> [id |-> Scalar("ann"), workspace_id |-> Scalar("w"), org_id |-> Scalar("north"),
               support_org_id |-> Scalar("south"), org_scope_ids |-> ListOf(<<"north">>),
               support_org_scope_ids |-> ListOf(<<>>), reporting_scope_user_ids |-> ListOf(<<>>)],
  functionGrants |-> <<>>, dataPolicies |-> <<>>, fieldPolicies |-> <<>>,
  referencePolicies |-> <<>>, exportPolicies |-> <<>>, guardrails |-> <<>>]

GrantLists == <<<<G("order", "read", "allow")>>,
               <<G("order", "read", "allow"), G("order", "approve", "allow"), G("line", "approve", "allow")>>,
               <<G("order", "read", "allow"), G("order", "read", "deny")>>,
               <<G("*", "read", "allow")>>>>
DataPool == <<D("all", "order", "read", "allow", {"all"}, ZeroPredicate),
              D("open", "order", "read", "allow", {}, Not(IsOpen)),
              D("org", "order", "read", "allow", {"org"}, Composite),
              D("hold", "order", "read", "deny", {}, Not(InOrg)),
              D("own", "line", "approve", "allow", {"owner"}, OwnClaim),
              D("shut", "line", "approve", "deny", {}, NotOpen),
              D("own", "order", "approve", "allow", {}, NotInOrg),
              D("path", "order", "read", "deny", {}, Related),
              D("odd", "order", "read", "allow", {}, Either),
              D("null", "order", "read", "deny", {}, Not(NotNull))>>
FieldPool == <<F("order", "note", {}, FALSE, <<>>),
               F("order", "*", {"read", "export"}, TRUE, <<>>),
               F("*", "note", {"read"}, FALSE,
                 <<R("low", 1, {"read", "write"}, "allow", <<IsOpen>>, NoMask),
                   R("high", 2, {"*"}, "mask", <<InOrg>>, [type |-> "last_n", lastN |-> 4])>>)>>
ReferencePool == <<X("order", "ship", TRUE), X("*", "ship", FALSE)>>
ExportPool == <<E("order", "allow_list", {"note"}), E("*", "deny", {})>>
GuardrailPool == <<U("frozen", "order", "*", "", <<Opening>>), U("secret", "order", "read", "note", <<IsOpen>>),
                   U("ship", "*", "read", "ship", <<>>), U("lost", "order", "read", "", <<Lost>>)>>

Some2(pool) == {[i \in S |-> pool[i]] : S \in {T \in SUBSET DOMAIN pool : Cardinality(T) <= 2}}
Some1(pool) == {[i \in S |-> pool[i]] : S \in {T \in SUBSET DOMAIN pool : Cardinality(T) <= 1}}

\* Records: what data policies and guardrails make of them.
Full == GrantLists[2]
RecordBundles ==
  {[Blank EXCEPT !.functionGrants = Full, !.dataPolicies = d] : d \in Some2(DataPool)}
GuardedBundles ==
  {[Blank EXCEPT !.functionGrants = Full, !.dataPolicies = d, !.guardrails = u] :
     d \in Some1(SubSeq(DataPool, 1, 5)), u \in Some1(GuardrailPool)}
GrantBundles ==
  {[Blank EXCEPT !.functionGrants = g, !.dataPolicies = d] : g \in Range(GrantLists), d \in Some1(SubSeq(DataPool, 1, 3))}
\* Fields, references and exports beside a readable record.
Readable == [Blank EXCEPT !.functionGrants = Full, !.dataPolicies = <<DataPool[1]>>]
FieldBundles ==
  {[Readable EXCEPT !.fieldPolicies = f, !.guardrails = u] : f \in Some2(FieldPool), u \in Some1(GuardrailPool)}
ListingBundles ==
  {[Readable EXCEPT !.fieldPolicies = <<FieldPool[2]>>, !.referencePolicies = x, !.exportPolicies = e, !.guardrails = u] :
     x \in Some2(ReferencePool), e \in Some2(ExportPool), u \in {<<>>, <<GuardrailPool[3]>>}}
\* One policy has the key that a projection of the deny, or of the allow, would have.
Taker(k, r, a, e) == [D(k, r, a, e, {}, NotInOrg) EXCEPT !.key = <<k, "line", "approve">>]
TakenBundles ==
  {[Blank EXCEPT !.functionGrants = Full,
                 !.dataPolicies = <<D("open", "order", "read", "allow", {}, IsOpen),
                                    D("hold", "order", "read", "deny", {}, InOrg),
                                    Taker(k, pair[1], pair[2], e)>>] :
     k \in {"open", "hold"}, pair \in {<<"line", "approve">>, <<"order", "approve">>}, e \in Effects}
MCIssuedBundle == RecordBundles \union GuardedBundles \union GrantBundles \union FieldBundles \union ListingBundles \union TakenBundles

\* A credential without the write scope, over a hidden field of a readable order.
ScopedFieldBundles == {[Readable EXCEPT !.fieldPolicies = f] : f \in Some2(FieldPool)}
\* Open orders may be read, those owned in the north may not.
HeldBundles ==
  {[Blank EXCEPT !.functionGrants = Full,
                 !.dataPolicies = <<D("open", "order", "read", "allow", {}, IsOpen),
                                    D("held", "order", "read", "deny", {}, InOrg)>>]}

=============================================================================
