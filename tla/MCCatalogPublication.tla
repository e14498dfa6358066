------------------------ MODULE MCCatalogPublication ------------------------
(* Two hosts.  Each catalog of the pools is written in several ways, some of *)
(* them with the same content, and some are not accepted.                   *)
EXTENDS CatalogPublication

CONSTANTS h1, h2

MCHost == {h1, h2}
MCBare == [t \in {" a.read", " admin", " home", " en", " in ", " owner ", " "} |->
             CASE t = " a.read" -> "a.read" [] t = " admin" -> "admin" [] t = " home" -> "home" [] t = " en" -> "en"
               [] t = " in " -> "in" [] t = " owner " -> "owner" [] t = " " -> ""]
MCLowerCase == [t \in {"EQ"} |-> "eq"]
\* A document in two spellings; "malformed" is none.
MCJson == [t \in {"{}", "{ }"} |-> "{}"]
MCKeys == {"home", "list", "admin"}

\* An entry of a pool alone, and beside a given one in both orders.
Lists(S, given) == {<<>>} \union UNION {{<<e>>, <<e, given>>, <<given, e>>} : e \in S}

\* Permission definitions: a.b.read can be split in two ways.
Definition(key, resource, operation, text) ==
  [key |-> key, resource |-> resource, operation |-> operation, text |-> text]
MCDotted == {<<"a.read", "a", "read">>, <<"a.b.read", "a", "b.read">>, <<"a.b.read", "a.b", "read">>}
Read == Definition("a.read", "a", "read", "Read")
Nested == Definition("a.b.read", "a", "b.read", "Read")
MCDefinitions ==
  {<<>>, <<Read, Nested>>, <<Nested, [Read EXCEPT !.key = " a.read"]>>,
   <<Read, [Nested EXCEPT !.resource = "a.b", !.operation = "read"]>>,
   <<Nested, [Nested EXCEPT !.resource = "a.b", !.operation = "read"]>>, <<[Read EXCEPT !.text = " "]>>}

\* Data policies, closed under parts and canonical forms.
Leaf(operator, field, claim) ==
  [operator |-> operator, field |-> field, claim |-> claim, path |-> <<>>, children |-> <<>>]
Branch(operator, children) ==
  [operator |-> operator, field |-> "", claim |-> "", path |-> <<>>, children |-> children]
OwnerIs == Leaf("eq", "owner", "id")
OrgIn == Leaf("in", "org", "org_scope_ids")
Leaves == {OwnerIs, Leaf("EQ", " owner ", "id"), OrgIn, Leaf(" in ", "org", "org_scope_ids"),
           Leaf("eq", "org", "org_scope_ids"), [OwnerIs EXCEPT !.path = <<TRUE>>], [OwnerIs EXCEPT !.path = <<FALSE>>]}
Pairs == {Branch(o, <<p, OrgIn>>) : o \in {"and", "or"}, p \in Leaves}
           \union {Branch(o, <<OrgIn, p>>) : o \in {"and", "or"}, p \in Leaves}
Both == {Branch(o, l) : o \in {"and", "or"}, l \in {<<OwnerIs, OrgIn>>, <<OrgIn, OwnerIs>>}}
Deep == Branch("not", <<Branch("not", <<Branch("not", <<OwnerIs>>)>>)>>)
MCPolicy ==
  Leaves \union Pairs \union {Branch("not", <<p>>) : p \in Leaves \union Both}
    \union {Branch("or", <<OwnerIs>>), Branch("not", <<Branch("not", <<OwnerIs>>)>>), Deep}
    \union {Branch("or", <<OwnerIs, OwnerIs, OrgIn, OrgIn>>)}
MCPredicate == {ZeroPredicate} \union {Compiled(p) : p \in MCPolicy}
MCRecords ==
  {[f \in {"owner", "org"} |-> IF f = "owner" THEN v[1] ELSE v[2]] :
     v \in {<<"u", "o">>, <<"u", "x">>, <<"x", "u">>, <<Absent, Absent>>}}
MCSubject == [c \in ScalarClaims \union CollectionClaims |->
                IF c \in ScalarClaims THEN [kind |-> "scalar", items |-> <<"u">>] ELSE [kind |-> "list", items |-> <<"o", "u">>]]

\* Roles: the administrator in three spellings and with a narrower grant, a
\* role for people, one nobody is given, one for services, one that is broken; roles
\* with one data policy, and one with them all.
Grant(key, scope, policy) == [key |-> key, scope |-> scope, policy |-> policy, audit |-> FALSE]
Any1 == Grant("a.read", "all", <<>>)
Own1 == Grant("a.b.read", "", <<Branch("or", <<OwnerIs, OrgIn>>)>>)
Role(key, grants) ==
  [key |-> key, name |-> "Name", audience |-> "any", mode |-> "manual", binding |-> "", grants |-> grants,
   related |-> <<"x", "y">>, rules |-> "{}", provision |-> TRUE]
Administrator == Role("admin", <<Any1, Own1>>)
RolePool ==
  {Administrator,
   [Administrator EXCEPT !.key = " admin", !.audience = " ", !.related = <<"y", "x">>, !.rules = "{ }",
      !.grants = <<[Own1 EXCEPT !.policy = <<Branch("or", <<OrgIn, Leaf("EQ", " owner ", "id")>>)>>], Any1>>],
   Role("admin", <<Any1, Any1>>),
   Role("admin", <<Any1, [Own1 EXCEPT !.scope = "owner", !.policy = <<>>]>>),
   [Role("reader", <<Any1>>) EXCEPT !.mode = "request_only"],
   [Role("reader", <<Any1>>) EXCEPT !.provision = FALSE, !.audience = "service"],
   [Role("reader", <<Any1>>) EXCEPT !.audience = "service"],
   [Role("reader", <<Any1>>) EXCEPT !.rules = "malformed"]}
Every == MapThenFoldSet(LAMBDA s, t : s \o t, <<>>, LAMBDA p : <<Grant("a.read", "", <<p>>)>>,
                        LAMBDA S : CHOOSE p \in S : TRUE, MCPolicy)
MCCatalogs ==
  [roles : Lists(RolePool, Administrator), administrator : {"admin"}]
    \union [roles : {<<Administrator, r>> : r \in RolePool}, administrator : {"reader"}]
    \union [roles : {<<Role("admin", <<Grant("a.read", "", <<p>>)>>)>> :
                       p \in Both \union {Branch("not", <<OwnerIs>>), Deep}},
             administrator : {"admin"}]
    \union [roles : {<<Role("admin", Every)>>},
             administrator : {"admin"}]

\* Menus and the menus of a role, with a cycle, an unknown parent, a locale
\* without a text and two locales that trim alike.
Menu(key, parent) == [key |-> key, labels |-> {<<"en", "Label">>}, look |-> "icon", parent |-> parent, order |-> 1]
MenuPool ==
  {Menu("home", ""), [Menu("home", "") EXCEPT !.labels = @ \union {<<" en", "Other">>}],
   [Menu(" home", " ") EXCEPT !.labels = @ \union {<<"de", " ">>}], Menu("home", "list"),
   Menu("list", "home"), Menu("list", ""), [Menu("list", "") EXCEPT !.labels = {<<" ", "Label">>}], Menu("Home", "")}
MenuSet(role, menus) == [role |-> role, menus |-> menus]
MCNavigations ==
  [menus : Lists(MenuPool, Menu("home", "")),
   sets : {<<>>, <<MenuSet("admin", <<"home">>)>>, <<MenuSet(" admin", <<" home", "home">>)>>,
           <<MenuSet("admin", <<"list", "home">>)>>}]

=============================================================================
