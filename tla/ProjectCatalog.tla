--------------------------- MODULE ProjectCatalog ---------------------------
(***************************************************************************)
(* The catalogs an application publishes to Identity: its permissions, its *)
(* roles with the data policies they grant, its navigation (permissions.go,*)
(* project_roles.go, workspace_bootstrap_catalog.go, project_navigation.go *)
(* of package authorization).  Each is validated, brought into a canonical *)
(* form and hashed; a digest is modelled by what is hashed.                *)
(*                                                                         *)
(* Texts are opaque; Bare and LowerCase are what strings.TrimSpace and     *)
(* strings.ToLower do to those that are not already trimmed or lower case. *)
(* A list that the code sorts is Ordered: its order is one and the same    *)
(* for every arrangement of its elements.                                  *)
(***************************************************************************)
EXTENDS PolicyLanguage

CONSTANTS
  Bare,       \* the trimmed form of the texts with spaces around them
  LowerCase,  \* the lower case form of the texts that have another
  Policy,     \* the data policies of the instance, with all their parts
  MaxDepth,   \* the depth of a data policy, 8 in the code
  MaxNodes,   \* the number of its nodes, 64 in the code
  Dotted,     \* the triples <<key, resource, operation>> with key = resource.operation
  Keys,       \* the texts that match projectNavigationKeyPattern
  Json        \* for the texts that are JSON, what their value is encoded to again

Trim(text) == IF text \in DOMAIN Bare THEN Bare[text] ELSE text
Lower(text) == IF text \in DOMAIN LowerCase THEN LowerCase[text] ELSE text

\* What is trimmed, or in lower case, stays so.
ASSUME TextAssumption ==
  /\ \A text \in DOMAIN Bare : Bare[text] \notin DOMAIN Bare
  /\ \A text \in DOMAIN LowerCase :
       /\ LowerCase[text] \notin DOMAIN LowerCase
       /\ text \notin DOMAIN Bare => LowerCase[text] \notin DOMAIN Bare

\* canonicalWorkspaceBootstrapJSON: two texts have one form when they decode to
\* one value, in which keys have no order, the last of equal keys stands and a
\* number is the nearest of 64 bits.
CanonicalJSON(raw) == IF raw = "" THEN "" ELSE Json[raw]
Decodes(raw) == raw = "" \/ raw \in DOMAIN Json

\* No two entries of the list have the same name.
Distinct(list, Name(_)) == \A i, j \in DOMAIN list : Name(list[i]) = Name(list[j]) => i = j

Each(list, F(_)) == [i \in DOMAIN list |-> F(list[i])]

-----------------------------------------------------------------------------
(* Data policies: [operator, field, claim, path, children], path telling of *)
(* each relation segment whether it is well formed.                        *)

ScalarClaims == {"id", "workspace_id", "org_id", "support_org_id"}
CollectionClaims == {"org_scope_ids", "support_org_scope_ids", "reporting_scope_user_ids"}

OperatorOf(p) == Lower(Trim(p.operator))

Nodes[p \in Policy] ==
  LET count[n \in 0..Len(p.children)] ==
        IF n = 0 THEN 1 ELSE count[n - 1] + Nodes[p.children[n]]
  IN count[Len(p.children)]

\* A policy is a finite tree: every part has fewer nodes than the whole.
ASSUME PolicyAssumption ==
  \A p \in Policy :
    /\ DOMAIN p = {"operator", "field", "claim", "path", "children"}
    /\ p.children \in Seq(Policy)
    /\ Nodes[p] \in Nat
    /\ \A q \in Range(p.children) : Nodes[q] < Nodes[p]

\* Is no part of the policy deeper than MaxDepth, the policy being at depth d.
Within[p \in Policy, d \in 0..MaxDepth] ==
  \A q \in Range(p.children) : d < MaxDepth /\ Within[q, d + 1]

\* A branch has children only, a leaf compares a field with a claim of its kind.
WellFormedPolicy(p) ==
  \/ /\ OperatorOf(p) \in {"and", "or", "not"}
     /\ IF OperatorOf(p) = "not" THEN Len(p.children) = 1 ELSE Len(p.children) >= 2
     /\ p.path = <<>> /\ Trim(p.field) = "" /\ Trim(p.claim) = ""
  \/ /\ OperatorOf(p) \in {"eq", "in"}
     /\ p.children = <<>> /\ Trim(p.field) # "" /\ Len(p.path) <= 3
     /\ \A i \in DOMAIN p.path : p.path[i]
     /\ Trim(p.claim) \in IF OperatorOf(p) = "eq" THEN ScalarClaims ELSE CollectionClaims

AllWellFormed[p \in Policy] ==
  WellFormedPolicy(p) /\ \A q \in Range(p.children) : AllWellFormed[q]

\* ProjectDataPolicy.Validate.
PolicyAccepted(p) == AllWellFormed[p] /\ Within[p, 0] /\ Nodes[p] <= MaxNodes

\* A leaf's operator is compared untrimmed.
CompiledLeaf(p) ==
  [ZeroPredicate EXCEPT
     !.fact = Trim(p.field), !.path = p.path,
     !.operator = IF Lower(p.operator) = "in" THEN "in" ELSE "eq",
     !.value = [kind |-> "subject", items |-> <<Trim(p.claim)>>]]

\* Mutant: a negation is compiled to what it negates.
CompiledPositive(policy) ==
  LET compiled[p \in Policy] ==
        LET parts == Each(p.children, LAMBDA q : compiled[q]) IN
        CASE OperatorOf(p) = "and" -> [ZeroPredicate EXCEPT !.all = parts]
          [] OperatorOf(p) = "or" -> [ZeroPredicate EXCEPT !.any = parts]
          [] OperatorOf(p) = "not" -> parts[1]
          [] OTHER -> CompiledLeaf(p)
  IN compiled[policy]

\* compileProjectDataPolicy.
Compiled(policy) ==
  LET compiled[p \in Policy] ==
        LET parts == Each(p.children, LAMBDA q : compiled[q]) IN
        CASE OperatorOf(p) = "and" -> [ZeroPredicate EXCEPT !.all = parts]
          [] OperatorOf(p) = "or" -> [ZeroPredicate EXCEPT !.any = parts]
          [] OperatorOf(p) = "not" -> [ZeroPredicate EXCEPT !.not = parts]
          [] OTHER -> CompiledLeaf(p)
  IN compiled[policy]

\* canonicalProjectDataPolicy.
CanonicalPolicy(policy) ==
  LET canonical[p \in Policy] ==
        LET parts == Each(p.children, LAMBDA q : canonical[q]) IN
        [p EXCEPT !.operator = OperatorOf(p), !.field = Trim(@), !.claim = Trim(@),
                  !.children = IF OperatorOf(p) \in {"and", "or"} THEN Ordered(parts) ELSE parts]
  IN canonical[policy]

-----------------------------------------------------------------------------
(* Permission definitions: [key, resource, operation, text], text standing  *)
(* for the label, the category, the source kind and the description, and    *)
(* blank if one of the first three is.                                      *)

BareDefinition(d) ==
  [key |-> Trim(d.key), resource |-> Trim(d.resource), operation |-> Trim(d.operation), text |-> Trim(d.text)]

DefinitionsAccepted(list) ==
  /\ \A i \in DOMAIN list :
       LET d == BareDefinition(list[i]) IN
       /\ "" \notin {d.key, d.resource, d.operation, d.text}
       /\ <<d.key, d.resource, d.operation>> \in Dotted
  /\ Distinct(list, LAMBDA d : Trim(d.key))

\* PermissionSnapshotHash.
SnapshotHash(list) == Ordered(Each(list, BareDefinition))

-----------------------------------------------------------------------------
(* Roles: [key, name, audience, mode, binding, grants, related, rules,      *)
(* provision]; related stands for the lists of keys of other roles and sets,*)
(* rules for the raw JSON collections.                                     *)

Scopes == {"all", "owner", "org", "org_child", "target_org"}

\* ProjectRolePermission.Validate: a grant has a data scope or a data policy.
GrantAccepted(g) ==
  /\ Trim(g.key) # ""
  /\ \/ g.policy = <<>> /\ g.scope \in Scopes
     \/ g.policy # <<>> /\ g.scope = "" /\ PolicyAccepted(g.policy[1])

Default(text, default) == IF Trim(text) = "" THEN default ELSE Trim(text)

NormalGrant(g) == [g EXCEPT !.key = Trim(@), !.policy = Each(@, CanonicalPolicy)]

\* Mutant: the grants of a role stay in the order they were written in.
NormalRoleInOrder(r) ==
  [r EXCEPT !.key = Trim(@), !.name = Trim(@), !.binding = Trim(@), !.rules = CanonicalJSON(@),
            !.audience = Default(@, "any"), !.mode = Default(@, "manual"),
            !.related = Ordered(Each(@, Trim)),
            !.grants = Each(@, NormalGrant)]

\* normalizeWorkspaceBootstrapRoleDefinition.
NormalRole(r) ==
  [r EXCEPT !.key = Trim(@), !.name = Trim(@), !.binding = Trim(@), !.rules = CanonicalJSON(@),
            !.audience = Default(@, "any"), !.mode = Default(@, "manual"),
            !.related = Ordered(Each(@, Trim)),
            !.grants = Ordered(Each(@, NormalGrant))]

RoleAccepted(r) ==
  /\ Trim(r.key) # "" /\ Trim(r.name) # ""
  /\ \A i \in DOMAIN r.grants : GrantAccepted(r.grants[i])
  /\ Distinct(r.grants, LAMBDA g : Trim(g.key))
  /\ Decodes(r.rules)

\* workspaceBootstrapProvisionableHumanRole, workspaceBootstrapInitialAdministratorRole.
ForHumans(r) == r.audience \in {"any", "user", "business_profile"} /\ r.mode \in {"manual", "request_only"}
ForAdministrator(r) == r.audience \in {"any", "user"} /\ r.mode = "manual" /\ r.binding = ""

\* The roles that workspaces get, normalised, in some order: the hash sorts them.
Provisioned(roles) ==
  LET selected == {i \in DOMAIN roles : roles[i].provision}
      order == CHOOSE f \in Bijection(1..Cardinality(selected), selected) : TRUE
  IN [n \in DOMAIN order |-> NormalRole(roles[order[n]])]

RolesAccepted(roles, administrator) ==
  /\ \A i \in DOMAIN roles : RoleAccepted(roles[i])
  /\ Distinct(roles, LAMBDA r : Trim(r.key))
  /\ \A r \in Range(Provisioned(roles)) : ForHumans(r)
  /\ Trim(administrator) # ""
  /\ \E r \in Range(Provisioned(roles)) : r.key = Trim(administrator) /\ ForAdministrator(r)

\* WorkspaceBootstrapProjectRoleCatalogSHA256.
RolesHash(roles, administrator) == <<Ordered(Provisioned(roles)), Trim(administrator)>>

-----------------------------------------------------------------------------
(* Navigation: menus [key, labels, look, parent, order] and the menus of a  *)
(* role, [role, menus].  labels is a map, the set of its pairs of a locale   *)
(* and a text, look stands for the description, the route and the icon.     *)

\* The pairs of a map that its normal form keeps.  Those with a blank are
\* dropped.  Locales that trim alike overwrite one another, and which of them
\* stands is up to the iteration over the map.
KeptLabels(labels) ==
  LET whole == {l \in labels : Trim(l[1]) # "" /\ Trim(l[2]) # ""}
      Alike(l, m) == Trim(l[1]) = Trim(m[1]) IN
  {kept \in SUBSET whole :
     /\ \A l \in whole : \E m \in kept : Alike(l, m)
     /\ \A l, m \in kept : Alike(l, m) => l = m}

\* The menus, each with labels its normal form may keep.
MenuReadings(menus) ==
  LET Read(m) == {[m EXCEPT !.labels = kept] : kept \in KeptLabels(m.labels)} IN
  {read \in [DOMAIN menus -> UNION {Read(m) : m \in Range(menus)}] :
     \A i \in DOMAIN menus : read[i] \in Read(menus[i])}

\* What follows is about menus that are read so.
BareLabels(kept) == {<<Trim(l[1]), Trim(l[2])>> : l \in kept}

BareMenu(m) == [m EXCEPT !.key = Trim(@), !.labels = BareLabels(@), !.look = Trim(@), !.parent = Trim(@)]

BareSet(s) == [role |-> Trim(s.role), menus |-> {Trim(k) : k \in Range(s.menus)}]

\* The walk from menu i up its parents ends before it visits a menu twice.
Rooted(menus, i) ==
  LET up[n \in 0..Len(menus)] ==
        IF n = 0 THEN {menus[i].key}
        ELSE {menus[j].parent : j \in {k \in DOMAIN menus : menus[k].key \in up[n - 1]}}
  IN up[Len(menus)] \subseteq {""}

\* NormalizeProjectNavigationCatalog.
NavigationAccepted(written, sets) ==
  LET menus == Each(written, BareMenu)
      known == {m.key : m \in Range(menus)} IN
  /\ \A m \in Range(menus) :
       /\ m.key \in Keys /\ m.labels # {}
       /\ m.parent # "" => m.parent \in known \ {m.key}
  /\ Distinct(menus, LAMBDA m : m.key)
  /\ \A i \in DOMAIN menus : Rooted(menus, i)
  /\ \A s \in Range(Each(sets, BareSet)) : s.role \in Keys /\ s.menus \subseteq known
  /\ Distinct(sets, LAMBDA s : Trim(s.role))

\* ProjectNavigationCatalogSHA256.
NavigationHash(menus, sets) == <<Ordered(Each(menus, BareMenu)), Ordered(Each(sets, BareSet))>>

=============================================================================
