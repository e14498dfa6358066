SPECIFICATION Spec
CONSTANTS
  Predicate <- MCPredicate
  Prefixes <- MCPrefixes
  Columns = {"status", "owner"}
  IssuedBundle <- MCIssuedBundle
  ScopeSet <- MCScopeSet
  Grant <- MCGrant
  Resource <- MCResource
  Action <- MCAction
  Field <- MCField
  Record <- MCRecord
  BusinessClaims <- MCBusinessClaims
  MaxTime = 1
  MaxSteps = 2
INVARIANTS
  TypeOK
  AllowedPassesEveryLayer
  PermissionIsNecessary
  SelectedOnlyIfAllowed
  ExactOnCompleteRecords
  StaticFieldIsStatic
  OrderDecidesNothing
  VisibleOnlyThroughScopes
PROPERTIES
  ExecutionWidensOnlyDeclared
  RestrictionNarrowsRecords
CHECK_DEADLOCK FALSE
