SPECIFICATION Spec
CONSTANTS
  Predicate <- MCPredicate
  Prefixes <- MCPrefixes
  Columns = {"status", "owner"}
  IssuedBundle <- ScopedFieldBundles
  ScopeSet <- MCScopeSet
  Grant <- MCGrant
  Resource <- MCResource
  Action <- MCAction
  Field <- MCField
  Record <- MCRecord
  BusinessClaims <- MCBusinessClaims
  MaxTime = 1
  MaxSteps = 2
PROPERTIES
  RestrictionNarrowsFields
CHECK_DEADLOCK FALSE
