SPECIFICATION Spec
CONSTANTS
  Predicate <- MCPredicate
  Prefixes <- MCPrefixes
  Columns = {"status", "owner"}
  IssuedBundle <- HeldBundles
  ScopeSet <- MCScopeSet
  Grant <- MCGrant
  Resource <- MCResource
  Action <- MCAction
  Field <- MCField
  Record <- MCRecord
  BusinessClaims <- MCBusinessClaims
  MaxTime = 1
  MaxSteps = 2
INVARIANTS
  MissingFactsFailClosed
CHECK_DEADLOCK FALSE
