SPECIFICATION Spec
CONSTANTS
  alice = alice
  old = old
  new = new
  jti = jti
  None = None
  Account = {alice}
  Token = {old, new}
  TokenId = {jti}
  Claims <- RevisionClaims
  Issued <- AllIssuedAtZero
  Call = {c1, c2}
  MaxTTL = 1
  Lifetime = {2}
  CacheFaults = {"unavailable", "misread"}
  MaxTime = 2
  MaxRevision <- AliceChangesOnce
INVARIANTS
  TypeOK
  EndedSessionNeverGranted
  GrantsOwnPrincipal
  GrantsBoundedSnapshot
  CacheWithinLimits
  AuthorizationChangeTakesEffect
SYMMETRY CallSymmetry
CHECK_DEADLOCK FALSE
