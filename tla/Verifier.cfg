SPECIFICATION FairSpec
CONSTANTS
  None = None
  KeyId = {k1, k2}
  Call = {c1, c2}
  TTL = 1
  MaxTime = 2
PROPERTIES
  VerifyReturns
INVARIANTS
 TypeOK
 UnlistedKeyOnlyBesideRefresh
 FetchesOnlyWhenStale
