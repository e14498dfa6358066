SPECIFICATION FairSpec
CONSTANTS
  None = None
  Call = {c1, c2}
  MaxAttempts = 2
  FailureThreshold = 2
  OpenDuration = 1
  Outcomes = {"answered", "throttled", "unavailable", "cancelled"}
INVARIANTS
  TypeOK
  ReplayOnlySafeRequests
  OpensOnlyOnStreak
  ProbeIsRunning
PROPERTIES
  ProbesArePaced
  OffersProbe
  CallsReturn
