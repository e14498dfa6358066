SPECIFICATION Spec
CONSTANTS
  None = None
  Call = {c1, c2}
  MaxAttempts = 1
  FailureThreshold = 1
  OpenDuration = 1
  Outcomes = {"answered", "unavailable", "cancelled"}
INVARIANTS
  OneRecoveryProbe
