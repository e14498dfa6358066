\* Logins and refreshes of two tabs that share the refresh lock.
CONSTANTS
  tab1 = tab1
  tab2 = tab2
  call1 = call1
  call2 = call2
  None = None
  Tab = {tab1, tab2}
  Call = {call1, call2}
  Ops = {"login", "refresh"}
  MaxIssued = 2
  MaxOrphans = 1
  Locks = TRUE
  HostResolves = FALSE
SPECIFICATION FairSpec
INVARIANTS
  OneRefreshInFlight
PROPERTIES
  CallsFinish
