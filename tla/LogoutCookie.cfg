\* Logout behind a gateway whose host finds the workspace of a credential.
CONSTANTS
  tab1 = tab1
  tab2 = tab2
  call1 = call1
  call2 = call2
  None = None
  Tab = {tab1}
  Call = {call1}
  Ops = {"login", "logout"}
  MaxIssued = 1
  MaxOrphans = 0
  Locks = FALSE
  HostResolves = TRUE
SPECIFICATION Spec
INVARIANTS
  LogoutExpiresCookie
