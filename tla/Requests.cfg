\* One tab without the Web Locks API and every operation, behind a gateway whose host
\* finds the workspace of a credential.
CONSTANTS
  tab1 = tab1
  tab2 = tab2
  call1 = call1
  call2 = call2
  None = None
  Tab = {tab1}
  Call = {call1, call2}
  Ops = {"login", "refresh", "logout", "change", "fetch"}
  MaxIssued = 2
  MaxOrphans = 1
  Locks = FALSE
  HostResolves = TRUE
SPECIFICATION Spec
SYMMETRY Symmetry
INVARIANTS
  TypeOK
  ReuseOnlyAfterLoss
  SpentCookieAwaitsAnswer
PROPERTIES
  LiveCookieDroppedForCause
