SPECIFICATION MiddlewareSpec
CONSTANTS
  bound = bound
  other = other
  alias = alias
  None = None
  Elsewhere = Elsewhere
  Workspace = {bound, other}
  Bound = bound
  Alias = {alias}
  Target <- AliasOfOther
  Misanswers = TRUE
  MaxIssued = 2
  Call = {request}
  Request = {request}
  Routes = {{"authenticate"}, {"permission"}, {"authenticate", "authenticated", "password"}, {"authenticate", "permission", "reauthorize"}}
  Ops = {"login", "otp", "exchange", "refresh", "logout", "register", "beginAssure", "assure", "subject", "service", "principal", "lookup", "current", "change", "access", "reauthorize", "totp", "reset", "callback", "beginLogin", "providers"}
INVARIANT RequestsTyped
PROPERTIES
  AnswersInScope
  ClosedWorkspacesUntouched
  GateHolds
