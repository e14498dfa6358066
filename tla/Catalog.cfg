SPECIFICATION Spec
CONSTANTS
  h1 = h1
  h2 = h2
  Host <- MCHost
  Bare <- MCBare
  LowerCase <- MCLowerCase
  Policy <- MCPolicy
  MaxDepth = 2
  MaxNodes = 4
  Dotted <- MCDotted
  Keys <- MCKeys
  Json <- MCJson
  Predicate <- MCPredicate
  Prefixes = {}
  Columns = {}
  Definitions <- MCDefinitions
  Catalogs <- MCCatalogs
  Navigations <- MCNavigations
  Records <- MCRecords
  Subject <- MCSubject
  MaxAttempts = 2
INVARIANTS
  ReceiptsProveContent
  RetriesAcknowledged
  PoliciesMeanWhatTheySay
CHECK_DEADLOCK FALSE
