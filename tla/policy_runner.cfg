SPECIFICATION RunSpec
CONSTANTS
  Ids <- MCIds
  Strip <- MCStrip
  Records = {"ra", "rb", "rc", "rd"}
  Callers = {"a", "b", "x"}
  Sessions = {"s1", "s2", "none", "bad_session!"}
  ValidSessions = {"s1", "s2"}
  Permissions <- MCPermissions
  WriteLimit = 3
  RetryLimit = 3
  Requests <- MCRequests
  MaxClock = 13
  ControlModels = {"prompt_only", "stateless_auth", "temporal_policy"}
  KnownCallers = {"a", "b"}
  Scenarios <- MCScenarios
  Catalog <- MCCatalog
  NoChange = "no_change"
  MaxSteps = 4
INVARIANTS RunTypeOK EvidenceAudits SummaryMatchesEvidence CatalogAsDeclared
PROPERTY TemporalRunsAreLabSteps
CHECK_DEADLOCK FALSE
