\* Updates at any moment of a request.
CONSTANTS
  r1 = r1
  None = None
  Empty = ""
  Words <- AllWords
  Requests <- OneRequest
  Tenants <- TwoTenants
  Apps <- TwoApps
  RuleSets <- Mixtures
  Contexts <- Visitors
SPECIFICATION Spec
INVARIANTS DecisionFits ServedIfAllowed
CHECK_DEADLOCK FALSE
