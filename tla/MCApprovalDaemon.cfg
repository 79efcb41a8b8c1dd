\* One request; two stops or kills, two faults.
SPECIFICATION FairSpec
CONSTANTS
  r1 = r1
  r2 = r2
  Request = {r1}
  Key = {"k"}
  Selector = {"a", "b"}
  Digest = {"d1", "d2", "d3", "error"}
  Submission <- DaemonSubmissions
  Suggestion <- StagedSuggestions
  MaxCrashes = 2
  MaxFaults = 2
  MaxAudits = 6
INVARIANTS
  OperationAgrees
  ApprovalsAreSupported
  HiddenRequestIsOwned
PROPERTIES
  ResolvedIsImmutable
  ImplementsOutcome
  HiddenEventuallySurfaces
CHECK_DEADLOCK FALSE
