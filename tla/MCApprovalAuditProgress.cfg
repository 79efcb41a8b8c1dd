\* One failed store call during enrichment.
SPECIFICATION Spec
CONSTANTS
  r1 = r1
  r2 = r2
  Request = {r1}
  Key = {"k"}
  Selector = {"a", "b"}
  Digest = {"d1", "d2", "d3", "error"}
  Submission <- DaemonSubmissions
  Suggestion <- StagedSuggestions
  MaxCrashes = 0
  MaxFaults = 1
  MaxAudits = 5
INVARIANTS
  AuditFailureIsVisible
CHECK_DEADLOCK FALSE
