\* Two requests of one call chain; two turns of an agent; one session; one review.
SPECIFICATION MCSpec
CONSTANTS
  r1 = r1
  r2 = r2
  Request = {r1, r2}
  Key = {"k"}
  Selector = {"a", "b"}
  Digest = {"d1", "d2", "d3", "error"}
  Submission <- SharedSubmissions
  Suggestion <- StagedSuggestions
  MaxCrashes = 0
  MaxFaults = 0
  MaxAudits = 5
  Turn = {r1, r2}
  Kinds = {"staged", "prompt", "chat", "resume"}
  MaxSessions = 2
  MaxStarts = 1
  MaxAgentFaults = 1
  Value = {"full", "ask"}
  Catalogs <- MCCatalogs
  Message = {"READY", "image", "tool"}
  MaxMessages = 2
  MaxTurns = 1
  Node = {"n1"}
  Surface = {"s1"}
  MaxToolRounds = 2
  MaxToolCalls = 2
  MaxDetailRepairs = 1
  MaxErrors = 1
SYMMETRY Symmetry
INVARIANTS
  TicketsAreSound
  AgentServesOneTurn
  SessionIsAsChecked
  ReviewSaysWhatHappened
CHECK_DEADLOCK FALSE
