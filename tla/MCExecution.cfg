\* Three plans and two entries, one consumer at a time; one stop or kill, one fault; lines of
\* four words; two commands and two edits of two files; three retries and four lost answers.
SPECIFICATION SliceSpec
CONSTANTS
  Plan = {p1, p2, p3}
  MaxPlans = 2
  MaxRunning = 1
  MaxCrashes = 1
  MaxFaults = 1
  MaxWords = 4
  Path = {"p", "q"}
  File = {"f", "g"}
  NoPath = "none"
  MaxCommands = 2
  MaxEdits = 2
  Kind = {"run", "draft", "change"}
  RetryLimit = 3
  MaxRunFaults = 4
SYMMETRY Symmetry
INVARIANTS
  LaunchesAreApproved
  LimitsRespected
  RecordsAgree
  EvidenceHolds
  ExitTellsOutcome
PROPERTIES
  AnswerIsFinal
CHECK_DEADLOCK FALSE
