\* Two of everything that comes in numbers; one or two faults per component.
SPECIFICATION MCSpec
CONSTANTS
  Call = {a, b}
  Pid = {"p1", "p2", "p3"}
  NoPid = none
  Foreign = "foreign"
  MaxRestarts = 1
  Chat = {a, b}
  Handler = {"h1", "h2"}
  NoHandler = "none"
  LateFailures = FALSE
  MaxTurns = 3
  Process = {"p1", "p2", "p3"}
  NoProcess = "none"
  MaxHostFaults = 2
  LinkKind = {"draft", "details", "request"}
  Id = {a, b}
  NoId = "none"
  ReloadsMidTake = FALSE
  MaxLinks = 2
  Change = {a, b}
  NoChange = "none"
  Resolver = {"monitor", "page"}
  Op = {"cli", "cli2", "own"}
  Covered = {"cli", "own"}
  Own = {"own"}
  Request = {a, b}
  Explicit = {"decide", "handoff", "button"}
  MaxFetches = 4
  Device = {a, b}
  Edit = {"e1", "e2"}
  NoVault = none
  RemoteKind = "folder"
  Direction = {"sync", "push", "pull"}
  MaxVersion = 3
  Connection = {a, b}
  Branch = {"main", "vault"}
  Default = "main"
  MaxCommits = 3
  MaxFaults = 1
SYMMETRY Symmetry
INVARIANTS
  BackendsContained
  TurnOwnsConversation
  OneDaemonExitsCleanly
  PageShowsTheLatest
  CommittedIsReviewed
  PublishedIsKept
PROPERTIES
  SavedEditsStay
CHECK_DEADLOCK FALSE
