\* Two change sets, secrets, values and commands; a fault, a write by another program,
\* an approval.
SPECIFICATION MCSpec
CONSTANTS
  set1 = set1
  set2 = set2
  set3 = set3
  drop1 = drop1
  drop2 = drop2
  f1 = f1
  f2 = f2
  p1 = p1
  p2 = p2
  b1 = b1
  Change = {c1, c2}
  Operation = {set1, set2, set3, drop1}
  Field = {f1, f2}
  Policy = {p1, p2}
  Batch = {b1}
  Target <- MCTarget
  Setting <- MCSetting
  MaxEdits = 1
  MaxApprovals = 1
  MaxFaults = 1
  Resource = {"r1", "r2"}
  Locator = {"l1"}
  Item = {"i1"}
  Label = {"a", "b"}
  ItemPolicy = {"direct"}
  Default = "strict"
  OwnLabel <- MCOwnLabel
  MaxSteps = 4
  Value = {"v", "w"}
  Draft = {c1, c2}
  Local = {"l"}
  External = {"x"}
  Job = {"j1", "j2"}
  MaxStoreFaults = 1
  Credential = {"i1", "i2", "i3"}
  Key = {c1, c2}
  Foreign = "foreign"
  Careful = TRUE
  MaxMishaps = 2
SYMMETRY Symmetry
INVARIANTS
  ConfirmationIsExact
  OperationsCanBeFound
  OneHome
  SavedValuesSurvive
PROPERTIES
  CommitsOverwriteNothing
  EditsKeepTheRest
CHECK_DEADLOCK FALSE
