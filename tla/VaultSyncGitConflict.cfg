\* Two devices whose checkouts were made before either published; nothing fails.
SPECIFICATION Spec
CONSTANTS
  Device = {a, b}
  Edit = {e1, e2}
  NoVault = none
  Kind = "git"
  Direction = {"sync"}
  MaxVersion = 2
  MaxFaults = 0
INVARIANTS
  ConflictMeansRaced
CHECK_DEADLOCK FALSE
