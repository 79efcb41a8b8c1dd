\* Two devices, two edits, one of which is made while its device synchronises.
SPECIFICATION Spec
CONSTANTS
  Device = {a, b}
  Edit = {e1, e2}
  NoVault = none
  Kind = "folder"
  Direction = {"sync"}
  MaxVersion = 2
  MaxFaults = 0
PROPERTIES
  RunsPreserveEdits
CHECK_DEADLOCK FALSE
