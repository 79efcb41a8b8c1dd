\* Two change sets without faults: a resolved successor is appended to.
SPECIFICATION Spec
CONSTANTS
  set1 = set1
  set2 = set2
  set3 = set3
  drop1 = drop1
  drop2 = drop2
  f1 = f1
  f2 = f2
  p1 = p1
  p2 = p2
  b1 = b1
  Change = {c1, c2}
  Operation = {set1, set2, set3}
  Field = {f1, f2}
  Policy = {p1, p2}
  Batch = {}
  Target <- MCTarget
  Setting <- MCSetting
  MaxEdits = 0
  MaxApprovals = 0
  MaxFaults = 0
SYMMETRY Symmetry
PROPERTIES
  ConfirmedIsImmutable
CHECK_DEADLOCK FALSE
