\* Three change sets without faults: another change deletes a field of the rest.
SPECIFICATION Spec
CONSTANTS
  set1 = set1
  set2 = set2
  set3 = set3
  drop1 = drop1
  drop2 = drop2
  f1 = f1
  f2 = f2
  p1 = p1
  p2 = p2
  b1 = b1
  Change = {c1, c2, c3}
  Operation = {set1, set3, drop2}
  Field = {f1, f2}
  Policy = {p1, p2}
  Batch = {}
  Target <- MCTarget
  Setting <- MCSetting
  MaxEdits = 0
  MaxApprovals = 0
  MaxFaults = 0
SYMMETRY Symmetry
INVARIANTS
  AcceptedOperationsSurvive
CHECK_DEADLOCK FALSE
