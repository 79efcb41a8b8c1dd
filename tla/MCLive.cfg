\* One plan and two stops; two change sets, turns, devices and requests; one review.
SPECIFICATION LiveSpec
CONSTANTS
  c1 = c1
  c2 = c2
  set1 = set1
  set2 = set2
  set3 = set3
  f1 = f1
  f2 = f2
  p1 = p1
  p2 = p2
  b1 = b1
  NoVault = none
PROPERTIES
  PlansConclude
  ConfirmationEnds
  ReviewsConclude
  SyncConverges
  DesktopFollows
CHECK_DEADLOCK FALSE
