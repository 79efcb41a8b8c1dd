\* Two plans, one slot, no stop: an approved plan waits for its slot and gets it.
SPECIFICATION UndisturbedSpec
CONSTANTS
  Plan = {p1, p2}
  MaxPlans = 2
  MaxRunning = 1
  MaxCrashes = 0
  MaxFaults = 0
PROPERTIES
  ApprovedPlanConcludes
CHECK_DEADLOCK FALSE
