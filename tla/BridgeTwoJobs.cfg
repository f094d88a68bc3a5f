SPECIFICATION Spec
CONSTANTS
  j1 = j1
  j2 = j2
  Jobs = {j1, j2}
  GoalIds = {"A"}
  NoId = "none"
  MaxClock = 1
  OutsideOps = {}
  MaxOutside = 0
  MaxTurns = 0
  Failures = TRUE
  UserOps = {"paused"}
  MaxControls = 0
  MaxBuffer = 2
  MaxCrashes = 1
CHECK_DEADLOCK FALSE
SYMMETRY JobSymmetry
INVARIANTS OneLiveLease WakesAtMostOnce
PROPERTIES RetiredStaysRetired LeaseSpec
