SPECIFICATION Spec
CONSTANTS
  j1 = j1
  j2 = j2
  Jobs = {j1}
  GoalIds = {"A"}
  NoId = "none"
  MaxClock = 1
  OutsideOps = {}
  MaxOutside = 0
  MaxTurns = 0
  Failures = FALSE
  UserOps = {"paused"}
  MaxControls = 1
  MaxBuffer = 2
  MaxCrashes = 0
CHECK_DEADLOCK FALSE
PROPERTY UserPauseKept
