SPECIFICATION FairSpec
CONSTANTS
  j1 = j1
  j2 = j2
  Jobs = {j1}
  GoalIds = {"A"}
  NoId = "none"
  MaxClock = 2
  OutsideOps = {"account"}
  MaxOutside = 1
  MaxTurns = 1
  Failures = FALSE
  UserOps = {"paused"}
  MaxControls = 0
  MaxBuffer = 2
  MaxCrashes = 1
CHECK_DEADLOCK FALSE
PROPERTY QuietLeaseWakes
