SPECIFICATION FairSpec
CONSTANTS
  j1 = j1
  j2 = j2
  Jobs = {j1}
  GoalIds = {"A", "B"}
  NoId = "none"
  MaxClock = 1
  OutsideOps = {"edit", "clear"}
  MaxOutside = 1
  MaxTurns = 0
  Failures = TRUE
  UserOps = {"paused"}
  MaxControls = 1
  MaxBuffer = 2
  MaxCrashes = 1
CHECK_DEADLOCK FALSE
INVARIANTS TypeOK LeaseHasDriver EarlyTerminalKept UserControlRevokes PauseRecorded
PROPERTIES LeaseSettles ControlForwarded
