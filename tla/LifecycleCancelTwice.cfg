SPECIFICATION Spec
CONSTANTS
  j1 = j1
  j2 = j2
  s1 = s1
  s2 = s2
  Jobs = {j1}
  Unsure = {j1}
  Waits = {}
  Servers = {s1}
  NoServer = "none"
  MaxActive = 1
  MaxCalls = 2
CHECK_DEADLOCK FALSE
INVARIANT CancelledSettles
