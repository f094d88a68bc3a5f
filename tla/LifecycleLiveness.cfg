SPECIFICATION FairSpec
CONSTANTS
  j1 = j1
  j2 = j2
  s1 = s1
  s2 = s2
  Jobs = {j1, j2}
  Unsure = {j1, j2}
  Waits = {j2}
  Servers = {s1}
  NoServer = "none"
  MaxActive = 2
  MaxCalls = 1
CHECK_DEADLOCK FALSE
PROPERTIES TaskEnds CommandEnds
