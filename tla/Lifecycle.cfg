SPECIFICATION Spec
CONSTANTS
  j1 = j1
  j2 = j2
  s1 = s1
  s2 = s2
  Jobs = {j1, j2}
  Unsure = {j1}
  Waits = {j2}
  Servers = {s1, s2}
  NoServer = "none"
  MaxActive = 1
  MaxCalls = 1
SYMMETRY ServerSymmetry
CHECK_DEADLOCK FALSE
INVARIANTS TypeOK ActiveLimit CommandSupervised TerminalMeansOver RecoveryOnlyOrphans
