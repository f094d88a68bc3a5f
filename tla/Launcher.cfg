SPECIFICATION FairSpec
CONSTANTS
  MaxGuardKills = 1
  Punctual = TRUE
CHECK_DEADLOCK FALSE
INVARIANTS TypeOK GuardLeavesNothing OrphanWarned DirOutlivesDaemons
PROPERTIES NoOrphan SessionEnds
