SPECIFICATION Spec
CONSTANTS
  j1 = j1
  j2 = j2
  p1 = p1
  p2 = p2
  Jobs = {j1, j2}
  Peers = {p1}
  First = p1
  NoPeer = NoPeer
  UserOps = {"turn/start", "turn/interrupt", "goal/set", "resume"}
  MaxActs = 1
  MaxRestarts = 1
CHECK_DEADLOCK FALSE
SYMMETRY JobSymmetry
INVARIANTS TypeOK OneLiveLease OneWakeAfterReceipt LeaseHasDriver
PROPERTIES RetiredStaysRetired
