SPECIFICATION FairSpec
CONSTANTS
  j1 = j1
  j2 = j2
  p1 = p1
  p2 = p2
  Jobs = {j1}
  Peers = {p1, p2}
  First = p1
  NoPeer = NoPeer
  UserOps = {"turn/start", "turn/interrupt", "goal/set", "resume"}
  MaxActs = 1
  MaxRestarts = 1
CHECK_DEADLOCK FALSE
INVARIANTS UserActivityRevokes
PROPERTIES LeaseSettles MessageForwarded QuietSessionWakes
