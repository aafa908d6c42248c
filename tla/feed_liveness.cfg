SPECIFICATION FairSpec
CONSTANTS
  DBs = {d1, d2}
  Listeners = {u1, u2}
  BatchSize = 2
  NodeExits = TRUE
  Faults = {"crash", "request", "stop"}
  MaxFaults = 1
  MaxUpdates = 3
PROPERTIES EventuallyDirtied
INVARIANTS NoUpdateLost
CHECK_DEADLOCK FALSE
