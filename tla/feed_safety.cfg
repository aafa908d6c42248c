SPECIFICATION Spec
CONSTANTS
  DBs = {d1, d2}
  Listeners = {u1, u2}
  BatchSize = 2
  NodeExits = FALSE
  Faults = {"crash", "request"}
  MaxFaults = 2
  MaxUpdates = 4
SYMMETRY Symmetry
INVARIANTS TypeOK NothingSkipped
PROPERTIES ImplementsUpdateFeed
CHECK_DEADLOCK FALSE
