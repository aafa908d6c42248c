SPECIFICATION FairSpec
CONSTANTS
  r1 = r1  r2 = r2  r3 = r3
  Rules = {r1, r2, r3}
  Block <- OneDoesNotWait
  Debounced = {r1}
  OwnUrl = {r1}
  BatchSize = 2
  MaxChanges = 3
  NodeExits = TRUE
  MaxFaults = 3
INVARIANTS TypeOK ServedBeforeSeq InOrder
PROPERTIES EventuallyServed
CHECK_DEADLOCK FALSE
