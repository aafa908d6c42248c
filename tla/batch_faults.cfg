SPECIFICATION Spec
CONSTANTS
  i1 = i1  p1 = p1  p2 = p2  w1 = w1  w2 = w2  u1 = u1  u2 = u2
  NoItem = NoItem
  Items = {i1}
  Procs = {p1, p2}
  Workers = {w1, w2}
  ProcOf <- TwoProcesses
  Listeners = {u1}
  LiveDirtyAtView = FALSE
  Faults = {"crash", "stop", "process", "request", "soilRequest", "slow", "listener"}
  MaxFaults = 2
  BatchSize = 1
  BackoffLimit = 1
  MergeSkips = FALSE
  BatchFaults = {"api", "batch", "advance", "retry"}
  MaxChanges = 2
INVARIANTS TypeOK NothingSkipped
CHECK_DEADLOCK FALSE
