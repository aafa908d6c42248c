SPECIFICATION Spec
CONSTANTS
  i1 = i1  p1 = p1  p2 = p2  w1 = w1  w2 = w2  u1 = u1  u2 = u2
  NoItem = NoItem
  Items = {i1}
  Procs = {p1}
  Workers = {w1}
  ProcOf <- OneProcess
  Listeners = {u1}
  LiveDirtyAtView = TRUE
  Faults = {}
  MaxFaults = 1
  BatchSize = 1
  BackoffLimit = 0
  MergeSkips = FALSE
  BatchFaults = {"api"}
  MaxChanges = 2
INVARIANTS NoChangeForgotten
CHECK_DEADLOCK FALSE
