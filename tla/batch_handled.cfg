SPECIFICATION FairSpec
CONSTANTS
  i1 = i1  p1 = p1  p2 = p2  w1 = w1  w2 = w2  u1 = u1  u2 = u2
  NoItem = NoItem
  Items = {i1}
  Procs = {p1}
  Workers = {w1, w2}
  ProcOf <- OneProcess
  Listeners = {u1}
  LiveDirtyAtView = TRUE
  Faults = {"crash", "process", "request", "listener"}
  MaxFaults = 2
  BatchSize = 2
  BackoffLimit = 0
  MergeSkips = TRUE
  BatchFaults = {"api", "batch", "advance"}
  MaxChanges = 2
INVARIANTS NoChangeForgotten
PROPERTIES ImplementsDirtyMarks ImplementsUpdateFeed EventuallyHandled
CHECK_DEADLOCK FALSE
