SPECIFICATION FairSpec
CONSTANTS
  i1 = i1  i2 = i2  p1 = p1  p2 = p2  w1 = w1  w2 = w2
  u1 = u1  u2 = u2  d1 = d1  d2 = d2
  NoItem = NoItem
  Items = {i1}
  Procs = {p1, p2}
  Workers = {w1, w2}
  ProcOf <- TwoProcesses
  Listeners = {u1}
  DBs = {d1}
  SourceOf <- OneSource
  Delayed = {}
  LiveDirtyAtView = FALSE
  Faults = {"crash", "stop", "process", "request", "listener"}
  MaxFaults = 2
  MaxChanges = 2
INVARIANTS TypeOK MutualExclusion LockInv
CHECK_DEADLOCK FALSE
PROPERTIES EventuallyReplicated  Quiescence
