SPECIFICATION Spec
CONSTANTS
  i1 = i1  i2 = i2  p1 = p1  p2 = p2  w1 = w1  w2 = w2
  u1 = u1  u2 = u2  d1 = d1  d2 = d2
  NoItem = NoItem
  Items = {i1, i2}
  Procs = {p1}
  Workers = {w1}
  ProcOf <- OneProcess
  Listeners = {u1, u2}
  DBs = {d1}
  SourceOf <- OneSource
  Delayed = {i2}
  LiveDirtyAtView = FALSE
  Faults = {"crash", "stop", "slow", "process", "request", "lockRequest", "soilRequest", "listener"}
  MaxFaults = 1
  MaxChanges = 1
INVARIANTS CleanIsJustified NoLostUpdate
PROPERTIES ImplementsDirtyMarks ImplementsUpdateFeed
CHECK_DEADLOCK FALSE
