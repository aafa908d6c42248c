SPECIFICATION FairSpec
CONSTANTS
  r1 = r1  r2 = r2
  Rules = {r1, r2}
  Written <- RulesWritten
  DBNames = {"accounts", "logs"}
  Documents <- SomeDocuments
  Faults = {"late", "unauthorized", "kill"}
  MaxRev = 3
  MaxFaults = 2
INVARIANTS TypeOK LoadedIsComplete MatchedAsWritten
PROPERTIES NeverBack CacheFollows
CHECK_DEADLOCK FALSE
