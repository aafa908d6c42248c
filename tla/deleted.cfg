SPECIFICATION FairSpec
CONSTANTS
  w1 = w1  w2 = w2
  Workers = {w1, w2}
  MaxCreated = 2
  MaxChanges = 1
  MaxCrashes = 1
INVARIANTS TypeOK
PROPERTIES OnlyDestroyForgets DestroyedIfPersisted EventuallyDestroyed
CHECK_DEADLOCK FALSE
