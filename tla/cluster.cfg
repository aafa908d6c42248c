SPECIFICATION FairSpec
CONSTANTS
  a = a  b = b  w1 = w1  w2 = w2
  Nodes = {a, b}
  Workers = {w1}
  NodeOf <- OnA
  FeedNode = b
  Hashes = {1, 2}
  MaxChanges = 2
INVARIANTS TypeOK WinnerSurvives
PROPERTIES NothingStuck
CHECK_DEADLOCK FALSE
