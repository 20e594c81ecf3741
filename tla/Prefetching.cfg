SPECIFICATION FairSpec
CONSTANTS
  Tiles <- MCTiles
  Plan <- MCPlan
  Allowed <- MCAllowed
  Stored = {"none", "fresh", "old"}
  Cap = 1
  Workers = {"w1", "w2"}
  Failures = TRUE
  Panics = TRUE
  MaxAgings = 1
INVARIANTS
  TypeOK
  NothingSkipped
  NoneTwice
  NeverStuck
PROPERTIES
  Ends
  GetsOn
CHECK_DEADLOCK FALSE
