SPECIFICATION Spec
CONSTANTS
  Tiles <- MCTiles
  Plan <- MCPlan
  Allowed <- MCAllowed
  Stored = {"none"}
  Cap = 2
  Workers = {"w1"}
  Failures = FALSE
  Panics = FALSE
  MaxAgings = 0
INVARIANTS
  OneFileOpen
CHECK_DEADLOCK FALSE
