SPECIFICATION Spec
CONSTANTS
  Tiles <- OneTile
  Plan <- OnePlan
  Allowed <- OneTile
  Stored = {"none", "old"}
  Cap = 2
  Workers = {"w1"}
  Failures = FALSE
  Panics = FALSE
  MaxAgings = 0
INVARIANTS
  AllPrefetched
CHECK_DEADLOCK FALSE
