SPECIFICATION Spec
CONSTANTS
  u1 = u1
  u2 = u2
  u3 = u3
  None = None
  Names = {"cache"}
  Users = {u1, u2}
  Durations = {1, 3}
  Resets = TRUE
  MaxStarts = 2
SYMMETRY Symmetry
INVARIANTS
  ReportOrdered
CHECK_DEADLOCK FALSE
