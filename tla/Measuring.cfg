SPECIFICATION Spec
CONSTANTS
  u1 = u1
  u2 = u2
  u3 = u3
  None = None
  Names = {"cache", "provider"}
  Users = {u1, u2}
  Durations = {1, 3}
  Resets = TRUE
  MaxStarts = 3
SYMMETRY Symmetry
INVARIANTS
  TypeOK
  NoLostUpdate
  TornOnlyByReset
  AverageBetween
CHECK_DEADLOCK FALSE
