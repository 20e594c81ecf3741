SPECIFICATION Spec
CONSTANTS
  Providers = {"osm", "sea"}
  IntBits = 64
  ZRange = 256
  XYRange = 65536
  c1 = c1
  c2 = c2
  s1 = s1
  s2 = s2
  a = a
  b = b
  None = None
  Cleaner = Cleaner
  Callers = {c1, c2}
  Savers = {s1, s2}
  Images = {a}
  Small = {}
  Tiles <- OneTile
  MaxAge = 1
  SameDevice = TRUE
  IOFaults = FALSE
  MaxClock = 2
  MaxCrashes = 1
SYMMETRY Symmetry
INVARIANTS
  StatHolds
PROPERTIES
  TileRemovesOnlyExpired
  KeepsContract
