SPECIFICATION Spec
CONSTANTS
  Providers = {"osm", "sea"}
  IntBits = 64
  ZRange = 256
  XYRange = 65536
  c1 = c1
  c2 = c2
  s1 = s1
  s2 = s2
  a = a
  b = b
  None = None
  Cleaner = Cleaner
  Callers = {c1}
  Savers = {s1}
  Images = {a}
  Small = {}
  Tiles <- OneTile
  MaxAge = 0
  SameDevice = TRUE
  IOFaults = FALSE
  MaxClock = 1
  MaxCrashes = 0
PROPERTIES
  DistributesNoneOverAge
