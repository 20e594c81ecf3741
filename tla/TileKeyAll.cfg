SPECIFICATION Spec
CONSTANTS
  Providers = {"osm", "sea"}
  IntBits = 4
  ZRange = 3
  XYRange = 2
  ZoomRange <- MCZoomRange
  CoordRange <- MCCoordRange
INVARIANTS
  ValidIsOnMap
  FlipStaysOnMap
  KeyTellsApart
