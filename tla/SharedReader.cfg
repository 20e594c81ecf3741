SPECIFICATION Spec
CONSTANTS
  h1 = h1
  h2 = h2
  w1 = w1
  chart = chart
  osm = osm
  sea = sea
  typo = typo
  None = None
  Unknown = typo
  Providers = {osm}
  Type <- ChartFirst
  Fallback <- ChartToSea
  NoCache = {}
  NoPrefetch = {}
  CacheModes = {TRUE}
  Faults = FALSE
  Handlers = {h1}
  Workers = {}
  MaxDepth = 1
  MaxSaved = 4
INVARIANTS
  ClientGetsWhole
