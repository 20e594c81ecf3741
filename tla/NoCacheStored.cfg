SPECIFICATION Spec
CONSTANTS
  h1 = h1
  h2 = h2
  w1 = w1
  chart = chart
  osm = osm
  sea = sea
  typo = typo
  None = None
  Unknown = typo
  Providers = {chart, osm}
  Type <- ChartFirst
  Fallback <- ChartToOsm
  NoCache = {osm}
  NoPrefetch = {}
  CacheModes = {TRUE}
  Faults = FALSE
  Handlers = {h1}
  Workers = {}
  MaxDepth = 2
  MaxSaved = 2
INVARIANTS
  NoCacheNotStored
