SPECIFICATION Spec
CONSTANTS
  h1 = h1
  h2 = h2
  w1 = w1
  chart = chart
  osm = osm
  sea = sea
  typo = typo
  None = None
  Unknown = typo
  Providers = {chart, osm}
  Type <- ChartFirst
  Fallback <- ChartToOsm
  NoCache = {}
  NoPrefetch = {osm}
  CacheModes = {TRUE}
  Faults = FALSE
  Handlers = {}
  Workers = {w1}
  MaxDepth = 2
  MaxSaved = 2
INVARIANTS
  PrefetchesAllowedOnly
