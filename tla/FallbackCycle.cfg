SPECIFICATION Spec
CONSTANTS
  h1 = h1
  h2 = h2
  w1 = w1
  chart = chart
  osm = osm
  sea = sea
  typo = typo
  None = None
  Unknown = typo
  Providers = {chart, sea}
  Type <- TwoCharts
  Fallback <- EachOther
  NoCache = {}
  NoPrefetch = {}
  CacheModes = {TRUE}
  Faults = FALSE
  Handlers = {h1}
  Workers = {}
  MaxDepth = 4
  MaxSaved = 4
INVARIANTS
  NoReentry
