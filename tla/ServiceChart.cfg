SPECIFICATION FairSpec
CONSTANTS
  h1 = h1
  h2 = h2
  w1 = w1
  chart = chart
  osm = osm
  sea = sea
  typo = typo
  None = None
  Unknown = typo
  Providers = {chart, sea}
  Type <- ChartFirst
  Fallback <- ChartToSea
  NoCache = {}
  NoPrefetch = {}
  CacheModes = {TRUE}
  Faults = TRUE
  Handlers = {h1}
  Workers = {}
  MaxDepth = 2
  MaxSaved = 2
INVARIANTS
  TypeOK
  RightImage
PROPERTIES
  KeepsPromise
  WorkGetsOn
  WorkEnds
