SPECIFICATION FairSpec
CONSTANTS
  h1 = h1
  h2 = h2
  w1 = w1
  chart = chart
  osm = osm
  sea = sea
  typo = typo
  None = None
  Unknown = typo
  Providers = {chart, sea}
  Type <- ChartFirst
  Fallback <- ChartToTypo
  NoCache = {chart}
  NoPrefetch = {chart}
  CacheModes = {TRUE, FALSE}
  Faults = FALSE
  Handlers = {h1}
  Workers = {w1}
  MaxDepth = 1
  MaxSaved = 2
INVARIANTS
  NothingLost
  UnsharedIsWhole
PROPERTIES
  WorkEnds
