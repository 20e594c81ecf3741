SPECIFICATION FairSpec
CONSTANTS
  h1 = h1
  h2 = h2
  w1 = w1
  chart = chart
  osm = osm
  sea = sea
  typo = typo
  None = None
  Unknown = typo
  Providers = {chart, sea, osm}
  Type <- TwoCharts
  Fallback <- ChartChartTypo
  NoCache = {}
  NoPrefetch = {}
  CacheModes = {FALSE}
  Faults = FALSE
  Handlers = {h1, h2}
  Workers = {w1}
  MaxDepth = 2
  MaxSaved = 2
INVARIANTS
  ClientGetsWhole
PROPERTIES
  RequestsEnd
