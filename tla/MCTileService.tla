---------------------------- MODULE MCTileService ----------------------------
(* TileService on small configurations. *)
EXTENDS TileService, TLC

CONSTANTS h1, h2, w1, chart, osm, sea, typo

\* chart is an MBTiles file in front of the WMS server sea; osm is a tile server.
ChartFirst == [p \in Providers |-> CASE p = chart -> "mbtiles"
                                     [] p = sea -> "wms" [] OTHER -> "tms"]
ChartToSea == [p \in Providers |-> IF p = chart THEN sea ELSE None]
ChartToOsm == [p \in Providers |-> IF p = chart THEN osm ELSE None]

\* chart has a fallback that is misspelt.
ChartToTypo == [p \in Providers |-> IF p = chart THEN typo ELSE None]

\* Two MBTiles files: the fallback of the second is misspelt, or the first.
TwoCharts == [p \in Providers |-> IF p = osm THEN "tms" ELSE "mbtiles"]
ChartChartTypo == [p \in Providers |-> CASE p = chart -> sea
                                          [] p = sea -> typo [] OTHER -> None]
EachOther == [p \in Providers |-> IF p = chart THEN sea ELSE chart]

Symmetry == Permutations(Handlers)
=============================================================================
