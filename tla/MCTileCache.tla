----------------------------- MODULE MCTileCache -----------------------------
(* TileCache on small instances. *)
EXTENDS TileCache, TLC

CONSTANTS c1, c2, s1, s2, a, b

TileAt(p, z, x, y) == [Provider |-> p, Z |-> z, X |-> x, Y |-> y]

\* One tile, or two that the index tells apart.
OneTile  == {TileAt("osm", 1, 0, 1)}
TwoTiles == {TileAt("osm", 1, 0, 1), TileAt("sea", 1, 0, 1)}

\* Two tiles of zoom level 17 that are 2^16 columns apart.
FarTiles == {TileAt("osm", 17, 5, 9), TileAt("osm", 17, 65541, 9)}

Symmetry == Permutations(Callers) \cup Permutations(Savers)
=============================================================================
