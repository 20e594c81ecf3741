------------------------------ MODULE MCPrefetch ------------------------------
(* Prefetch on small instances. *)
EXTENDS Prefetch

\* Two providers of one tile each, of which the second is listed twice, and one
\* that must not be prefetched.
MCTiles == {"sea", "osm", "chart"}
MCPlan == <<"sea", "osm", "chart", "sea">>
MCAllowed == {"sea", "chart"}
OneTile == {"sea"}
OnePlan == <<"sea">>
=============================================================================
