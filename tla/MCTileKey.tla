------------------------------ MODULE MCTileKey ------------------------------
(***************************************************************************)
(* TileAddresses with words so small that all of them overflow inside the  *)
(* set: an int of 4 bits, 3 zoom levels and 2 columns and rows in the key. *)
(***************************************************************************)
EXTENDS TileAddresses

MCZoomRange == -1..5
MCCoordRange == -1..4
=============================================================================
