---------------------------- MODULE TileAddresses ----------------------------
(***************************************************************************)
(* Two requests with any numbers in their addresses, and what the check of *)
(* the handler, the row flip and the index key of TileKey make of them.    *)
(***************************************************************************)
EXTENDS TileKey

CONSTANTS
  ZoomRange, CoordRange  \* the numbers a request may hold: all of Int in the program

ASSUME RangeAssumption == ZoomRange \cup CoordRange \subseteq Int

Requests == [Provider : Providers, Z : ZoomRange, X : CoordRange, Y : CoordRange]

VARIABLES t, u  \* two requests

Init == t \in Requests /\ u \in Requests

\* Nothing moves but the names: the initial states are all the pairs.
Next == t' = u /\ u' = t

Spec == Init /\ [][Next]_<<t, u>>

-----------------------------------------------------------------------------
(* Properties *)

\* The handler lets through exactly the tiles of the map: 2^Z columns and rows,
\* for the zoom levels whose shift stays positive in the word.
ValidIsOnMap ==
  IsValid(t) <=> /\ t.Z \in 0..(IntBits - 2)
                 /\ {t.X, t.Y} \subseteq 0..(2^t.Z - 1)

\* The flip of the TMS and MBTiles providers asks for a tile of the map and
\* never for the same one on behalf of two.
FlipStaysOnMap ==
  IsValid(t) => /\ IsValid(FlipY(t))
                /\ (IsValid(u) /\ FlipY(t) = FlipY(u) => t = u)

\* No two of the tiles the key has room for share an index entry.
KeyTellsApart ==
  Addressable(t) /\ Addressable(u) => KeysDistinct({t, u})
=============================================================================
