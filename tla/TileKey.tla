------------------------------- MODULE TileKey -------------------------------
(***************************************************************************)
(* Tile addresses: the check the HTTP handler makes on z/x/y, the row flip *)
(* of the TMS and MBTiles providers, and the key under which the cache     *)
(* index stores a tile.                                                    *)
(*                                                                         *)
(* Go's int has 64 bits and the key has one byte for Z and two for each of *)
(* X and Y.  The widths are parameters, so that TLC can walk over all      *)
(* overflows with small words and the proofs hold for the real ones.       *)
(***************************************************************************)
EXTENDS Integers

CONSTANTS
  Providers,  \* names of the configured providers
  IntBits,    \* width of Go's int (64 in the program)
  ZRange,     \* number of values of the key's Z field (2^8 in the program)
  XYRange     \* number of values of its X and Y fields (2^16 in the program)

ASSUME WidthAssumption ==
  /\ IntBits \in Nat \ {0}
  /\ ZRange \in Nat \ {0}
  /\ XYRange \in Nat \ {0}

\* model.Tile, as getRequestParameter parses it: any integers.
Tile == [Provider : Providers, Z : Int, X : Int, Y : Int]

\* Go's  1 << z  on a signed word: the sign bit at z = IntBits - 1, and
\* nothing is left of the word beyond it.
ShiftOne(z) ==
  CASE z < IntBits - 1 -> 2^z
    [] z = IntBits - 1 -> -(2^z)
    [] OTHER           -> 0

\* Mutant: the first column and row beyond the map are let through.
isValidInclusive(x, y, zoom) ==
  zoom >= 0 /\ {x, y} \subseteq 0..ShiftOne(zoom)

isValidXYZCoord(x, y, zoom) ==
  /\ zoom >= 0
  /\ x >= 0 /\ x < ShiftOne(zoom)
  /\ y >= 0 /\ y < ShiftOne(zoom)

IsValid(t) == isValidXYZCoord(t.X, t.Y, t.Z)

\* Mutant: rows counted from 1.
FlipYFromOne(t) == [t EXCEPT !.Y = ShiftOne(t.Z) - t.Y]

\* TMS and MBTiles count rows from the south.
FlipY(t) == [t EXCEPT !.Y = ShiftOne(t.Z) - t.Y - 1]

\* Mutant: the provider is not part of the key.
DBKeyShared(t) == <<t.Z % ZRange, t.X % XYRange, t.Y % XYRange>>

\* The index key: each number keeps only the bits its field has.  The
\* provider's bytes follow nine fixed ones, so they are never confused with
\* the numbers.
DBKey(t) == <<t.Z % ZRange, t.X % XYRange, t.Y % XYRange, t.Provider>>

-----------------------------------------------------------------------------
\* No two tiles of S share an index key.
KeysDistinct(S) == \A t, u \in S : DBKey(t) = DBKey(u) => t = u

\* The tiles whose coordinates the key can tell apart: zoom levels 0 to 16
\* with the program's 16 bit fields.
Addressable(t) ==
  /\ IsValid(t)
  /\ t.Z < ZRange
  /\ ShiftOne(t.Z) <= XYRange
=============================================================================
