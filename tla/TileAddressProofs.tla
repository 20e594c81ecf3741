-------------------------- MODULE TileAddressProofs --------------------------
(***************************************************************************)
(* The properties of TileAddresses for all integers in the requests and    *)
(* all widths of the words.                                                *)
(***************************************************************************)
EXTENDS TileAddresses, TileKeyProofs

\* Both requests are tiles at any time.
Inv == t \in Tile /\ u \in Tile

LEMMA InvHolds == Spec => []Inv
<1>1. Init => Inv
  BY RangeAssumption DEF Init, Inv, Requests, Tile
<1>2. Inv /\ [Next]_<<t, u>> => Inv'
  BY DEF Inv, Next
<1>. QED
  BY <1>1, <1>2, PTL DEF Spec

\* isValidXYZCoord (internal/apiv1/tiles.go) lets a request through if, and only
\* if, it is for a tile of the map whose zoom level leaves the shift positive.
THEOREM ValidExactly == Spec => []ValidIsOnMap
<1>1. ASSUME NEW r \in Tile
      PROVE  IsValid(r) <=> /\ r.Z \in 0..(IntBits - 2)
                            /\ {r.X, r.Y} \subseteq 0..(2^r.Z - 1)
  <2>1. ASSUME r.Z \in 0..(IntBits - 2), {r.X, r.Y} \subseteq 0..(2^r.Z - 1)
        PROVE  IsValid(r)
    <3>1. r.Z \in Nat /\ r.Z < IntBits - 1
      BY <2>1, WidthAssumption
    <3>2. 2^r.Z \in Nat /\ ShiftOne(r.Z) = 2^r.Z
      BY <3>1, PowerType, WidthAssumption DEF ShiftOne
    <3>3. r.X \in 0..(2^r.Z - 1) /\ r.Y \in 0..(2^r.Z - 1)
      BY <2>1
    <3>. QED
      BY <3>1, <3>2, <3>3 DEF IsValid, isValidXYZCoord
  <2>2. IsValid(r) => r.Z \in 0..(IntBits - 2) /\ {r.X, r.Y} \subseteq 0..(2^r.Z - 1)
    BY ValidTile
  <2>. QED
    BY <2>1, <2>2
<1>2. Inv => ValidIsOnMap
  BY <1>1 DEF Inv, ValidIsOnMap
<1>. QED
  BY <1>2, InvHolds, PTL

\* The row flip of tms.go and mbtiles.go is a bijection of the tiles of the map.
THEOREM FlipIsBijection == Spec => []FlipStaysOnMap
<1>1. ASSUME NEW r \in Tile, NEW s \in Tile, IsValid(r)
      PROVE  /\ IsValid(FlipY(r))
             /\ IsValid(s) /\ FlipY(r) = FlipY(s) => r = s
  <2>1. IsValid(FlipY(r)) /\ FlipY(FlipY(r)) = r
    BY <1>1, FlipValid
  <2>2. IsValid(s) => FlipY(FlipY(s)) = s
    BY FlipValid
  <2>. QED
    BY <2>1, <2>2
<1>2. Inv => FlipStaysOnMap
  BY <1>1 DEF Inv, FlipStaysOnMap
<1>. QED
  BY <1>2, InvHolds, PTL

\* DBKey (internal/tilecache/cache.go) gives two tiles entries of their own as
\* long as its fields have room for their coordinates.
THEOREM KeysApart == Spec => []KeyTellsApart
<1>1. Inv => KeyTellsApart
  <2>. SUFFICES ASSUME Inv, Addressable(t), Addressable(u) PROVE KeysDistinct({t, u})
    BY DEF KeyTellsApart
  <2>1. {t, u} \in SUBSET Tile /\ \A r \in {t, u} : Addressable(r)
    BY DEF Inv
  <2>. QED
    BY <2>1, AddressableKeysDistinct
<1>. QED
  BY <1>1, InvHolds, PTL
=============================================================================
