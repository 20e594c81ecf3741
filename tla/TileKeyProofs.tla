---------------------------- MODULE TileKeyProofs ----------------------------
(* What the addresses of TileKey guarantee for every width of the words.   *)
EXTENDS TileKey, FiniteSetTheorems, FunctionTheorems, TLAPS

(***************************************************************************)
(* Powers of two are natural numbers.  Without induction: 2^z counts the   *)
(* subsets of 1..z.                                                        *)
(***************************************************************************)
LEMMA PowerType == ASSUME NEW z \in Nat PROVE 2^z \in Nat
<1>1. IsFiniteSet(1..z) /\ Cardinality(1..z) = z
  BY FS_Interval
<1>2. /\ IsFiniteSet(SUBSET (1..z))
      /\ Cardinality(SUBSET (1..z)) = 2^Cardinality(1..z)
  BY <1>1, FS_SUBSET
<1>. QED
  BY <1>1, <1>2, FS_CardinalityType

\* The shift of a zoom level that is not negative is an integer.
LEMMA ShiftType == ASSUME NEW z \in Nat PROVE ShiftOne(z) \in Int
<1>1. 2^z \in Int
  BY PowerType
<1>. QED
  BY <1>1, WidthAssumption DEF ShiftOne

\* One zoom level more doubles the rows.  Of the subsets of 1..n+1 half have n+1.
LEMMA PowerDoubles == ASSUME NEW n \in Nat PROVE 2^(n + 1) = 2 * 2^n
<1>. DEFINE A == SUBSET (1..n)
            B == {T \in SUBSET (1..(n + 1)) : n + 1 \in T}
            F == [T \in A |-> T \cup {n + 1}]
<1>1. /\ IsFiniteSet(1..n) /\ Cardinality(1..n) = n
      /\ IsFiniteSet(1..(n + 1)) /\ Cardinality(1..(n + 1)) = n + 1
  BY FS_Interval
<1>2. /\ IsFiniteSet(A) /\ Cardinality(A) = 2^n
      /\ Cardinality(SUBSET (1..(n + 1))) = 2^(n + 1)
  BY <1>1, FS_SUBSET
<1>3. n + 1 \notin 1..n /\ 1..(n + 1) = (1..n) \cup {n + 1}
  OBVIOUS
<1>4. F \in Bijection(A, B)
  <2>1. F \in [A -> B]
    BY <1>3
  <2>2. \A S, T \in A : F[S] = F[T] => S = T
    <3>1. ASSUME NEW S \in A, NEW T \in A, F[S] = F[T] PROVE S = T
      <4>1. S \cup {n + 1} = T \cup {n + 1}
        BY <3>1
      <4>2. n + 1 \notin S /\ n + 1 \notin T
        BY <1>3
      <4>. HIDE DEF A
      <4>. QED
        BY <4>1, <4>2
    <3>. QED
      BY <3>1
  <2>3. ASSUME NEW U \in B PROVE \E T \in A : F[T] = U
    <3>1. U \ {n + 1} \in A
      BY <1>3
    <3>2. F[U \ {n + 1}] = U
      BY <3>1
    <3>. QED
      BY <3>1, <3>2
  <2>. HIDE DEF A, B, F
  <2>. QED
    BY <2>1, <2>2, <2>3, Fun_IsBij
<1>5. IsFiniteSet(B) /\ Cardinality(B) = 2^n
  <2>. HIDE DEF A, B, F
  <2>. QED
    BY <1>2, <1>4, FS_Bijection DEF ExistsBijection
<1>6. A \cup B = SUBSET (1..(n + 1)) /\ A \cap B = {}
  <2>1. A \cap B = {}
    BY <1>3
  <2>2. A \cup B \subseteq SUBSET (1..(n + 1))
    BY <1>3
  <2>3. ASSUME NEW T \in SUBSET (1..(n + 1)), n + 1 \notin T PROVE T \in A
    BY <1>3, <2>3
  <2>. QED
    BY <2>1, <2>2, <2>3
<1>7. Cardinality(SUBSET (1..(n + 1))) = 2^n + 2^n - 0
  <2>. HIDE DEF A, B
  <2>1. Cardinality(A \cup B) = Cardinality(A) + Cardinality(B) - Cardinality(A \cap B)
    BY <1>2, <1>5, FS_Union
  <2>2. Cardinality(A \cap B) = 0
    BY <1>6, FS_EmptySet
  <2>. QED
    BY <1>2, <1>5, <1>6, <2>1, <2>2
<1>8. 2^n \in Nat
  BY PowerType
<1>. QED
  BY <1>2, <1>7, <1>8

\* The columns of the map at a zoom level, and its rows.
Columns(z) == 2^z

\* The map does not shrink from one zoom level to the next.
LEMMA ColumnsGrow == \A m, n \in Nat : m <= n => Columns(m) <= Columns(n)
<1>. SUFFICES ASSUME NEW m \in Nat, NEW n \in Nat, m <= n PROVE Columns(m) <= Columns(n)
  OBVIOUS
<1>1. /\ IsFiniteSet(1..m) /\ Cardinality(1..m) = m
      /\ IsFiniteSet(1..n) /\ Cardinality(1..n) = n
  BY FS_Interval
<1>2. /\ Cardinality(SUBSET (1..m)) = Columns(m)
      /\ IsFiniteSet(SUBSET (1..n)) /\ Cardinality(SUBSET (1..n)) = Columns(n)
  BY <1>1, FS_SUBSET DEF Columns
<1>3. SUBSET (1..m) \in SUBSET (SUBSET (1..n))
  OBVIOUS
<1>. QED
  BY <1>2, <1>3, FS_Subset

\* The size of the map where the fields of the key are filled, and one level below.
LEMMA ColumnsAtSixteen == Columns(16) = 65536 /\ Columns(17) = 131072
<1>1. Columns(0) = 1
  <2>1. Cardinality(SUBSET {}) = 2^Cardinality({})
    BY FS_EmptySet, FS_SUBSET
  <2>2. SUBSET {} = {{}}
    OBVIOUS
  <2>. QED
    BY <2>1, <2>2, FS_EmptySet, FS_Singleton DEF Columns
<1>2. \A m, n \in Nat : m = n + 1 => Columns(m) = 2 * Columns(n)
  BY PowerDoubles DEF Columns
<1>3. Columns(1) = 2 /\ Columns(2) = 4 /\ Columns(3) = 8 /\ Columns(4) = 16
  BY <1>1, <1>2
<1>4. Columns(5) = 32 /\ Columns(6) = 64 /\ Columns(7) = 128 /\ Columns(8) = 256
  BY <1>2, <1>3
<1>5. Columns(9) = 512 /\ Columns(10) = 1024 /\ Columns(11) = 2048 /\ Columns(12) = 4096
  BY <1>2, <1>4
<1>6. Columns(13) = 8192 /\ Columns(14) = 16384 /\ Columns(15) = 32768
  BY <1>2, <1>5
<1>. QED
  BY <1>2, <1>6

\* The handler (isValidXYZCoord, internal/apiv1/tiles.go) lets through only
\* tiles of the map, overflow of the shift included: coordinates from 0 up to
\* the shift, at a zoom level that leaves the shift positive.
THEOREM ValidTile ==
  ASSUME NEW t \in Tile, IsValid(t)
  PROVE  /\ t.Z \in 0..(IntBits - 2)
         /\ ShiftOne(t.Z) = 2^t.Z
         /\ t.X \in 0..(2^t.Z - 1)
         /\ t.Y \in 0..(2^t.Z - 1)
<1>1. /\ t.Z \in Nat /\ t.X \in Nat /\ t.Y \in Nat
      /\ t.X < ShiftOne(t.Z) /\ t.Y < ShiftOne(t.Z)
  BY DEF IsValid, isValidXYZCoord, Tile
<1>2. 2^t.Z \in Nat
  BY <1>1, PowerType
<1>3. t.Z < IntBits - 1
  BY <1>1, <1>2, WidthAssumption DEF ShiftOne
<1>4. ShiftOne(t.Z) = 2^t.Z
  BY <1>1, <1>2, <1>3, WidthAssumption DEF ShiftOne
<1>. QED
  BY <1>1, <1>2, <1>3, <1>4, WidthAssumption

\* The TMS and MBTiles row flip (internal/provider/tms.go and mbtiles.go) stays
\* on the map and undoes itself, so two tiles never become one.
THEOREM FlipValid ==
  ASSUME NEW t \in Tile, IsValid(t)
  PROVE  /\ FlipY(t) \in Tile
         /\ IsValid(FlipY(t))
         /\ FlipY(FlipY(t)) = t
<1>1. /\ t.Z \in Nat /\ t.X \in Nat /\ t.Y \in Nat
      /\ t.X < ShiftOne(t.Z) /\ t.Y < ShiftOne(t.Z)
  BY DEF IsValid, isValidXYZCoord, Tile
<1>2. ShiftOne(t.Z) \in Int
  BY <1>1, ShiftType
<1>3. /\ FlipY(t) \in Tile
      /\ FlipY(t).Z = t.Z /\ FlipY(t).X = t.X /\ FlipY(t).Provider = t.Provider
      /\ FlipY(t).Y = ShiftOne(t.Z) - t.Y - 1
  BY <1>1, <1>2 DEF FlipY, Tile
<1>4. IsValid(FlipY(t))
  BY <1>1, <1>2, <1>3 DEF IsValid, isValidXYZCoord
<1>5. FlipY(FlipY(t)) = t
  <2>1. ShiftOne(t.Z) - (ShiftOne(t.Z) - t.Y - 1) - 1 = t.Y
    BY <1>1, <1>2
  <2>2. ShiftOne(FlipY(t).Z) - FlipY(t).Y - 1 = t.Y
    BY <1>3, <2>1
  <2>3. FlipY(FlipY(t)) = [FlipY(t) EXCEPT !.Y = t.Y]
    BY <2>2 DEF FlipY
  <2>4. [FlipY(t) EXCEPT !.Y = t.Y] = t
    BY DEF FlipY, Tile
  <2>. QED
    BY <2>3, <2>4
<1>. QED
  BY <1>3, <1>4, <1>5

\* DBKey (internal/tilecache/cache.go) gives two tiles different entries as
\* long as the fields have room for their coordinates: up to zoom level 16.
THEOREM AddressableKeysDistinct ==
  ASSUME NEW S \in SUBSET Tile, \A t \in S : Addressable(t)
  PROVE  KeysDistinct(S)
<1>1. \A x \in Int, n \in Nat \ {0} : 0 <= x /\ x < n => x % n = x
  BY SMT
<1>2. ASSUME NEW t \in S
      PROVE  DBKey(t) = <<t.Z, t.X, t.Y, t.Provider>>
  <2>1. /\ t.Z \in Nat /\ t.X \in Nat /\ t.Y \in Nat
        /\ t.X < ShiftOne(t.Z) /\ t.Y < ShiftOne(t.Z)
        /\ t.Z < ZRange /\ ShiftOne(t.Z) <= XYRange
    BY DEF Addressable, IsValid, isValidXYZCoord, Tile
  <2>2. ShiftOne(t.Z) \in Int
    BY <2>1, ShiftType
  <2>3. t.X < XYRange /\ t.Y < XYRange
    BY <2>1, <2>2, WidthAssumption
  <2>. QED
    BY <1>1, <2>1, <2>3, WidthAssumption DEF DBKey
<1>3. ASSUME NEW t \in S, NEW u \in S, DBKey(t) = DBKey(u)
      PROVE  t = u
  <2>1. t.Z = u.Z /\ t.X = u.X /\ t.Y = u.Y /\ t.Provider = u.Provider
    BY <1>2, <1>3
  <2>. QED
    BY <2>1 DEF Tile
<1>. QED
  BY <1>3 DEF KeysDistinct

\* Beyond that it does not: where the map has more columns than the field of the key
\* has values, two of its tiles share an entry (the first column, and the one as many
\* columns to the right of it).
THEOREM KeysCollide ==
  ASSUME NEW z \in Nat, ShiftOne(z) > XYRange, NEW p \in Providers
  PROVE  ~KeysDistinct({t \in Tile : IsValid(t) /\ t.Z = z})
<1>. DEFINE At(x) == [Provider |-> p, Z |-> z, X |-> x, Y |-> 0]
<1>1. At(0) \in Tile /\ At(XYRange) \in Tile
  BY WidthAssumption DEF Tile
<1>2. IsValid(At(0)) /\ IsValid(At(XYRange))
  BY WidthAssumption, ShiftType DEF IsValid, isValidXYZCoord
<1>3. 0 % XYRange = 0 /\ XYRange % XYRange = 0
  <2>1. \A n \in Nat \ {0} : 0 % n = 0 /\ n % n = 0
    BY SMT
  <2>. QED
    BY <2>1, WidthAssumption
<1>4. DBKey(At(0)) = DBKey(At(XYRange))
  BY <1>3 DEF DBKey
<1>5. At(0) # At(XYRange)
  BY WidthAssumption
<1>. QED
  BY <1>1, <1>2, <1>4, <1>5 DEF KeysDistinct

\* With the widths of the program, valid tiles up to zoom level 16 have keys with
\* room for their coordinates.
LEMMA AddressableToSixteen ==
  ASSUME IntBits = 64, ZRange = 256, XYRange = 65536,
         NEW t \in Tile, IsValid(t), t.Z <= 16
  PROVE  Addressable(t)
<1>1. t.Z \in Nat /\ ShiftOne(t.Z) = Columns(t.Z)
  BY ValidTile DEF Columns
<1>2. Columns(t.Z) <= 65536
  BY <1>1, ColumnsGrow, ColumnsAtSixteen
<1>. QED
  BY <1>1, <1>2 DEF Addressable

\* With the widths of the program (64 bits of int, 1 byte for Z, 2 for X and Y) the
\* index tells the tiles of a zoom level apart up to level 16, and at none of the
\* levels above that the handler lets through.
THEOREM SixteenIsTheLast ==
  ASSUME IntBits = 64, ZRange = 256, XYRange = 65536,
         NEW p \in Providers, NEW z \in 0..62
  PROVE  KeysDistinct({t \in Tile : IsValid(t) /\ t.Z = z}) <=> z <= 16
<1>1. ASSUME z <= 16 PROVE KeysDistinct({t \in Tile : IsValid(t) /\ t.Z = z})
  <2>1. \A t \in {u \in Tile : IsValid(u) /\ u.Z = z} : Addressable(t)
    BY <1>1, AddressableToSixteen
  <2>. QED
    BY <2>1, AddressableKeysDistinct
<1>2. ASSUME z > 16 PROVE ~KeysDistinct({t \in Tile : IsValid(t) /\ t.Z = z})
  <2>1. Columns(17) <= Columns(z)
    BY <1>2, ColumnsGrow
  <2>2. ShiftOne(z) = Columns(z) /\ Columns(z) \in Nat
    BY PowerType DEF ShiftOne, Columns
  <2>3. ShiftOne(z) > XYRange
    BY <2>1, <2>2, ColumnsAtSixteen
  <2>. QED
    BY <2>3, KeysCollide
<1>. QED
  BY <1>1, <1>2
=============================================================================
