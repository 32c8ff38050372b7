------------------------------- MODULE Tiling -------------------------------
(***************************************************************************)
(* tpu_sync/weight_sync/tiling_utils.cc: the conversion between a linear    *)
(* host buffer and the tiled buffer of the device.                          *)
(*                                                                         *)
(* A buffer is a sequence of elements.  A layout is a sequence of tiles,    *)
(* each a sequence of tile dimensions; the fast paths take one two-         *)
(* dimensional tile <<H, W>>, optionally packed by a second one <<P, 1>>.   *)
(* The vector instructions and the thread pool divide the same copies and   *)
(* are not visible in the result.                                           *)
(***************************************************************************)
EXTENDS NdSlices

CeilDiv(a, b) == (a + b - 1) \div b

\* What padding is filled with; an element of a weight is its tuple of bytes.
ZeroElement == <<>>

\* XLA's LayoutUtil::LinearIndexForNestedTiling: the place in the tiled
\* buffer of the element at physical coordinates `coord'.
NestedTileIndex(coord, shape, tiles) ==
  LET split(at, t) ==
        LET ones  == [i \in 1..Max({0, Len(t) - Len(at.shape)}) |-> 1]
            s     == ones \o at.shape
            c     == [i \in 1..Len(ones) |-> 0] \o at.coord
            k     == Len(s) - Len(t)
        IN [coord |-> SubSeq(c, 1, k) \o [i \in 1..Len(t) |-> c[k + i] \div t[i]]
                                      \o [i \in 1..Len(t) |-> c[k + i] % t[i]],
            shape |-> SubSeq(s, 1, k) \o [i \in 1..Len(t) |-> CeilDiv(s[k + i], t[i])] \o t]
      at[i \in 0..Len(tiles)] ==
        IF i = 0 THEN [coord |-> coord, shape |-> shape] ELSE split(at[i - 1], tiles[i])
      last == at[Len(tiles)]
  IN RowMajor(last.coord, last.shape)

\* The shape a tiled buffer has after each tile has split its last
\* dimensions; the product of it is the buffer's size.
GetTiledBufferElements(shape, tiles) ==
  LET split(s, t) ==
        LET q == [i \in 1..Max({0, Len(t) - Len(s)}) |-> 1] \o s
            k == Len(q) - Len(t)
        IN SubSeq(q, 1, k) \o [i \in 1..Len(t) |-> CeilDiv(q[k + i], t[i])] \o t
  IN IF shape = <<>> THEN 1
     ELSE Prod(FoldLeft(split, IF Len(shape) = 1 THEN <<1>> \o shape ELSE shape, tiles))

IsStandardRowMajorTiled(shape, layout, tiles) ==
  /\ Len(shape) >= 1
  /\ \A i \in 1..Len(shape) : layout[i] = Len(shape) - i
  /\ \/ Len(tiles) = 1 /\ Len(tiles[1]) = 2
     \/ /\ Len(tiles) = 2 /\ Len(tiles[1]) = 2 /\ Len(tiles[2]) = 2
        /\ tiles[2][2] = 1 /\ tiles[2][1] \in {2, 4} /\ tiles[1][1] % tiles[2][1] = 0

\* The matrix the fast paths work on: H rows, W columns, B of them.
Matrix(shape, tiles) ==
  LET r == Len(shape) IN
  [H |-> IF r = 1 THEN 1 ELSE shape[r - 1], W |-> shape[r],
   B |-> Prod(SubSeq(shape, 1, r - 2)),
   tH |-> tiles[1][1], tW |-> tiles[1][2],
   P |-> IF Len(tiles) >= 2 THEN tiles[2][1] ELSE 1]

Grid(m) == << CeilDiv(m.H, m.tH), CeilDiv(m.W, m.tW) >>

HasPadding(m) == m.H % m.tH # 0 \/ m.W % m.tW # 0

\* A tile holds groups of P rows; inside a group the P rows alternate
\* element by element.
RowInTile(m, k) == (k \div (m.tW * m.P)) * m.P + (k % m.P)
ColInTile(m, k) == (k % (m.tW * m.P)) \div m.P
PlaceInTile(m, r, c) == (r \div m.P) * m.tW * m.P + c * m.P + (r % m.P)

CopyTilePackedNoPadding(src, m, b, tr, tc) ==
  [k \in 1..(m.tH * m.tW) |->
     src[(b * m.H + tr * m.tH + RowInTile(m, k - 1)) * m.W + tc * m.tW + ColInTile(m, k - 1) + 1]]

\* Rows and columns beyond the matrix are filled with zeros.
CopyTilePackedWithPadding(src, m, b, tr, tc) ==
  [k \in 1..(m.tH * m.tW) |->
     LET r == tr * m.tH + RowInTile(m, k - 1)
         c == tc * m.tW + ColInTile(m, k - 1)
     IN IF r < m.H /\ c < m.W THEN src[(b * m.H + r) * m.W + c + 1] ELSE ZeroElement]

TileBufferNDOptimized(src, shape, tiles) ==
  LET m == Matrix(shape, tiles)
      g == Grid(m)
      tile(n) == LET b == n \div (g[1] * g[2])
                     tr == (n \div g[2]) % g[1]
                     tc == n % g[2]
                     interior == tr * m.tH + m.tH <= m.H /\ tc * m.tW + m.tW <= m.W
                 IN IF ~HasPadding(m) \/ interior
                    THEN CopyTilePackedNoPadding(src, m, b, tr, tc)
                    ELSE CopyTilePackedWithPadding(src, m, b, tr, tc)
  IN IF m.P = 1 /\ ~HasPadding(m) /\ (m.W = m.tW \/ (m.H = 1 /\ m.tH = 1))
     THEN src
     ELSE FlattenSeq([n \in 1..(m.B * g[1] * g[2]) |-> tile(n - 1)])

\* Where the element of row r and column c of matrix b is in the tiled buffer.
DetileSingleTilePacked(tiled, m, b, r, c) ==
  LET g == Grid(m)
      n == (b * g[1] + r \div m.tH) * g[2] + c \div m.tW
  IN tiled[n * m.tH * m.tW + PlaceInTile(m, r % m.tH, c % m.tW) + 1]

DetileBufferNDOptimized(tiled, shape, tiles) ==
  LET m == Matrix(shape, tiles) IN
    IF m.P = 1 /\ ~HasPadding(m) /\ (m.W = m.tW \/ (m.H = 1 /\ m.tH = 1))
    THEN tiled
    ELSE [i \in 1..(m.B * m.H * m.W) |->
            DetileSingleTilePacked(tiled, m, (i - 1) \div (m.H * m.W),
                                   ((i - 1) \div m.W) % m.H, (i - 1) % m.W)]

\* Where element i of the linear buffer, which is in the order of the logical
\* dimensions whatever the layout, is in the tiled one.
PhysicalIndex(i, shape, layout, tiles) ==
  LET c   == Coord(i, shape)
      m2m == MajorToMinor(layout)
  IN NestedTileIndex([d \in 1..Len(m2m) |-> c[m2m[d] + 1]],
                     [d \in 1..Len(m2m) |-> shape[m2m[d] + 1]], tiles)

DetileBuffer(tiled, shape, layout, tiles) ==
  IF tiles = <<>> THEN tiled
  ELSE IF IsStandardRowMajorTiled(shape, layout, tiles)
  THEN DetileBufferNDOptimized(tiled, shape, tiles)
  ELSE [i \in 1..Prod(shape) |-> tiled[PhysicalIndex(i - 1, shape, layout, tiles) + 1]]

TileBuffer(linear, shape, layout, tiles) ==
  IF tiles = <<>> THEN linear
  ELSE IF IsStandardRowMajorTiled(shape, layout, tiles)
  THEN TileBufferNDOptimized(linear, shape, tiles)
  ELSE LET at == [i \in 1..Prod(shape) |-> PhysicalIndex(i - 1, shape, layout, tiles)]
           physical == [d \in 1..Len(shape) |-> shape[MajorToMinor(layout)[d] + 1]]
       IN [k \in 1..GetTiledBufferElements(physical, tiles) |->
             IF \E i \in 1..Prod(shape) : at[i] = k - 1
             THEN linear[CHOOSE i \in 1..Prod(shape) : at[i] = k - 1] ELSE ZeroElement]
=============================================================================
