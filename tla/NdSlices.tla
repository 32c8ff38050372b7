------------------------------ MODULE NdSlices ------------------------------
(***************************************************************************)
(* The slice arithmetic of the weight-sync planner in                       *)
(* tpu_sync/rpc/raiden_controller.py and kv_cache/nd_slice_math.py.         *)
(*                                                                         *)
(* A slice is a sequence of half-open intervals <<start, end>>, one per     *)
(* physical dimension.  <<>> stands for the two values Python treats as     *)
(* false: None (no overlap) and the empty list (rank zero).  A chunk is a   *)
(* strided byte copy.  Dimensions are numbered from 0 in the code and from  *)
(* 1 here; layouts (minor-to-major) keep the code's numbers.               *)
(***************************************************************************)
EXTENDS Integers, SequencesExt

\* A function as a table of its values.
Tabulate(f) == f @@ << >>

Prod(s) ==
  LET p[i \in 0..Len(s)] == IF i = 0 THEN 1 ELSE p[i - 1] * s[i] IN p[Len(s)]

\* The number at row-major position `coord' of a grid.
RowMajor(coord, dims) ==
  LET n[i \in 0..Len(dims)] == IF i = 0 THEN 0 ELSE n[i - 1] * dims[i] + coord[i]
  IN n[Len(dims)]

\* Element strides of a row-major array.
StridesOf(shape) ==
  Tabulate([d \in 1..Len(shape) |-> Prod(SubSeq(shape, d + 1, Len(shape)))])

\* The coordinates of row-major position i of a grid.
Coord(i, dims) ==
  LET s == StridesOf(dims) IN Tabulate([d \in 1..Len(dims) |-> (i \div s[d]) % dims[d]])

Extent(s) == Tabulate([d \in 1..Len(s) |-> s[d][2] - s[d][1]])

-----------------------------------------------------------------------------
(* to_physical, compute_nd_shard_slices *)

MajorToMinor(layout) == Tabulate(Reverse(layout))

ToPhysical(shape, mesh, layout) ==
  LET m2m == MajorToMinor(layout)
      position(d) == CHOOSE i \in 1..Len(layout) :
                       layout[i] = d /\ \A j \in 1..(i - 1) : layout[j] # d
      standard == ToSet(layout) = 0..(Len(shape) - 1) /\ Len(layout) = Len(shape)
  IN [shape |-> Tabulate([i \in 1..Len(m2m) |->
                   shape[IF standard THEN m2m[i] + 1 ELSE position(m2m[i])]]),
      mesh  |-> Tabulate([i \in 1..Len(m2m) |-> mesh[m2m[i] + 1]])]

\* One slice per mesh coordinate in row-major order; what does not divide
\* goes to the last shard of its dimension.
ComputeNdShardSlices(shape, mesh) ==
  Tabulate([g \in 1..Prod(mesh) |->
     LET c == Coord(g - 1, mesh) IN
       Tabulate([d \in 1..Len(shape) |->
          LET t == shape[d] \div mesh[d] IN
            << c[d] * t, IF c[d] < mesh[d] - 1 THEN (c[d] + 1) * t ELSE shape[d] >>])])

-----------------------------------------------------------------------------
(* _get_global_indices: which slice each local shard of a unit holds.  The  *)
(* sharding spec gives, per tensor dimension, the sequence of mesh axes it  *)
(* is split over (axis names are already resolved to positions, an unknown  *)
(* name to no axis at all).                                                 *)

HostAxis(mesh, hosts) ==
  LET A == {d \in 1..Len(mesh) : mesh[d] = hosts} IN IF A = {} THEN 0 ELSE Min(A)

SpecIndex(device, mesh, spec, devices) ==
  LET at == Coord(device, devices)
      along(axes) == FoldLeft(LAMBDA acc, a : acc * devices[a] + at[a], 0, axes)
  IN RowMajor([d \in 1..Len(mesh) |-> along(spec[d])], mesh)

HostAxisIndex(j, replica, mesh, layout, axis) ==
  LET others == Tabulate([i \in 1..(Len(mesh) - IF axis = 0 THEN 0 ELSE 1) |->
                            IF axis # 0 /\ i >= axis THEN i + 1 ELSE i])
      sizes  == Tabulate([i \in 1..Len(others) |-> mesh[others[i]]])
      at     == Coord(j % Prod(sizes), sizes)
      full   == [d \in 1..Len(mesh) |->
                   IF d = axis THEN replica
                   ELSE at[CHOOSE i \in 1..Len(others) : others[i] = d]]
      m2m    == MajorToMinor(layout)
  IN RowMajor([i \in 1..Len(m2m) |-> full[m2m[i] + 1]],
              [i \in 1..Len(m2m) |-> mesh[m2m[i] + 1]])

GetGlobalIndices(replica, shards, mesh, layout, hosts, spec, devices) ==
  Tabulate([j \in 1..shards |->
     IF mesh = <<>> THEN j - 1
     ELSE IF \A d \in 1..Len(mesh) : mesh[d] = 1 THEN 0
     ELSE IF HostAxis(mesh, hosts) = 0 /\ spec # <<>> /\ devices # <<>>
          THEN SpecIndex(replica * shards + j - 1, mesh, spec, devices)
          ELSE HostAxisIndex(j - 1, replica, mesh, layout, HostAxis(mesh, hosts))])

-----------------------------------------------------------------------------
(* intersect_nd_slices and the two chunk generators *)

IntersectNdSlices(a, b) ==
  LET r == Tabulate([d \in 1..Len(a) |->
             << Max({a[d][1], b[d][1]}), Min({a[d][2], b[d][2]}) >>])
  IN IF \E d \in 1..Len(r) : r[d][1] >= r[d][2] THEN <<>> ELSE r

Chunk(src, dst, size, sstride, dstride, count) ==
  [src |-> src, dst |-> dst, size |-> size,
   sstride |-> sstride, dstride |-> dstride, count |-> count]

\* The innermost dimension that the intersection does not fill in both
\* shards; 0 when it fills them all.
SplitDim(src, dst, int) ==
  LET short == {d \in 1..Len(int) : Extent(int)[d] # Extent(src)[d] \/ Extent(int)[d] # Extent(dst)[d]}
  IN IF short = {} THEN 0 ELSE Max(short)

GenerateStridedCopyChunks(src, dst, int, isz) ==
  LET shape  == Extent(int)
      split  == SplitDim(src, dst, int)
      strd   == IF split = 0 THEN 0 ELSE Max({1, split - 1})
      run    == IF split = 0 THEN Prod(shape)
                ELSE Prod(SubSeq(shape, Max({2, split}), Len(shape)))
      outer  == IF split = 0 THEN <<>> ELSE SubSeq(shape, 1, strd - 1)
      stride(s) == IF strd = 0 THEN 0 ELSE StridesOf(Extent(s))[strd] * isz
      base(s, at) == FoldLeft(LAMBDA acc, d :
                        acc + (int[d][1] - s[d][1] + (IF d <= Len(outer) THEN at[d] ELSE 0))
                              * StridesOf(Extent(s))[d],
                        0, [d \in 1..Len(s) |-> d]) * isz
  IN [i \in 1..Prod(outer) |->
        LET at == Coord(i - 1, outer) IN
          Chunk(base(src, at), base(dst, at), run * isz, stride(src), stride(dst),
                IF strd = 0 THEN 1 ELSE shape[strd])]

\* Both shards and their intersection sit on whole hardware tiles.
IsNdSliceTileAligned(src, dst, int, tile) ==
  LET r == Len(src) IN
    /\ r >= 2
    /\ \A k \in {1, 2} :
         LET d == r - 2 + k IN
           /\ (int[d][1] - src[d][1]) % tile[k] = 0
           /\ (int[d][1] - dst[d][1]) % tile[k] = 0
           /\ \A s \in {src, dst, int} : (s[d][2] - s[d][1]) % tile[k] = 0

\* The same copy between two buffers kept in tiled order.
GenerateStridedCopyChunksTileAware(src, dst, int, isz, tile) ==
  LET r      == Len(src)
      rows   == Extent(int)[r - 1] \div tile[1]
      size   == Extent(int)[r] * tile[1] * isz
      stride(s) == Extent(s)[r] * tile[1] * isz
      inner(s)  == (int[r-1][1] - s[r-1][1]) * Extent(s)[r] * isz
                   + (int[r][1] - s[r][1]) * tile[1] * isz
      outer  == SubSeq(Extent(int), 1, r - 2)
      ostride(s) == [d \in 1..(r - 2) |-> StridesOf(Extent(s))[d] * isz]
      base(s, at) == FoldLeft(LAMBDA acc, d : acc + (int[d][1] - s[d][1] + at[d]) * ostride(s)[d],
                              inner(s), [d \in 1..(r - 2) |-> d])
      whole  == size = stride(src) /\ size = stride(dst)
      merged == size * rows
      zero   == [d \in 1..(r - 2) |-> 0]
  IN IF r = 1
     THEN << Chunk((int[1][1] - src[1][1]) * isz, (int[1][1] - dst[1][1]) * isz,
                   Extent(int)[1] * isz, 0, 0, 1) >>
     ELSE IF r = 2
     THEN IF whole THEN << Chunk(inner(src), inner(dst), merged, 0, 0, 1) >>
          ELSE << Chunk(inner(src), inner(dst), size, stride(src), stride(dst), rows) >>
     ELSE IF (rows = 1 \/ whole) /\ r = 3 /\ merged = ostride(dst)[1]
     THEN IF merged = ostride(src)[1]
          THEN << Chunk(base(src, zero), base(dst, zero), merged * outer[1], 0, 0, 1) >>
          ELSE << Chunk(base(src, zero), base(dst, zero), merged,
                        ostride(src)[1], ostride(dst)[1], outer[1]) >>
     ELSE [i \in 1..Prod(outer) |->
             Chunk(base(src, Coord(i - 1, outer)), base(dst, Coord(i - 1, outer)),
                   size, stride(src), stride(dst), rows)]
=============================================================================
