----------------------------- MODULE PoolLayout -----------------------------
(***************************************************************************)
(* The byte geometry of block pools (pool_layout.cc).  A pool is an array  *)
(* of equally strided blocks inside a storage; regions say which bytes of  *)
(* a block are live, the rest is padding.  Offsets are bytes.  The         *)
(* storages of a worker are laid end to end, so that an address stands for *)
(* a storage index and an offset.  The int64 overflow checks of the code   *)
(* guard sizes far above any checked here and are left out.                *)
(***************************************************************************)
EXTENDS Integers, Sequences, FiniteSets, FiniteSetsExt, SequencesExt

\* A finite set of integers, in ascending order.
Ascending(S) ==
  [k \in 1 .. Cardinality(S) |-> CHOOSE x \in S : Cardinality({y \in S : y < x}) = k - 1]

RegionSpec(off, stride, unit, n, ups) ==
  [off |-> off, stride |-> stride, unit |-> unit, n |-> n, ups |-> ups]

PoolSpec(tag, base, stride, blocks, regions) ==
  [tag |-> tag, base |-> base, stride |-> stride, blocks |-> blocks,
   regions |-> regions]

PackedBytes(r) == r.unit * r.ups

\* extent_end_bytes
ExtentEnd(r) ==
  IF r.n = 0 THEN r.off ELSE r.off + (r.n - 1) * r.stride + PackedBytes(r)

RegionValid(r, slot) ==
  /\ slot > 0 /\ r.off >= 0 /\ r.stride >= 0 /\ r.unit >= 0 /\ r.n >= 0
  /\ r.ups > 0
  /\ r.n > 0 => r.unit > 0 /\ r.stride >= PackedBytes(r)
  /\ r.off + (IF r.n > 0 THEN r.n - 1 ELSE 0) * r.stride + PackedBytes(r) <= slot

BlockLiveEnd(p) == Max({0} \cup {ExtentEnd(r) : r \in Range(p.regions)})

\* storage_extent_end_bytes
StorageExtentEnd(p) == p.base + (p.blocks - 1) * p.stride + BlockLiveEnd(p)

PoolValid(p, storage) ==
  /\ p.stride > 0 /\ p.blocks > 0 /\ p.base >= 0 /\ p.regions # << >>
  /\ \A r \in Range(p.regions) : RegionValid(r, p.stride)
  /\ StorageExtentEnd(p) <= storage

\* RegionCoversOffset: the unit an offset falls in is found by division.
RegionCoversOffset(r, o) ==
  /\ r.n > 0 /\ o >= r.off /\ PackedBytes(r) > 0
  /\ LET u == IF r.n > 1 THEN (o - r.off) \div r.stride ELSE 0
     IN  /\ u < r.n
         /\ o < r.off + u * r.stride + PackedBytes(r)

RegionsCoverRange(regions, start, end) ==
  \A o \in start .. end - 1 : \E r \in Range(regions) : RegionCoversOffset(r, o)

\* The runs of live bytes of one region: its units, or one run if they abut.
RegionIntervals(r) ==
  IF r.n > 0 /\ r.stride = PackedBytes(r)
  THEN {<<r.off, r.off + r.n * PackedBytes(r)>>}
  ELSE {<<r.off + u * r.stride, r.off + u * r.stride + PackedBytes(r)>> :
           u \in 0 .. r.n - 1}

IntervalBytes(iv) == iv[1] .. iv[2] - 1

LiveOffsets(p) ==
  UNION {UNION {IntervalBytes(iv) : iv \in RegionIntervals(r)} : r \in Range(p.regions)}

\* ComputePoolBlockCopyExtents, as the set of addresses its merged extents hold.
CopyAddresses(p, ids) ==
  {p.base + b * p.stride + o : b \in ids, o \in LiveOffsets(p)}

\* ExpandPoolLiveSegments succeeds: no region reaches past the stride, overlaps
\* itself or another.
SegmentsOk(p) ==
  /\ p.stride > 0
  /\ \A r \in Range(p.regions) :
       /\ r.off >= 0 /\ r.n >= 0 /\ r.ups > 0
       /\ r.n > 0 => PackedBytes(r) > 0 /\ r.stride >= PackedBytes(r)
       /\ \A iv \in RegionIntervals(r) : iv[2] <= p.stride
  /\ \A i, j \in DOMAIN p.regions : i # j =>
       \A a \in RegionIntervals(p.regions[i]), b \in RegionIntervals(p.regions[j]) :
         IntervalBytes(a) \cap IntervalBytes(b) = {}

\* The segments, as the map they define from compact-live offsets to physical
\* ones: live bytes in physical order, without the padding between them.
LiveSegments(p) ==
  LET s == Ascending(LiveOffsets(p))
  IN  [k \in 0 .. Len(s) - 1 |-> s[k + 1]]

LiveBytes(p) == Cardinality(LiveOffsets(p))

\* PhysicalLiveRangeToLogical: where a range that crosses no padding starts, or -1.
PhysicalLiveRangeToLogical(seg, physical, size) ==
  LET at == {k \in DOMAIN seg : /\ k + size - 1 \in DOMAIN seg
                                /\ \A j \in 0 .. size - 1 : seg[k + j] = physical + j}
  IN  IF at = {} THEN -1 ELSE CHOOSE k \in at : TRUE

\* A compact-live copy as physical chunks, cut at every gap of either side.
TranslateLiveCopy(src, dst, so, do, size) ==
  LET cut == {k \in 0 .. size - 1 :
                \/ k = 0
                \/ src[so + k] # src[so + k - 1] + 1
                \/ dst[do + k] # dst[do + k - 1] + 1}
      c   == Ascending(cut)
      end == [i \in DOMAIN c |-> IF i = Len(c) THEN size ELSE c[i + 1]]
  IN  [i \in DOMAIN c |->
         [src |-> src[so + c[i]], dst |-> dst[do + c[i]], size |-> end[i] - c[i]]]
=============================================================================
