---------------------------- MODULE SyncPlanner ----------------------------
(***************************************************************************)
(* The plan RaidenController.start_transfer (rpc/raiden_controller.py)      *)
(* computes for a weight transfer, and its expansion into push tasks by     *)
(* PushWeightsResharded and RawBufferTransport::PushBuffers.                *)
(*                                                                         *)
(* A deployment c is what the units registered:                             *)
(*   src, dst     the source and destination units, in request order;       *)
(*   shards[u]    how many local shards u has, replica[u] its replica       *)
(*                number, hosts[side] the replicas registered for a job;    *)
(*   mesh[side]   the device mesh of a job, <<>> when not registered;       *)
(*   vars         one record per layer: shape, layout (minor to major),     *)
(*                isz (bytes per element), tiles of the device layout, and  *)
(*                per side the sharding mesh and sharding spec;             *)
(*   K, group     broadcast_k and group_size.                               *)
(* A data address belongs to one unit, so a peer is a unit here.            *)
(***************************************************************************)
EXTENDS Tiling

CONSTANT TileShape   \* the hardware tile, (8, 128) in the code

Side(c, u) == IF u \in ToSet(c.src) THEN "src" ELSE "dst"

Slices(c, side, l) ==
  LET v == c.vars[l]
      p == ToPhysical(v.shape, v.mesh[side], v.layout)
  IN ComputeNdShardSlices(p.shape, p.mesh)

\* The slice shard j of unit u holds of layer l; <<>> when the mapping gives
\* it none.
HeldSlice(c, u, l, j) ==
  LET side == Side(c, u)
      v    == c.vars[l]
      g    == GetGlobalIndices(c.replica[u], c.shards[u], v.mesh[side], v.layout,
                               c.hosts[side], v.spec[side], c.mesh[side])[j]
      sl   == Slices(c, side, l)
  IN IF g < Len(sl) THEN sl[g + 1] ELSE <<>>

\* A layer may travel in tiled order only when every pair of intersecting
\* slices is on whole tiles.
SkipTiling(c) ==
  Tabulate([l \in 1..Len(c.vars) |->
     \A s \in ToSet(Slices(c, "src", l)), d \in ToSet(Slices(c, "dst", l)) :
       LET i == IntersectNdSlices(s, d)
       IN i # <<>> => IsNdSliceTileAligned(s, d, i, TileShape)])

\* The deployment with what every later step of the planning reads.
WithSlices(c) ==
  c @@ [skip |-> SkipTiling(c),
        held |-> Tabulate([u \in ToSet(c.src) \cup ToSet(c.dst) |->
                   Tabulate([l \in 1..Len(c.vars) |->
                     Tabulate([j \in 1..c.shards[u] |-> HeldSlice(c, u, l, j)])])])]

Held(c, u, l, j) == c.held[u][l][j]

\* All source shards with the same slice, in request order.
SrcSliceHolders(c, l, sl) ==
  SelectSeq(FlattenSeq([i \in 1..Len(c.src) |->
              [j \in 1..c.shards[c.src[i]] |-> << c.src[i], j >>]]),
            LAMBDA h : Held(c, h[1], l, h[2]) = sl)

\* Replicated source slices are sent once, by a holder picked by the
\* destination shard's position.
Sends(c, l, u, i, n, j) ==
  LET h == SrcSliceHolders(c, l, Held(c, u, l, i))
  IN h[((((n - 1) * c.shards[c.dst[n]]) + j - 1) % Len(h)) + 1] = << u, i >>

Chunks(c, l, s, d) ==
  LET int == IntersectNdSlices(s, d)
  IN IF c.skip[l] /\ IsNdSliceTileAligned(s, d, int, TileShape)
     THEN GenerateStridedCopyChunksTileAware(s, d, int, c.vars[l].isz, TileShape)
     ELSE GenerateStridedCopyChunks(s, d, int, c.vars[l].isz)

\* What shard i of source unit u pushes of layer l to shard j of the n-th
\* destination unit.
PairEntries(c, u, i, l, n, j) ==
  LET s == Held(c, u, l, i)
      d == Held(c, c.dst[n], l, j)
  IN IF s = <<>> \/ d = <<>> THEN <<>>
     ELSE IF IntersectNdSlices(s, d) = <<>> \/ ~Sends(c, l, u, i, n, j) THEN <<>>
     ELSE LET ch == Chunks(c, l, s, d)
          IN [k \in 1..Len(ch) |->
                [peer |-> c.dst[n], dshard |-> j, doff |-> ch[k].dst,
                 sshard |-> i, soff |-> ch[k].src, size |-> ch[k].size,
                 sstride |-> ch[k].sstride, dstride |-> ch[k].dstride,
                 count |-> ch[k].count, layer |-> l]]

Schedule(c, u) ==
  FlattenSeq([l \in 1..Len(c.vars) |-> FlattenSeq([i \in 1..c.shards[u] |->
    FlattenSeq([n \in 1..Len(c.dst) |-> FlattenSeq([j \in 1..c.shards[c.dst[n]] |->
      PairEntries(c, u, i, l, n, j)])])])])

Planned(c) ==
  LET p == WithSlices(c) IN p @@ [sched |-> Tabulate([u \in ToSet(c.src) |-> Schedule(p, u)])]

-----------------------------------------------------------------------------
(* Direct pushes and broadcast trees.  Entries that read the same bytes of  *)
(* the same source shard form a group; a group with more destination units  *)
(* than broadcast_k is sent down a tree.                                    *)

KeyOf(e) == << e.sshard, e.soff, e.size, e.sstride, e.count, e.layer >>

Targets(sched, k) == SelectSeq(sched, LAMBDA e : KeyOf(e) = k)

IsTree(c, sched, k) ==
  LET n == Cardinality({e.peer : e \in ToSet(Targets(sched, k))}) IN n > 1 /\ n > c.K

Direct(c, u) ==
  LET s == c.sched[u] IN SelectSeq(s, LAMBDA e : ~IsTree(c, s, KeyOf(e)))

\* Broadcast groups: entries of one source shard and one layer group with
\* the same targets travel together.
Route(sched, k) == {<< e.peer, e.dshard >> : e \in ToSet(Targets(sched, k))}

LayerGroup(c, l) == IF c.group > 1 THEN (l - 1) \div c.group ELSE l - 1

Trees(c) ==
  UNION {LET s == c.sched[u] IN
           {[src |-> u, shard |-> e.sshard, lg |-> LayerGroup(c, e.layer),
             route |-> Route(s, KeyOf(e))]
              : e \in {x \in ToSet(s) : IsTree(c, s, KeyOf(x))}}
         : u \in ToSet(c.src)}

TreeEntries(c, t) ==
  LET s == c.sched[t.src] IN
    SelectSeq(s, LAMBDA e : /\ IsTree(c, s, KeyOf(e))
                            /\ e.sshard = t.shard
                            /\ LayerGroup(c, e.layer) = t.lg
                            /\ Route(s, KeyOf(e)) = t.route)

TreeDsts(c, t) == SelectSeq(c.dst, LAMBDA d : \E r \in t.route : r[1] = d)

\* The entries of one hop of a tree: unit p pushes to d what the tree's
\* source would.  A promoted unit reads them where it received them: at the
\* offsets of its first target shard.
HopEntries(c, t, p, d) ==
  LET all == TreeEntries(c, t)
      own == {e \in ToSet(all) : e.peer = p}
      first == IF p = t.src THEN 0 ELSE Min({e.dshard : e \in own})
      at(e) == CHOOSE x \in own : KeyOf(x) = KeyOf(e) /\ x.dshard = first
      mine == SelectSeq(all, LAMBDA e : e.peer = d)
  IN IF p = t.src THEN mine
     ELSE [i \in 1..Len(mine) |->
             [mine[i] EXCEPT !.sshard = first, !.soff = at(mine[i]).doff,
                             !.sstride = at(mine[i]).dstride]]

-----------------------------------------------------------------------------
(* How many pushes a receiver is told to expect, and how many are made. *)

PushCount(e) ==
  IF e.count = 1 \/ (e.sstride = e.size /\ e.dstride = e.size) THEN 1 ELSE e.count

SumCounts(sched, Test(_)) ==
  FoldLeft(LAMBDA n, e : IF Test(e) THEN n + PushCount(e) ELSE n, 0, sched)

AllDirect(c) == FlattenSeq([i \in 1..Len(c.src) |-> Direct(c, c.src[i])])

\* Fault: a strided entry counts as one push.
DstUnitCountsOfEntries(all) ==
  Tabulate([d \in {e.peer : e \in ToSet(all)} |->
     Len(SelectSeq(all, LAMBDA e : e.peer = d))])

DstUnitCounts(all) ==
  Tabulate([d \in {e.peer : e \in ToSet(all)} |-> SumCounts(all, LAMBDA e : e.peer = d)])

\* Fault: a strided entry counts as one push.
DstUnitLayerCountsOfEntries(all, d) ==
  Tabulate([l \in {e.layer : e \in {x \in ToSet(all) : x.peer = d}} |->
     Len(SelectSeq(all, LAMBDA e : e.peer = d /\ e.layer = l))])

DstUnitLayerCounts(all, d) ==
  Tabulate([l \in {e.layer : e \in {x \in ToSet(all) : x.peer = d}} |->
     SumCounts(all, LAMBDA e : e.peer = d /\ e.layer = l)])

\* A strided entry becomes one push per row, a contiguous one a single push.
TasksOf(e) ==
  IF e.count = 1 \/ (e.sstride = e.size /\ e.dstride = e.size)
  THEN << [peer |-> e.peer, layer |-> e.layer, dshard |-> e.dshard, doff |-> e.doff,
           sshard |-> e.sshard, soff |-> e.soff, size |-> e.count * e.size] >>
  ELSE [k \in 1..e.count |->
          [peer |-> e.peer, layer |-> e.layer, dshard |-> e.dshard,
           doff |-> e.doff + (k - 1) * e.dstride,
           sshard |-> e.sshard, soff |-> e.soff + (k - 1) * e.sstride, size |-> e.size]]

LayerTasks(sched, l) ==
  FlattenSeq([i \in 1..Len(sched) |-> IF sched[i].layer = l THEN TasksOf(sched[i]) ELSE <<>>])

\* PushBuffers: the tasks of each peer in `par' batches of nearly equal size,
\* never more than IovMax to a batch; with a coalescing window a batch is cut
\* again so that its bytes fit the window, but holds at least one task.
CONSTANT IovMax
CoalesceWindow(tasks, window) ==
  LET bytes(b) == FoldLeft(LAMBDA n, t : n + t.size, 0, b)
      add(bs, t) == IF bs # <<>> /\ bytes(Last(bs)) + t.size <= window
                    THEN Front(bs) \o << Append(Last(bs), t) >>
                    ELSE Append(bs, << t >>)
  IN IF window = 0 THEN << tasks >> ELSE FoldLeft(add, <<>>, tasks)

Batches(tasks, par, window, peers) ==
  FlattenSeq([n \in 1..Len(peers) |->
    LET mine == SelectSeq(tasks, LAMBDA t : t.peer = peers[n])
        size == Min({Max({1, CeilDiv(Len(mine), Max({1, par}))}), IovMax})
    IN FlattenSeq([b \in 1..CeilDiv(Len(mine), size) |->
         CoalesceWindow(SubSeq(mine, (b - 1) * size + 1, Min({b * size, Len(mine)})),
                        window)])])
=============================================================================
