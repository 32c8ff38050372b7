---------------------------- MODULE PoolPlanner ----------------------------
(***************************************************************************)
(* BuildPoolReshardPlan (pool_reshard_planner.cc): from the pool manifests *)
(* of the source ranks and of the destination, and the byte spans the      *)
(* ranks declared for a request, the schedule of copies that moves the     *)
(* request's live bytes into the destination's blocks.                     *)
(*                                                                         *)
(* A request q has                                                         *)
(*   units   the source units, in the order of the call                    *)
(*   meta    per unit, its registration: [fp, pools, par, rank]            *)
(*   dmeta   the destination's: [fp, pools]                                *)
(*   tags, dst, counts, skip, par   the arguments of the transfer          *)
(*   decl    per unit, a sequence of PoolSpanRegistrations                 *)
(* Pools, groups and block ordinals are numbered from 1, blocks, offsets   *)
(* and page indices from 0.  An absent argument is << >> or 0.             *)
(***************************************************************************)
EXTENDS PoolLayout, TLC

\* The function itself, with its values computed once.
Tabulate(f) == f @@ << >>

PoolByteSpan(ord, so, idx, do, size, ss, ds, cnt) ==
  [ord |-> ord, so |-> so, idx |-> idx, do |-> do, size |-> size,
   ss |-> ss, ds |-> ds, cnt |-> cnt]

Entry(group, sb, db, chunk) ==
  [group |-> group, sb |-> sb, db |-> db, so |-> chunk.src, do |-> chunk.dst,
   size |-> chunk.size]

SumSeq(s) ==
  LET sum[i \in 0 .. Len(s)] == IF i = 0 THEN 0 ELSE sum[i - 1] + s[i]
  IN  sum[Len(s)]

Units(q) == Range(q.units)

RequestOk(q) ==
  /\ q.units # << >> /\ IsInjective(q.units)
  /\ q.dst # << >> /\ \A i \in DOMAIN q.dst : q.dst[i] >= 0

Identity(pools) == [i \in DOMAIN pools |-> pools[i].tag]

MetadataOk(q) ==
  /\ q.dmeta.pools # << >>
  /\ \A u \in Units(q) :
       /\ q.meta[u].fp = q.dmeta.fp
       /\ Identity(q.meta[u].pools) = Identity(q.dmeta.pools)
       /\ q.meta[u].pools = q.meta[q.units[1]].pools

\* dst_block_counts, or all blocks for a single tag.
Counts(q) == IF q.counts = << >> /\ Len(q.tags) = 1 THEN <<Len(q.dst)>> ELSE q.counts

TagsOk(q) ==
  /\ q.tags # << >> /\ IsInjective(q.tags)
  /\ Len(Counts(q)) = Len(q.tags)
  /\ \A g \in DOMAIN q.tags : Counts(q)[g] > 0
  /\ SumSeq(Counts(q)) = Len(q.dst)
  /\ q.skip # << >> => Len(q.skip) = Len(q.tags) /\ \A g \in DOMAIN q.skip : q.skip[g] >= 0
  /\ Range(q.tags) \subseteq Range(Identity(q.dmeta.pools))

\* The destination blocks of tag g: the split of dst_device_block_ids.
TagDst(q, g) ==
  LET from == SumSeq(SubSeq(Counts(q), 1, g - 1))
  IN  SubSeq(q.dst, from + 1, from + Counts(q)[g])

TagSkip(q, g) == IF q.skip = << >> THEN 0 ELSE q.skip[g]

Topology(q) == q.meta[q.units[1]].par
Parallelism(q) == IF q.par = 0 THEN Topology(q) ELSE q.par

TopologyOk(q) ==
  /\ \A u \in Units(q) : q.meta[u].par = Topology(q) /\ q.meta[u].par > 0
  /\ {q.meta[u].rank : u \in Units(q)} = 0 .. Len(q.units) - 1
  /\ Parallelism(q) \in 1 .. Topology(q)

Selected(q, g) == {i \in DOMAIN q.dmeta.pools : q.dmeta.pools[i].tag = q.tags[g]}
SrcPool(q, g) == q.meta[q.units[1]].pools[Min(Selected(q, g))]
DstPool(q, g) == q.dmeta.pools[Min(Selected(q, g))]

TagPrecheck(q, g) ==
  LET sp(i) == q.meta[q.units[1]].pools[i]
      dp(i) == q.dmeta.pools[i]
  IN  /\ IsInjective(TagDst(q, g))
      /\ \A i \in Selected(q, g) :
           /\ SegmentsOk(sp(i)) /\ SegmentsOk(dp(i))
           /\ LiveBytes(sp(i)) > 0 /\ LiveBytes(dp(i)) > 0
           /\ LiveSegments(sp(i)) = LiveSegments(SrcPool(q, g))
           /\ LiveSegments(dp(i)) = LiveSegments(DstPool(q, g))
      /\ TagSkip(q, g) % LiveBytes(DstPool(q, g)) = 0

\* The declarations of tag g that name spans, unit by unit.
Declared(q, g) ==
  FlattenSeq([i \in DOMAIN q.units |->
    LET u == q.units[i]
        d == SelectSeq(q.decl[u], LAMBDA e : e.tag = q.tags[g] /\ e.spans # << >>)
    IN  [j \in DOMAIN d |-> [unit |-> u] @@ d[j]]])

\* Fault: a clipped span keeps reading its source from the span's start.
PageSplitUnadvanced(s, skip, live) ==
  LET lo == Max({s.do, skip}) - skip
      hi == s.do + s.size - skip
      piece(p) == LET a == Max({lo, p * live})
                  IN  PoolByteSpan(s.ord, s.so + (a - lo), p, a - p * live,
                                   Min({hi, (p + 1) * live}) - a, 0, 0, 1)
      from == lo \div live
  IN  IF hi <= 0 THEN << >>
      ELSE [k \in 1 .. ((hi - 1) \div live) - from + 1 |-> piece(from + k - 1)]

\* A span in the destination's global space (version 1), clipped below skip and
\* cut at destination pages.
PageSplit(s, skip, live) ==
  LET lo == Max({s.do, skip}) - skip
      hi == s.do + s.size - skip
      adv == Max({0, skip - s.do})
      piece(p) == LET a == Max({lo, p * live})
                  IN  PoolByteSpan(s.ord, s.so + adv + (a - lo), p, a - p * live,
                                   Min({hi, (p + 1) * live}) - a, 0, 0, 1)
      from == lo \div live
  IN  IF hi <= 0 THEN << >>
      ELSE [k \in 1 .. ((hi - 1) \div live) - from + 1 |-> piece(from + k - 1)]

ConvertOk(q, g) ==
  LET d == Declared(q, g)
  IN  \A i \in DOMAIN d :
        IF d[i].version = 0 THEN TagSkip(q, g) = 0
        ELSE \A s \in Range(d[i].spans) : s.cnt <= 1 /\ s.ss = 0 /\ s.ds = 0 /\ s.idx = 0

Converted(q, g) ==
  LET d == Declared(q, g)
      live == LiveBytes(DstPool(q, g))
      split(s) == PageSplit(s, TagSkip(q, g), live)
  IN  [i \in DOMAIN d |->
        IF d[i].version = 0 THEN d[i]
        ELSE [d[i] EXCEPT !.version = 0,
                          !.spans = FlattenSeq([j \in DOMAIN d[i].spans |-> split(d[i].spans[j])])]]

\* What the clip removed, and where the declared global space ends.
Clipped(q, g) ==
  SumSeq(FlattenSeq([i \in DOMAIN Declared(q, g) |->
    LET d == Declared(q, g)[i]
    IN  [j \in DOMAIN d.spans |->
           IF d.version = 0 THEN 0
           ELSE Min({d.spans[j].size, Max({0, TagSkip(q, g) - d.spans[j].do})})]]))

GlobalEnd(q, g) ==
  Max({0} \cup UNION {{s.do + s.size : s \in Range(d.spans)} :
                        d \in {e \in Range(Declared(q, g)) : e.version # 0}})

BlockIdsOk(q, g) ==
  \A i \in Selected(q, g) :
    /\ \A d \in Range(Converted(q, g)) :
         \A b \in Range(d.ids) : b < q.meta[d.unit].pools[i].blocks
    /\ \A b \in Range(TagDst(q, g)) : b < q.dmeta.pools[i].blocks

SpanFits(q, g, s) ==
  /\ s.idx < Len(TagDst(q, g))
  /\ s.so + (s.cnt - 1) * s.ss + s.size <= LiveBytes(SrcPool(q, g))
  /\ s.do + (s.cnt - 1) * s.ds + s.size <= LiveBytes(DstPool(q, g))

\* The destination intervals of block index i, every repeat of every span, sorted.
Intervals(q, g, i) ==
  LET d == Converted(q, g)
      of(s) == IF s.idx # i THEN << >>
               ELSE [r \in 1 .. s.cnt |-> <<s.do + (r - 1) * s.ds, s.do + (r - 1) * s.ds + s.size>>]
      all == FlattenSeq([k \in DOMAIN d |->
               FlattenSeq([j \in DOMAIN d[k].spans |-> of(d[k].spans[j])])])
  IN  SortSeq(all, LAMBDA a, b : a[1] < b[1] \/ (a[1] = b[1] /\ a[2] < b[2]))

\* Each interval starts where the one before it ended: no gap and no overlap.
Abut(iv) ==
  /\ iv # << >>
  /\ iv[1][1] = 0
  /\ \A k \in 1 .. Len(iv) - 1 : iv[k + 1][1] = iv[k][2]

CoverageOk(q, g) ==
  LET n == Len(TagDst(q, g))
      iv == [i \in 0 .. n - 1 |-> Intervals(q, g, i)]
      end(i) == iv[i][Len(iv[i])][2]
      covered == SumSeq([i \in 1 .. n |-> end(i - 1)])
  IN  /\ \A d \in Range(Converted(q, g)) : \A s \in Range(d.spans) : SpanFits(q, g, s)
      /\ \A i \in 0 .. n - 1 :
           Abut(iv[i]) /\ (i # n - 1 => end(i) = LiveBytes(DstPool(q, g)))
      /\ SumSeq([k \in DOMAIN Declared(q, g) |-> Declared(q, g)[k].bytes])
           = covered + Clipped(q, g)

Extents(q, g) ==
  [k \in 1 .. Len(TagDst(q, g)) |->
     LET iv == Intervals(q, g, k - 1) IN iv[Len(iv)][2]]

\* The spans of all units in destination order.
OrderedSpans(q, g) ==
  LET d == Converted(q, g)
      all == FlattenSeq([k \in DOMAIN d |->
               [j \in DOMAIN d[k].spans |->
                  [unit |-> d[k].unit, ids |-> d[k].ids, s |-> d[k].spans[j]]]])
  IN  SortSeq(all, LAMBDA a, b :
        \/ a.s.idx < b.s.idx
        \/ a.s.idx = b.s.idx /\ a.s.do < b.s.do)

\* The entries one span emits: its repeats, cut at physical gaps.
SpanEntries(q, g, o) ==
  LET src == LiveSegments(SrcPool(q, g))
      dst == LiveSegments(DstPool(q, g))
      rep(r) == TranslateLiveCopy(src, dst, o.s.so + (r - 1) * o.s.ss,
                                  o.s.do + (r - 1) * o.s.ds, o.s.size)
      entry(c) == Entry(g, o.ids[o.s.ord], TagDst(q, g)[o.s.idx + 1], c)
  IN  FlattenSeq([r \in 1 .. o.s.cnt |->
        [k \in DOMAIN rep(r) |-> entry(rep(r)[k])]])

GroupSchedule(q, g, u) ==
  LET o == SelectSeq(OrderedSpans(q, g), LAMBDA x : x.unit = u)
  IN  FlattenSeq([k \in DOMAIN o |-> SpanEntries(q, g, o[k])])

Schedule(q, u) == FlattenSeq([g \in DOMAIN q.tags |-> GroupSchedule(q, g, u)])

Pairs(q, g, u) == {<<e.sb, e.db>> : e \in Range(GroupSchedule(q, g, u))}

ExpectedPushes(q, g) ==
  SumSeq([i \in DOMAIN q.units |->
    Min({Parallelism(q), Cardinality(Pairs(q, g, q.units[i]))})])

PoolGroup(q, g) ==
  [pools |-> Selected(q, g), dst |-> TagDst(q, g), pushes |-> ExpectedPushes(q, g),
   extents |-> Extents(q, g), rank |-> IF g = 1 THEN 0 ELSE 1]

\* The units that send, in rank order, and the ordinal each is keyed by.
SrcUnits(q) ==
  LET ranks == Ascending({q.meta[u].rank : u \in {v \in Units(q) : Schedule(q, v) # << >>}})
  IN  [k \in DOMAIN ranks |-> CHOOSE u \in Units(q) : q.meta[u].rank = ranks[k]]

GroupOk(q, g) ==
  /\ Declared(q, g) # << >>
  /\ ConvertOk(q, g)
  /\ TagSkip(q, g) > 0 => TagSkip(q, g) < GlobalEnd(q, g)
  /\ BlockIdsOk(q, g)
  /\ CoverageOk(q, g)

\* What is checked before the registrations are claimed, and after.
PrecheckOk(q) ==
  /\ RequestOk(q) /\ MetadataOk(q) /\ TagsOk(q) /\ TopologyOk(q)
  /\ \A g \in DOMAIN q.tags : TagPrecheck(q, g)

PlanOk(q) == PrecheckOk(q) /\ \A g \in DOMAIN q.tags : GroupOk(q, g)

BuildPoolReshardPlan(q) ==
  IF ~PlanOk(q) THEN [ok |-> FALSE]
  ELSE LET su == SrcUnits(q)
       IN  [ok |-> TRUE,
            units |-> su,
            schedules |-> Tabulate([u \in Range(su) |-> Schedule(q, u)]),
            keys |-> Tabulate([u \in Range(su) |-> (CHOOSE i \in DOMAIN su : su[i] = u) - 1]),
            groups |-> Tabulate([g \in DOMAIN q.tags |-> PoolGroup(q, g)]),
            pools |-> UNION {Selected(q, g) : g \in DOMAIN q.tags},
            par |-> Parallelism(q)]
=============================================================================
