--------------------------- MODULE MCPoolReshard ---------------------------
(***************************************************************************)
(* Small requests: page splits behind a skip, padding that differs on the  *)
(* two sides, repeated spans over more pairs than streams, two tags on one *)
(* arena, full blocks whose bytes change places, a declaration with a hole.*)
(***************************************************************************)
EXTENDS PoolReshard

Region(off, stride, unit, n) == RegionSpec(off, stride, unit, n, 1)
Span(ord, so, idx, do, size) == PoolByteSpan(ord, so, idx, do, size, 0, 0, 1)
Decl(tag, version, ids, spans) ==
  [tag |-> tag, version |-> version, ids |-> ids, spans |-> spans,
   bytes |-> SumSeq([i \in DOMAIN spans |-> spans[i].size * spans[i].cnt])]
Side(pools, storage) == [fp |-> "f", pools |-> pools, storage |-> storage]
Source(pools, storage, par, u) == [par |-> par, rank |-> u] @@ Side(pools, storage)

\* Two context-parallel ranks; the first 4 bytes are already there; the ranks'
\* blocks of 2 live bytes go into a block of 4.
Skipped ==
  [units |-> <<0, 1>>,
   meta |-> [u \in {0, 1} |-> Source(<<PoolSpec("fa", 0, 4, 2, <<Region(0, 2, 1, 2)>>)>>, 8, 1, u)],
   dmeta |-> Side(<<PoolSpec("fa", 0, 6, 2, <<Region(0, 4, 4, 1)>>)>>, 12),
   tags |-> <<"fa">>, dst |-> <<1>>, counts |-> << >>, skip |-> <<4>>, par |-> 0, workers |-> 2, controller |-> TRUE,
   decl |-> [u \in {0, 1} |->
     IF u = 0 THEN <<Decl("fa", 1, <<0, 1>>, <<Span(1, 0, 0, 0, 2), Span(2, 0, 0, 4, 2)>>)>>
     ELSE <<Decl("fa", 1, <<1, 0>>, <<Span(1, 0, 0, 2, 2), Span(2, 0, 0, 6, 1)>>)>>]]

\* A span that begins below the skip and ends above it, over two pages.
Straddling ==
  [units |-> <<0>>,
   meta |-> [u \in {0} |-> Source(<<PoolSpec("fa", 0, 5, 1, <<Region(0, 5, 5, 1)>>)>>, 5, 2, u)],
   dmeta |-> Side(<<PoolSpec("fa", 0, 3, 2, <<Region(0, 2, 2, 1)>>)>>, 6),
   tags |-> <<"fa">>, dst |-> <<1, 0>>, counts |-> << >>, skip |-> <<2>>, par |-> 2, workers |-> 2, controller |-> TRUE,
   decl |-> [u \in {0} |-> <<Decl("fa", 1, <<0>>, <<Span(1, 0, 0, 0, 5)>>)>>]]

\* Two layers of one tag, padding inside the source's blocks and between the
\* destination's; three pairs over two streams; one span repeats.
Strided ==
  LET src(b) == PoolSpec("fa", b, 3, 3, <<Region(0, 2, 1, 2)>>)
      dst(b) == PoolSpec("fa", b, 4, 2, <<Region(0, 3, 3, 1)>>)
  IN  [units |-> <<0>>,
       meta |-> [u \in {0} |-> Source(<<src(0), src(9)>>, 18, 2, u)],
       dmeta |-> Side(<<dst(0), dst(8)>>, 16),
       tags |-> <<"fa">>, dst |-> <<0, 1>>, counts |-> << >>, skip |-> << >>, par |-> 2, workers |-> 1, controller |-> FALSE,
       decl |-> [u \in {0} |-> <<Decl("fa", 0, <<2, 0, 1>>,
         <<PoolByteSpan(1, 0, 0, 0, 1, 1, 2, 2), Span(2, 0, 0, 1, 1), Span(3, 0, 1, 0, 2)>>)>>]]

\* Attention pages and recurrent state on one arena: the state lies in the tail
\* of the last attention page, which the request leaves uncovered.  Each rank
\* has fewer pairs than the streams it may open.
Arena ==
  LET pools == <<PoolSpec("fa", 0, 4, 1, <<Region(0, 4, 4, 1)>>),
                 PoolSpec("state", 2, 4, 1, <<Region(0, 2, 2, 1)>>)>>
  IN  [units |-> <<0, 1>>,
       meta |-> [u \in {0, 1} |-> Source(pools, 4, 2, u)],
       dmeta |-> Side(pools, 4),
       tags |-> <<"fa", "state">>, dst |-> <<0, 0>>, counts |-> <<1, 1>>, skip |-> << >>, par |-> 0,
       workers |-> 1, controller |-> FALSE,
       decl |-> [u \in {0, 1} |->
         IF u = 0 THEN <<Decl("fa", 0, <<0>>, <<Span(1, 0, 0, 0, 2)>>)>>
         ELSE <<Decl("state", 0, <<0>>, <<Span(1, 0, 0, 0, 2)>>)>>]]

\* Two full blocks: the bytes of the first change places, those of the second do not.
Permuted ==
  LET pool == PoolSpec("fa", 0, 2, 2, <<Region(0, 2, 2, 1)>>)
  IN  [units |-> <<0>>,
       meta |-> [u \in {0} |-> Source(<<pool>>, 4, 2, u)],
       dmeta |-> Side(<<pool>>, 4),
       tags |-> <<"fa">>, dst |-> <<1, 0>>, counts |-> << >>, skip |-> << >>, par |-> 2, workers |-> 1, controller |-> FALSE,
       decl |-> [u \in {0} |-> <<Decl("fa", 0, <<0, 1>>,
         <<Span(1, 1, 0, 0, 1), Span(1, 0, 0, 1, 1), Span(2, 0, 1, 0, 2)>>)>>]]

\* A declaration that leaves a hole cannot be planned.
Holed == [Straddling EXCEPT !.skip = << >>,
            !.decl = [u \in {0} |-> <<Decl("fa", 1, <<0>>, <<Span(1, 0, 0, 0, 1), Span(1, 3, 0, 2, 2)>>)>>]]

Requests == <<Skipped, Straddling, Strided, Arena, Permuted, Holed>>
MCPlans == LET table == PlanTable IN table
=============================================================================
