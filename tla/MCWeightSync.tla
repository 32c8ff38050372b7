---------------------------- MODULE MCWeightSync ----------------------------
(* Deployments of the weight synchronizer for TLC. *)
EXTENDS WeightSync, TLC

Tile == << 2, 2 >>
Once == << [req |-> "r", ver |-> 1, when |-> "any"] >>
Twice == Append(Once, [req |-> "q", ver |-> 2, when |-> "next"])
Duplicate == Append(Once, [req |-> "r", ver |-> 1, when |-> "any"])
Retried == Append(Once, [req |-> "r", ver |-> 1, when |-> "retry"])

RowMajorLayout(n) == [i \in 1..n |-> n - i]

Var(shape, isz, tiles, smesh, dmesh) ==
  [shape |-> shape, layout |-> RowMajorLayout(Len(shape)), isz |-> isz, tiles |-> tiles,
   mesh |-> [src |-> smesh, dst |-> dmesh], spec |-> [src |-> << >>, dst |-> << >>]]

\* n units on each side with s (d) shards each.
Deploy(ns, ss, nd, sd, vs) ==
  LET us == [i \in 1..ns |-> << "s", i >>]
      ud == [i \in 1..nd |-> << "d", i >>]
      all == ToSet(us) \cup ToSet(ud)
  IN [src |-> us, dst |-> ud, shards |-> [u \in all |-> IF u[1] = "s" THEN ss ELSE sd],
      replica |-> [u \in all |-> u[2] - 1], hosts |-> [src |-> ns, dst |-> nd],
      mesh |-> [src |-> << >>, dst |-> << >>], vars |-> vs, K |-> 2, group |-> 0, par |-> 1,
      window |-> 0, auto |-> TRUE, calls |-> Once, restarts |-> {}, faults |-> 0,
      fails |-> {}, remote |-> FALSE]

\* Two layers, one padded in its tiles; two versions, the second from the cached plan.
Pipelined ==
  [Deploy(1, 1, 1, 1, << Var(<< 3, 2 >>, 1, << << 2, 2 >> >>, << 1, 1 >>, << 1, 1 >>),
                         Var(<< 2 >>, 2, << >>, << 1 >>, << 1 >>) >>)
     EXCEPT !.calls = Twice, !.par = 2]

\* Rows to columns: every push is strided.
Reshard == Deploy(2, 1, 2, 1, << Var(<< 2, 4 >>, 1, << >>, << 2, 1 >>, << 1, 2 >>) >>)

\* The same request twice at once.
Racing ==
  [Deploy(1, 2, 1, 1, << Var(<< 2, 2 >>, 1, << >>, << 1, 2 >>, << 1, 1 >>) >>)
     EXCEPT !.calls = Duplicate]

\* Three replicas behind a tree of fan-out 1 or 2.
Tree(k) ==
  [Deploy(1, 1, 3, 1, << Var(<< 1, 2 >>, 1, << >>, << 1, 1 >>, << 1, 1 >>) >>)
     EXCEPT !.K = k, !.auto = FALSE]

\* One of nd destinations restarts.
Restarting(nd, cs, auto) ==
  [Deploy(1, 1, nd, 1, << Var(<< 2, 1 >>, 1, << >>, << 1, 1 >>, << 1, 1 >>) >>)
     EXCEPT !.calls = cs, !.auto = auto, !.restarts = {<< "d", 1 >>}]

\* Two layers in one group; the destination that is promoted restarts.
RestartingTree ==
  [Deploy(1, 1, 2, 1, << Var(<< 2, 1 >>, 1, << >>, << 1, 1 >>, << 1, 1 >>),
                         Var(<< 1, 2 >>, 1, << >>, << 1, 1 >>, << 1, 1 >>) >>)
     EXCEPT !.K = 1, !.auto = FALSE, !.group = 2, !.calls = Retried, !.restarts = {<< "d", 1 >>}]

\* Two layers, two batches each, and a connection that breaks.
Broken ==
  [Deploy(1, 2, 1, 1, << Var(<< 2, 2 >>, 1, << >>, << 1, 2 >>, << 1, 1 >>),
                         Var(<< 2, 2 >>, 1, << >>, << 2, 1 >>, << 1, 1 >>) >>)
     EXCEPT !.par = 2, !.faults = 1, !.fails = {"conn"}]

\* The next version follows a push that has failed, with another still flying.
Straggling ==
  [Deploy(1, 2, 1, 1, << Var(<< 2, 2 >>, 1, << >>, << 1, 2 >>, << 1, 1 >>) >>)
     EXCEPT !.calls = Twice, !.par = 2, !.faults = 1, !.fails = {"conn"}]

\* A device copy that fails: of one layer of two versions, or of one of two layers.
FailingCopy(cs, n) ==
  [Deploy(1, 1, 1, 1, SubSeq(<< Var(<< 2, 2 >>, 1, << >>, << 1, 1 >>, << 1, 1 >>),
                                Var(<< 2 >>, 1, << >>, << 1 >>, << 1 >>) >>, 1, n))
     EXCEPT !.calls = cs, !.faults = 1, !.fails = {"d2h", "h2d"}]

\* The destinations have their own controller, and one of them restarts.
TwoControllers ==
  [Deploy(1, 2, 2, 1, << Var(<< 2, 2 >>, 1, << >>, << 1, 2 >>, << 2, 1 >>) >>)
     EXCEPT !.calls = Twice, !.auto = FALSE, !.remote = TRUE, !.restarts = {<< "d", 1 >>}]

RacingControllers ==
  [Deploy(1, 1, 1, 1, << Var(<< 2 >>, 1, << >>, << 1 >>, << 1 >>) >>)
     EXCEPT !.calls = Duplicate, !.auto = FALSE, !.remote = TRUE]

\* Geometry: one transfer each.
OneToOne(v) == Deploy(1, 1, 1, 1, << v >>)
Packed == OneToOne(Var(<< 3, 3 >>, 1, << << 2, 2 >>, << 2, 1 >> >>, << 1, 1 >>, << 1, 1 >>))
Nested == OneToOne(Var(<< 2, 3 >>, 1, << << 2, 2 >>, << 1, 2 >> >>, << 1, 1 >>, << 1, 1 >>))
ColumnMajor ==
  OneToOne([Var(<< 2, 3 >>, 1, << >>, << 1, 1 >>, << 1, 1 >>) EXCEPT !.layout = << 0, 1 >>])
InTiledOrder ==
  Deploy(1, 2, 1, 2, << Var(<< 4, 4 >>, 1, << << 2, 2 >> >>, << 2, 1 >>, << 1, 2 >>) >>)
InTiledOrder3 ==
  Deploy(1, 2, 1, 1, << Var(<< 2, 2, 4 >>, 1, << << 2, 2 >> >>, << 1, 1, 2 >>, << 1, 1, 1 >>) >>)
Cube == Deploy(1, 2, 1, 2, << Var(<< 2, 2, 3 >>, 1, << >>, << 1, 1, 2 >>, << 1, 2, 1 >>) >>)
Remainder == [Deploy(1, 2, 1, 3, << Var(<< 5 >>, 2, << >>, << 2 >>, << 3 >>) >>)
                EXCEPT !.window = 3, !.par = 2]
Replicated == Deploy(2, 1, 1, 2, << Var(<< 2, 2 >>, 1, << >>, << 1, 1 >>, << 2, 1 >>) >>)
BySpec ==
  [Deploy(2, 2, 1, 1, << [Var(<< 4, 1 >>, 1, << >>, << 4, 1 >>, << 1, 1 >>)
                            EXCEPT !.spec.src = << << 1, 2 >>, << >> >>] >>)
     EXCEPT !.mesh.src = << 2, 2 >>]

MCDeployments ==
  << Pipelined, Reshard, Racing, Tree(1), Tree(2),
     Restarting(1, Twice, TRUE), Restarting(2, Twice, FALSE), Restarting(2, Retried, TRUE),
     RestartingTree, Broken, Straggling, FailingCopy(Twice, 1), FailingCopy(Once, 2),
     TwoControllers, RacingControllers, Packed, Nested, ColumnMajor, InTiledOrder, InTiledOrder3,
     Cube, Remainder, Replicated, BySpec >>
MCPlans == LET table == PlanOf IN table
=============================================================================
