-------------------------- MODULE MCGlobalRegistry --------------------------
(***************************************************************************)
(* Small instances of the two halves of the global registry for TLC: the   *)
(* block directory, and the tables of stores and transfer specs with the   *)
(* stores that come and go.  The halves share no state, so each is run     *)
(* from the initial state of the other.                                    *)
(***************************************************************************)
EXTENDS BlockDirectory, StoreLifecycle, TLC

Symmetry == Permutations(Store) \cup Permutations(Hash)

Rank(n, bytes) == [node |-> n, arrays |-> <<bytes, bytes>>, shards |-> 1]
SpecOf(bytes, n) == [arrays |-> <<bytes, bytes>>, shards |-> 1, workers |-> n]

\* A store with a registry, a controller server of its own and no monitor.
Plain == [id |-> [job |-> "pool", replica |-> 1], kind |-> "serving", ip |-> "routable",
          shards |-> 1, registry |-> TRUE,
          group |-> "pool", tier |-> 0, budget |-> 0, private |-> TRUE, extra |-> FALSE,
          monitor |-> FALSE, sweep |-> FALSE, low |-> 10, high |-> 20,
          raw |-> FALSE,
          declared |-> Nil, expected |-> 0, workers |-> {}]
Monitored == [Plain EXCEPT !.monitor = TRUE, !.sweep = TRUE]
Offline == [Plain EXCEPT !.registry = FALSE, !.extra = TRUE]
Derived(W) == [Plain EXCEPT !.expected = Cardinality(W), !.workers = W]
Declared(s) == [Plain EXCEPT !.declared = s]
Node == [Plain EXCEPT !.kind = "node", !.budget = 8, !.tier = 1, !.group = ""]
Reshard == [Offline EXCEPT !.kind = "reshard", !.extra = FALSE]
Sidecar == [Offline EXCEPT !.kind = "sidecar", !.extra = FALSE]

MCProc == 1 .. 2
MCId == {[job |-> "pool", replica |-> r] : r \in 1 .. 2}

\* Two stores of one job, and two incarnations of one store.
Pair(a, b) == <<a, [b EXCEPT !.id.replica = 2]>>
Twice(a) == <<a, a>>

MCDeployments ==
  {Twice(Monitored),
   Pair(Plain, [Monitored EXCEPT !.tier = 1]),
   Pair(Derived({Rank(0, 1), Rank(1, 1)}), Node),
   Pair(Derived({Rank(0, 1)}), Declared(SpecOf(2, 1))),
   Pair(Derived({Rank(1, 1)}), Declared(SpecOf(0, 1))),
   Pair([Monitored EXCEPT !.extra = TRUE], [Monitored EXCEPT !.high = 101]),
   Pair(Offline, [Offline EXCEPT !.monitor = TRUE]),
   Pair(Reshard, Sidecar),
   Pair([Derived({Rank(0, 1)}) EXCEPT !.private = FALSE, !.raw = TRUE],
        [Plain EXCEPT !.ip = "wildcard"])}

DirectoryStep == LifeInit /\ conf = Twice(Monitored) /\ Next /\ UNCHANGED lvars
LifeStep == Init /\ LifeNext /\ UNCHANGED vars

RegistryInit == Init /\ LifeInit

RegistrySpec == RegistryInit /\ [][DirectoryStep \/ LifeStep]_<<vars, lvars>>
=============================================================================
