-------------------------- MODULE TransferRouting --------------------------
(***************************************************************************)
(* Who moves which block where when a controller broadcasts                *)
(* TransferBuffers to its workers: the pairing of workers with the peer's  *)
(* worker groups, the operation a worker picks from the memory types, the  *)
(* endpoint each NUMA sub-manager talks to, and the runs, streams and      *)
(* payloads a list of block ids is cut into.                               *)
(*                                                                         *)
(* A request has two sides [mem, ids, groups, addr]: the memory, the block *)
(* ids, the peer's worker groups [node, eps] and, if no groups are given,  *)
(* at most one peer endpoint.  An endpoint is [place, w, shards]: the data *)
(* port of the sub-manager that serves these shards of worker w.           *)
(***************************************************************************)
EXTENDS Integers, Sequences, FiniteSets, Functions

\* A finite set of integers, in ascending order.
InOrder(S) ==
  [k \in 1 .. Cardinality(S) |-> CHOOSE x \in S : Cardinality({y \in S : y < x}) = k - 1]

First(s, Test(_)) ==
  IF \E i \in DOMAIN s : Test(s[i])
  THEN <<s[CHOOSE i \in DOMAIN s : Test(s[i]) /\ \A j \in 1 .. i - 1 : ~Test(s[j])]>>
  ELSE << >>

-----------------------------------------------------------------------------
(* The controller: RaidenController::TransferBuffers                       *)

IsRemote(side) == side.groups # << >> \/ side.addr # << >>

LocalStagingRequired(r) ==
  /\ IsRemote(r.src) \/ IsRemote(r.dst)
  /\ \/ ~IsRemote(r.src) /\ r.src.mem = "hbm"
     \/ ~IsRemote(r.dst) /\ r.dst.mem = "hbm"

\* A peer's staging blocks are the caller's to provide; these requests do not.
\* Blocks allocated for the local side pass the test for the remote one.
RemoteStagingMissing(r) ==
  /\ \/ IsRemote(r.src) /\ r.src.mem = "hbm"
     \/ IsRemote(r.dst) /\ r.dst.mem = "hbm"
  /\ ~LocalStagingRequired(r)

\* peer_node_id_to_endpoints: the groups of the destination, else of the source.
PeerGroups(r) == IF r.dst.groups # << >> THEN r.dst.groups ELSE r.src.groups

\* Fault: workers and groups are paired by their position.
PeerGroupByPosition(r, w, node) ==
  IF w \in DOMAIN PeerGroups(r) THEN <<PeerGroups(r)[w]>> ELSE << >>

\* The group a worker is paired with: << >> if none has its node_id, the first
\* one inserted if several have.
PeerGroup(r, w, node) == First(PeerGroups(r), LAMBDA g : g.node = node)

NeedsGroup(r) == r.src.groups # << >> \/ r.dst.groups # << >>

Paired(r, w, node) == NeedsGroup(r) => PeerGroup(r, w, node) # << >>

\* remote_descriptors of the source buffers, as worker w receives them.
SrcDescriptors(r, w, node) ==
  IF r.src.groups # << >> THEN PeerGroup(r, w, node)[1].eps ELSE << >>

\* Those of the destination: a local destination gets the worker's own endpoints.
DstDescriptors(r, w, node, own) ==
  IF r.dst.groups # << >> THEN PeerGroup(r, w, node)[1].eps
  ELSE IF r.dst.addr = << >> THEN own ELSE << >>

-----------------------------------------------------------------------------
(* The worker: WorkerServiceImpl::TransferBuffers                          *)

IsD2H(s, d) == s = "hbm" /\ d \in {"dram", "unspecified"}
IsH2D(s, d) == s \in {"dram", "unspecified"} /\ d = "hbm"
IsH2H(s, d) == s = "dram" /\ d = "dram"

\* The call a worker makes of its transfer manager, "reject" if it makes none.
\* Copies between device and host look at peer descriptors only of a source.
WorkerOp(r, src, dst) ==
  CASE IsD2H(r.src.mem, r.dst.mem) ->
         IF r.src.addr # << >> THEN "D2hRead"
         ELSE IF r.dst.addr # << >> THEN "D2hWrite" ELSE "D2h"
    [] IsH2D(r.src.mem, r.dst.mem) ->
         IF src # << >> \/ r.src.addr # << >> THEN "H2dRead"
         ELSE IF r.dst.addr # << >> THEN "H2dWrite" ELSE "H2d"
    [] IsH2H(r.src.mem, r.dst.mem) ->
         IF \E i \in DOMAIN r.sizes : r.sizes[i] # 1 THEN "reject"
         ELSE IF src # << >> THEN "H2hRead"
         ELSE IF dst # << >> THEN "H2hWrite"
         ELSE IF r.src.addr # << >> THEN "H2hRead"
         ELSE IF r.dst.addr # << >> THEN "H2hWrite" ELSE "reject"
    [] OTHER -> "reject"

\* The operations a manager has.  D2hRead is implemented by none; the composite
\* manager has no D2hWrite and no H2dWrite.  No request made here reaches H2dWrite:
\* it needs staging blocks of the peer.  A pull from descriptors lands in the
\* blocks the caller chose; a composite manager is given descriptors only.
Implemented(op, composite) ==
  op \in (IF composite THEN {"D2h", "H2d", "H2hRead", "H2hWrite", "H2dRead"}
                       ELSE {"D2h", "H2d", "H2hRead", "H2hWrite", "H2dRead", "D2hWrite", "H2dWrite"})

\* copy_sizes, 1 for each block if none are given.
CopySizes(r) == IF r.sizes # << >> THEN r.sizes ELSE [i \in DOMAIN r.src.ids |-> 1]

-----------------------------------------------------------------------------
(* The composite manager: NumaAwareKVCacheManager                          *)

\* InitSubManagers: the shards each sub-manager owns, from the NUMA node of each
\* shard's device, the number of data-plane NICs and ENABLE_MULTI_NUMA.
SubManagers(numa, nics, multi) ==
  LET all == [sh \in DOMAIN numa |-> sh]
      key == [sh \in DOMAIN numa |->
                IF ~multi THEN 0
                ELSE IF Cardinality(Range(numa)) = 1 /\ nics > 1 /\ Len(numa) > 1
                THEN (sh - 1) % nics
                ELSE IF numa[sh] < 0 THEN 0 ELSE numa[sh]]
      keys == InOrder(Range(key))
  IN  [i \in DOMAIN keys |-> SelectSeq(all, LAMBDA sh : key[sh] = keys[i])]

\* The endpoint of a sub-manager: the first that serves one of its shards.
MatchedEndpoint(shards, eps) ==
  LET hit == First(eps, LAMBDA e : Range(e.shards) \cap Range(shards) # {})
  IN  IF hit # << >> THEN hit[1] ELSE eps[1]

-----------------------------------------------------------------------------
(* Runs, streams and payloads                                              *)

\* A list of n elements cut into runs before each position in starts: the first
\* and the last position of every run.
Runs(starts, n) ==
  LET at == InOrder(starts)
  IN  [j \in DOMAIN at |-> <<at[j], IF j = Len(at) THEN n ELSE at[j + 1] - 1>>]

\* Fault: a run grows whenever the source blocks are adjacent.
CoalesceMajorDimCopiesBySource(src, dst, sizes) ==
  LET runs == Runs({n \in DOMAIN src : n > 1 => src[n] # src[n - 1] + sizes[n - 1]}, Len(src))
  IN  {[src |-> src[u[1]], dst |-> dst[u[1]], size |-> src[u[2]] + sizes[u[2]] - src[u[1]]] :
         u \in Range(runs)}

\* A copy joins the run before it if it continues it on both sides.
CoalesceMajorDimCopies(src, dst, sizes) ==
  LET runs == Runs({n \in DOMAIN src : n > 1 => \/ src[n] # src[n - 1] + sizes[n - 1]
                                                 \/ dst[n] # dst[n - 1] + sizes[n - 1]}, Len(src))
  IN  {[src |-> src[u[1]], dst |-> dst[u[1]], size |-> src[u[2]] + sizes[u[2]] - src[u[1]]] :
         u \in Range(runs)}

\* The block copies that the device copies of these runs perform.
BlockPairs(runs) ==
  UNION {{<<u.src + k, u.dst + k>> : k \in 0 .. u.size - 1} : u \in runs}

\* SyncPull and AsyncPush: n blocks over at most p streams, the first ones longer.
StreamShares(n, p) ==
  LET P == IF n < p THEN n ELSE p
      count(i) == (n \div P) + (IF i - 1 < n % P THEN 1 ELSE 0)
      off[i \in 1 .. P] == IF i = 1 THEN 0 ELSE off[i - 1] + count(i - 1)
  IN  [i \in 1 .. P |-> [off |-> off[i], count |-> count(i)]]

\* H2hReadWorker's PullChunks: one request per run of adjacent REMOTE ids.
PullChunks(ids) == Runs({n \in DOMAIN ids : n > 1 => ids[n] # ids[n - 1] + 1}, Len(ids))

\* ResolveStepCoordinates: the payload the server sends at step t, layer-major.
ResolveStepCoordinates(t, shards, blocks) ==
  [k |-> t % blocks, sh |-> (t \div blocks) % shards, l |-> t \div (blocks * shards)]

\* ForEachPayload: the payload the client expects at step t of its nested loops
\* over layers, shards and blocks.
ForEachPayload(t, layers, shards, blocks) ==
  CHOOSE p \in [l : 0 .. layers - 1, sh : 0 .. shards - 1, k : 0 .. blocks - 1] :
    (p.l * shards + p.sh) * blocks + p.k = t
=============================================================================
