---------------------------- MODULE PoolReshard ----------------------------
(***************************************************************************)
(* One pool reshard from end to end: the coordinator arms the receiving    *)
(* worker and dispatches the sending ones (reshard_coordinator.cc,         *)
(* kv_cache_listener.cc), each sender stages its pools in the host mirror  *)
(* and pushes them over streams (kv_cache_manager_with_transfer.cc,        *)
(* block_transport.cc), the receiver lands the bytes in its mirror, counts *)
(* the streams of each pool against the plan, and uploads complete pools   *)
(* to the device in the order of their ranks.                              *)
(*                                                                         *)
(* The request is one of Scenario (see PoolPlanner); the plan is the one   *)
(* the planner builds for it.  A sending worker is its unit, and the       *)
(* unit's rank is the node_id its streams carry.  A byte's content is the  *)
(* device address it was first read from; Old and Blank are what the       *)
(* receiver's device and mirror held before.  Streams may break at any     *)
(* point, copies may fail, calls may be lost, and deadlines may pass at    *)
(* any poll; an abandoned control call is handled before its caller gives  *)
(* up, or not at all.                                                      *)
(***************************************************************************)
EXTENDS PoolPlanner, Functions

CONSTANTS Scenario,     \* sequence of transfer requests
          Plans,        \* the plan of each, as PlanTable works it out
          MaxAttempts,  \* times the connector asks for the same uuid
          MaxFaults,    \* bound on breaks, losses and failed copies
          Old,          \* a byte of the device no upload wrote
          Blank         \* a byte of the mirror no transfer wrote

ASSUME BoundsAssumption == MaxAttempts \in Nat \ {0} /\ MaxFaults \in Nat

NoEntry == << >>

-----------------------------------------------------------------------------
(* The request, its plan, and what the workers derive from it.             *)

\* The message for a target: the receiver gets every schedule, by ordinal, a
\* sender its own under key 0.
BuildStartTransferForTarget(p, sender, u) ==
  [sender |-> sender, groups |-> p.groups, pools |-> p.pools, par |-> p.par,
   sched |-> IF sender THEN 0 :> p.schedules[u]
             ELSE Tabulate([k \in Range(p.keys) |->
                    p.schedules[CHOOSE v \in DOMAIN p.keys : p.keys[v] = k]])]

\* In controller mode the message travels as a transfer program: one step per
\* entry, rank by rank.
CompileStartTransfer(m) ==
  LET ranks == Ascending(DOMAIN m.sched)
  IN  [role |-> IF m.sender THEN "sender" ELSE "arm",
       groups |-> m.groups, pools |-> m.pools, par |-> m.par,
       steps |-> FlattenSeq([k \in DOMAIN ranks |->
         LET es == m.sched[ranks[k]]
         IN  [j \in DOMAIN es |-> [rank |-> ranks[k], entry |-> es[j]]]])]

NormalizeReshardProgram(g) ==
  /\ g.role \in {"sender", "arm"}
  /\ g.groups # << >> /\ g.pools # {} /\ g.steps # << >>
  /\ \A k \in DOMAIN g.steps : g.steps[k].entry.group \in DOMAIN g.groups

LowerToStartTransfer(g) ==
  LET of(r) == SelectSeq(g.steps, LAMBDA s : s.rank = r)
  IN  [sender |-> g.role = "sender", groups |-> g.groups, pools |-> g.pools, par |-> g.par,
       sched |-> Tabulate([r \in {g.steps[k].rank : k \in DOMAIN g.steps} |->
                   [j \in DOMAIN of(r) |-> of(r)[j].entry]])]

Delivered(q, m) == IF q.controller THEN LowerToStartTransfer(CompileStartTransfer(m)) ELSE m
Deliverable(q, m) == q.controller => NormalizeReshardProgram(CompileStartTransfer(m))

PoolsOf(m, e) == m.groups[e.group].pools
GroupOf(m, i) == CHOOSE g \in DOMAIN m.groups : i \in m.groups[g].pools

\* DeriveArmChipBlockIds and DeriveSenderSourceBlockIds
FlatDst(m) == FlattenSeq([g \in DOMAIN m.groups |-> m.groups[g].dst])
SourceIds(m) == UNION {{e.sb : e \in Range(m.sched[k])} : k \in DOMAIN m.sched}

\* StridedSpanFitsRegions
SpanInRegions(pool, off, size) ==
  off + size <= pool.stride /\ RegionsCoverRange(pool.regions, off, off + size)

\* What ValidatePoolReshardPlan asks of both sides: every block of the message
\* exists in every pool of it.
BlocksInEveryPool(m, pools, ids) ==
  ids # {} /\ \A i \in m.pools : i \in DOMAIN pools /\ \A b \in ids : b < pools[i].blocks

SenderAccepts(q, m, u) ==
  LET pools == q.meta[u].pools
  IN  /\ Deliverable(q, m) /\ m.sender /\ 0 \in DOMAIN m.sched
      /\ BlocksInEveryPool(m, pools, SourceIds(m))
      /\ \A e \in Range(m.sched[0]) :
           \A i \in PoolsOf(m, e) : SpanInRegions(pools[i], e.so, e.size)

\* ValidatePoolReshardReceiverCoverage, group by group: the pushes recounted and
\* every block covered exactly up to its declared extent.
GroupCovered(q, m, g) ==
  LET grp  == m.groups[g]
      pool == q.dmeta.pools[Min(grp.pools)]
      seg  == LiveSegments(pool)
      keys == Ascending(DOMAIN m.sched)
      mine(k) == SelectSeq(m.sched[keys[k]], LAMBDA e : e.group = g)
      at(e) == PhysicalLiveRangeToLogical(seg, e.do, e.size)
      recount == SumSeq([k \in DOMAIN keys |->
        Min({m.par, Cardinality({<<e.sb, e.db>> : e \in Range(mine(k))})})])
      ivs(b) == SortSeq(
        FlattenSeq([k \in DOMAIN keys |->
          LET es == SelectSeq(mine(k), LAMBDA e : e.db = b)
          IN  [j \in DOMAIN es |-> <<at(es[j]), at(es[j]) + es[j].size>>]]),
        LAMBDA x, y : x[1] < y[1] \/ (x[1] = y[1] /\ x[2] < y[2]))
  IN  /\ grp.pools # {} /\ grp.pushes > 0 /\ recount = grp.pushes
      /\ \A i \in grp.pools : SegmentsOk(q.dmeta.pools[i]) /\ LiveSegments(q.dmeta.pools[i]) = seg
      /\ Len(grp.extents) = Len(grp.dst) /\ IsInjective(grp.dst)
      /\ \A k \in DOMAIN grp.extents :
           /\ grp.extents[k] \in 1 .. LiveBytes(pool)
           /\ k # Len(grp.extents) => grp.extents[k] = LiveBytes(pool)
           /\ Abut(ivs(grp.dst[k]))
           /\ ivs(grp.dst[k])[Len(ivs(grp.dst[k]))][2] = grp.extents[k]
      /\ \A k \in DOMAIN keys : \A e \in Range(mine(k)) : e.db \in Range(grp.dst) /\ at(e) # -1

ReceiverAccepts(q, m) ==
  LET ids == Range(FlatDst(m))
      all == UNION {Range(m.sched[k]) : k \in DOMAIN m.sched}
  IN  /\ Deliverable(q, m) /\ ~m.sender
      /\ BlocksInEveryPool(m, q.dmeta.pools, ids)
      /\ \A e \in all :
           e.db \in ids /\ \A i \in PoolsOf(m, e) : SpanInRegions(q.dmeta.pools[i], e.do, e.size)
      /\ \A b \in ids : \E e \in all : e.db = b /\ e.do = 0
      /\ m.pools = UNION {m.groups[g].pools : g \in DOMAIN m.groups}
      /\ \A g, h \in DOMAIN m.groups : g # h => m.groups[g].pools \cap m.groups[h].pools = {}
      /\ \A g \in DOMAIN m.groups : GroupCovered(q, m, g)

\* The distinct (source, destination) pairs of a pool, in schedule order.
TransferPairs(m, i) ==
  LET es == SelectSeq(m.sched[0], LAMBDA e : i \in PoolsOf(m, e))
      first == {k \in DOMAIN es :
                  \A j \in 1 .. k - 1 : <<es[j].sb, es[j].db>> # <<es[k].sb, es[k].db>>}
      ks == Ascending(first)
  IN  [n \in DOMAIN ks |-> <<es[ks[n]].sb, es[ks[n]].db>>]

\* Fault: one stream, whatever parallelism was asked for.
AsyncPushSingle(m, i) ==
  IF TransferPairs(m, i) = << >> THEN << >> ELSE <<TransferPairs(m, i)>>

\* AsyncPush: the pairs split into min(parallelism, pairs) contiguous streams.
AsyncPush(m, i) ==
  LET pairs == TransferPairs(m, i)
      n == Min({m.par, Len(pairs)})
      size(k) == (Len(pairs) \div n) + (IF k <= Len(pairs) % n THEN 1 ELSE 0)
      from(k) == SumSeq([j \in 1 .. k - 1 |-> size(j)])
  IN  [k \in 1 .. n |-> SubSeq(pairs, from(k) + 1, from(k) + size(k))]

\* Where a block begins, a block the pool does not have being nowhere.
GetPoolBlockRef(pool, block) ==
  IF block \in 0 .. pool.blocks - 1 THEN pool.base + block * pool.stride ELSE -1

\* GetBlockChunks as addresses: the entries of the plan, in schedule order, at the
\* offsets of the sender ("so") or of the receiver ("do").
EntryAddresses(pool, block, es, side) ==
  LET ref == GetPoolBlockRef(pool, block)
  IN  IF ref = -1 THEN << >>
      ELSE FlattenSeq([k \in DOMAIN es |-> [j \in 1 .. es[k].size |-> ref + es[k][side] + j - 1]])

\* Without a plan, the live bytes of the block.
LiveAddresses(pool, block) == Ascending(CopyAddresses(pool, {block}))

\* The entries of a schedule for pool i and a pair of blocks.
EntriesOf(m, sched, i, pair) ==
  SelectSeq(sched, LAMBDA e : i \in PoolsOf(m, e) /\ <<e.sb, e.db>> = pair)

SendChunks(m, pool, i, pair) ==
  EntryAddresses(pool, pair[1], EntriesOf(m, m.sched[0], i, pair), "so")

\* The receiver looks the schedule up under the sender's node_id.
RecvChunks(m, pool, i, pair, node) ==
  IF node \notin DOMAIN m.sched THEN << >>
  ELSE EntryAddresses(pool, pair[2], EntriesOf(m, m.sched[node], i, pair), "do")

\* What the declarations ask for, byte by byte: the source address each
\* destination address must end up with.  The reference for the planner.
WantedOf(q, g, d, s, r, j, i) ==
  LET live == LiveBytes(DstPool(q, g))
      lo   == s.do + (r - 1) * s.ds + j
      at   == IF d.version = 0 THEN s.idx * live + lo ELSE lo - TagSkip(q, g)
      sp   == q.meta[d.unit].pools[i]
      dp   == q.dmeta.pools[i]
  IN  IF at < 0 THEN {}
      ELSE {<<dp.base + TagDst(q, g)[(at \div live) + 1] * dp.stride + LiveSegments(dp)[at % live],
              <<d.unit, sp.base + d.ids[s.ord] * sp.stride
                          + LiveSegments(sp)[s.so + (r - 1) * s.ss + j]>>>>}

SpanWanted(q, g, d, s, i) ==
  UNION {WantedOf(q, g, d, s, r, j, i) : r \in 1 .. s.cnt, j \in 0 .. s.size - 1}

Wanted(q) ==
  UNION {UNION {UNION {SpanWanted(q, g, d, s, i) : s \in Range(d.spans), i \in Selected(q, g)} :
    d \in Range(Declared(q, g))} : g \in DOMAIN q.tags}

\* RegisterPools: a manifest is installed only when every pool fits its storage.
RegisterPools(m) == \A p \in Range(m.pools) : PoolValid(p, m.storage)

\* The bytes a copy of some blocks of a pool moves between device and mirror.  Its
\* bounds checks cannot fail for a registered pool and a mirror that covers it.
CopyPoolBlocks(m, i, ids) == CopyAddresses(m.pools[i], ids)

\* All the workers do with the messages, computed once.
Extract(q, p) ==
  LET us == Range(p.units)
      rm == Delivered(q, BuildStartTransferForTarget(p, FALSE, -1))
      sm == Tabulate([u \in us |-> Delivered(q, BuildStartTransferForTarget(p, TRUE, u))])
      pool(u, i) == q.meta[u].pools[i]
      pairs(u, i) == Range(TransferPairs(sm[u], i))
      each(F(_, _)) == Tabulate([u \in us |-> Tabulate([i \in p.pools |-> F(u, i)])])
  IN  [q |-> q, p |-> p, ok |-> TRUE,
       senders |-> us,
       sendOk |-> Tabulate([u \in us |-> SenderAccepts(q, sm[u], u)]),
       recvOk |-> ReceiverAccepts(q, rm),
       rank |-> Tabulate([i \in p.pools |-> rm.groups[GroupOf(rm, i)].rank]),
       pushes |-> Tabulate([i \in p.pools |-> rm.groups[GroupOf(rm, i)].pushes]),
       streams |-> each(LAMBDA u, i : AsyncPush(sm[u], i)),
       send |-> each(LAMBDA u, i : Tabulate([x \in pairs(u, i) |-> SendChunks(sm[u], pool(u, i), i, x)])),
       recv |-> each(LAMBDA u, i : Tabulate([x \in pairs(u, i) |->
                  RecvChunks(rm, q.dmeta.pools[i], i, x, q.meta[u].rank)])),
       d2h |-> each(LAMBDA u, i : CopyPoolBlocks(q.meta[u], i, {x[1] : x \in pairs(u, i)})),
       h2d |-> Tabulate([i \in p.pools |->
                 CopyPoolBlocks(q.dmeta, i, Range(rm.groups[GroupOf(rm, i)].dst))]),
       wanted |-> Wanted(q)]

PlanTable ==
  Tabulate([n \in DOMAIN Scenario |->
    LET q == Scenario[n]
        p == BuildPoolReshardPlan(q)
    IN  IF p.ok /\ RegisterPools(q.dmeta) /\ \A u \in Units(q) : RegisterPools(q.meta[u])
        THEN Extract(q, p)
        ELSE [q |-> q, p |-> p, ok |-> FALSE, senders |-> {}, wanted |-> {}]])

ASSUME PlansAssumption == Plans = PlanTable

-----------------------------------------------------------------------------
VARIABLES
  sc,      \* the scenario
  co,      \* the coordinator: "idle", "arming", "dispatched", "ok", "failed"
  att,     \* attempts made
  cmd,     \* per sender, its start command: "none", "sent", "ok", "refused", "lost"
  rplan,   \* receiver: active plan registered under the uuid
  rent,    \* receiver: its RecvEntry, or NoEntry
  rfin,    \* receiver: the thread finishing the entry
  sweep,   \* workers whose poll still has to unregister an expired plan
  prog,    \* receiver: layer_progress_, per pool [count, called]
  mirror,  \* receiver: host mirror, address -> content
  guessed, \* history: mirror addresses written when one side had no plan any more
  dev,     \* receiver: device, address -> content
  uploads,     \* receiver: uploads in flight, pool -> content read from the mirror
  splan,   \* senders with an active plan
  sent,    \* per sender, its PoolReshardSendEntry, or NoEntry
  sfin,    \* per sender, the thread finishing the entry
  staging, \* downloads in flight: <<sender, pool>>
  staged,  \* per sender, the device addresses copied to its mirror
  sq,      \* per sender, its transport's queue of streams
  run,     \* streams on a socket
  left,    \* per <<sender, pool>>, streams of the push still to end, and failure
  pend,    \* per worker, verdicts the next poll reports
  told,    \* per worker, verdicts reported, in order
  faults   \* faults so far

coordVars == <<sc, co, att, cmd>>
recvVars  == <<rplan, rent, rfin, prog, mirror, guessed, dev, uploads>>
sendVars  == <<splan, sent, sfin, staging, staged, sq, run, left>>
pollVars  == <<sweep, pend, told>>
vars == <<coordVars, recvVars, sendVars, pollVars, faults>>

T == Plans[sc]
Pools == T.p.pools
Senders == T.senders
Receiver == -1   \* the sending workers are named by unit numbers from 0
Addresses(m) == 0 .. m.storage - 1

\* The mirror is grown to the last live byte of any pool.
EnsureHostMirrorCovers(m) == 0 .. Max({StorageExtentEnd(p) : p \in Range(m.pools)}) - 1

Fresh == [count |-> 0, called |-> FALSE]

Init ==
  /\ sc \in DOMAIN Scenario
  /\ co = "idle" /\ att = 0 /\ cmd = [u \in Senders |-> "none"]
  /\ rplan = FALSE /\ rent = NoEntry /\ rfin = "none" /\ sweep = {} /\ prog = << >>
  /\ mirror = [a \in EnsureHostMirrorCovers(T.q.dmeta) |-> Blank] /\ guessed = {}
  /\ dev = [a \in Addresses(T.q.dmeta) |-> Old] /\ uploads = << >>
  /\ splan = {} /\ sent = [u \in Senders |-> NoEntry] /\ sfin = [u \in Senders |-> "none"]
  /\ staging = {} /\ staged = [u \in Senders |-> {}]
  /\ sq = [u \in Senders |-> << >>] /\ run = {} /\ left = << >>
  /\ pend = [w \in Senders \cup {Receiver} |-> {}]
  /\ told = [w \in Senders \cup {Receiver} |-> << >>]
  /\ faults = 0

Fault == faults < MaxFaults /\ faults' = faults + 1

-----------------------------------------------------------------------------
(* The coordinator and the control calls it makes.                         *)

\* StartPoolReshard: plan the request; a request that cannot be planned fails.
StartPoolReshard ==
  /\ co = "idle" /\ att < MaxAttempts
  /\ att' = att + 1
  /\ co' = IF T.ok THEN "arming" ELSE "failed"
  /\ UNCHANGED <<sc, cmd, recvVars, sendVars, pollVars, faults>>

NewRecvEntry == [started |-> {}, launched |-> {}, completed |-> {},
                 finalizing |-> FALSE, network |-> FALSE]

\* PoolReshardRegisterRecv, reached through the listener.
RegisterRecv ==
  /\ rent = NoEntry /\ ~rplan /\ T.recvOk
  /\ rplan' = TRUE /\ rent' = NewRecvEntry
  /\ UNCHANGED <<rfin, prog, mirror, guessed, dev, uploads>>

ArmRefused == ~(rent = NoEntry /\ ~rplan /\ T.recvOk) /\ UNCHANGED recvVars

\* The arm is answered, or the call or its answer is lost and the claim on the
\* declared spans is abandoned, so that the connector may ask again.
Arm ==
  /\ co = "arming"
  /\ \/ RegisterRecv /\ co' = "dispatched" /\ cmd' = [u \in Senders |-> "sent"] /\ UNCHANGED faults
     \/ RegisterRecv /\ Fault /\ co' = "idle" /\ UNCHANGED cmd
     \/ UNCHANGED recvVars /\ Fault /\ co' = "idle" /\ UNCHANGED cmd
     \/ ArmRefused /\ co' = "idle" /\ UNCHANGED <<cmd, faults>>
  /\ UNCHANGED <<sc, att, sendVars, pollVars>>

\* The start commands are joined; one that failed fails the transfer's status.
Join ==
  /\ co = "dispatched" /\ \A u \in Senders : cmd[u] # "sent"
  /\ co' = IF \A u \in Senders : cmd[u] = "ok" THEN "ok" ELSE "failed"
  /\ UNCHANGED <<sc, att, cmd, recvVars, sendVars, pollVars, faults>>

CommandLost(u) ==
  /\ cmd[u] = "sent" /\ Fault
  /\ cmd' = [cmd EXCEPT ![u] = "lost"]
  /\ UNCHANGED <<sc, co, att, recvVars, sendVars, pollVars>>

-----------------------------------------------------------------------------
(* A sending worker.                                                       *)

PoolsWithBlocks(u) == {i \in Pools : T.streams[u][i] # << >>}

NewSendEntry(u) == [remaining |-> Cardinality(PoolsWithBlocks(u)),
                    failed |-> FALSE, finalizing |-> FALSE]

\* PoolReshardPush.  A pool the sender owns nothing of gives back its completion
\* slot at once; the others are copied to the mirror.  A copy that cannot be
\* issued fails the call and the entry, while those issued before it go on.
PoolReshardPush(u) ==
  LET free == T.sendOk[u] /\ u \notin splan /\ sent[u] = NoEntry
      answer(a) == cmd' = [cmd EXCEPT ![u] = a]
  IN  /\ cmd[u] = "sent"
      /\ \/ /\ free /\ answer("ok") /\ splan' = splan \cup {u}
            /\ sent' = [sent EXCEPT ![u] = NewSendEntry(u)]
            /\ staging' = staging \cup ({u} \X PoolsWithBlocks(u))
            /\ UNCHANGED <<sfin, faults>>
         \/ /\ free /\ Fault /\ answer("refused") /\ splan' = splan \cup {u}
            /\ sent' = [sent EXCEPT ![u] = [NewSendEntry(u) EXCEPT !.failed = TRUE, !.finalizing = TRUE]]
            /\ sfin' = [sfin EXCEPT ![u] = "unregister"]
            /\ \E issued \in SUBSET PoolsWithBlocks(u) :
                 issued # PoolsWithBlocks(u) /\ staging' = staging \cup ({u} \X issued)
         \/ ~free /\ answer("refused") /\ UNCHANGED <<splan, sent, sfin, staging, faults>>
      /\ UNCHANGED <<sc, co, att, recvVars, staged, sq, run, left, pollVars>>

\* FinishPoolReshardSend, up to the release of the lock: a failure finishes the
\* entry, a success only when it was the last one owed.
FinishPoolReshardSend(u, ok) ==
  IF sent[u] = NoEntry \/ sent[u].finalizing THEN UNCHANGED <<sent, sfin>>
  ELSE LET e == IF ok THEN [sent[u] EXCEPT !.remaining = @ - 1] ELSE [sent[u] EXCEPT !.failed = TRUE]
           over == e.failed \/ e.remaining = 0
       IN  /\ sent' = [sent EXCEPT ![u] = [e EXCEPT !.finalizing = over]]
           /\ sfin' = [sfin EXCEPT ![u] = IF over THEN "unregister" ELSE @]

\* Its second half: the plan goes, then the entry, unless a poll took it.
SendUnregister(u) ==
  /\ sfin[u] = "unregister"
  /\ splan' = splan \ {u} /\ sfin' = [sfin EXCEPT ![u] = "report"]
  /\ UNCHANGED <<coordVars, recvVars, sent, staging, staged, sq, run, left, pollVars, faults>>

SendReport(u) ==
  /\ sfin[u] = "report"
  /\ sfin' = [sfin EXCEPT ![u] = "none"] /\ sent' = [sent EXCEPT ![u] = NoEntry]
  /\ pend' = IF sent[u] = NoEntry THEN pend
             ELSE [pend EXCEPT ![u] = @ \cup {IF sent[u].failed THEN "failed" ELSE "done"}]
  /\ UNCHANGED <<coordVars, recvVars, splan, staging, staged, sq, run, left, sweep, told, faults>>

\* StartPoolReshardPush: the streams of the pool are queued on the transport.
StreamsOf(u, i) ==
  [k \in DOMAIN T.streams[u][i] |->
     [unit |-> u, pool |-> i, k |-> k, pairs |-> T.streams[u][i][k], planned |-> TRUE, at |-> 1]]

D2hDone(u, i) ==
  /\ <<u, i>> \in staging /\ staging' = staging \ {<<u, i>>}
  /\ staged' = [staged EXCEPT ![u] = @ \cup T.d2h[u][i]]
  /\ IF sent[u] = NoEntry THEN UNCHANGED <<sq, left>>
     ELSE /\ sq' = [sq EXCEPT ![u] = @ \o StreamsOf(u, i)]
          /\ left' = (<<u, i>> :> [n |-> Len(T.streams[u][i]), bad |-> FALSE]) @@ left
  /\ UNCHANGED <<coordVars, recvVars, splan, sent, sfin, run, pollVars, faults>>

D2hFails(u, i) ==
  /\ <<u, i>> \in staging /\ staging' = staging \ {<<u, i>>} /\ Fault
  /\ FinishPoolReshardSend(u, FALSE)
  /\ UNCHANGED <<coordVars, recvVars, splan, staged, sq, run, left, pollVars>>

\* A stream of a push ends; the last one to end completes the push.
StreamEnds(x, ok) ==
  LET k == <<x.unit, x.pool>>
      l == [n |-> left[k].n - 1, bad |-> left[k].bad \/ ~ok]
  IN  /\ left' = [left EXCEPT ![k] = l]
      /\ IF l.n = 0 THEN FinishPoolReshardSend(x.unit, ~l.bad) ELSE UNCHANGED <<sent, sfin>>

-----------------------------------------------------------------------------
(* Streams: the sender's transport and the receiver's connection threads.  *)

Active(u) == Cardinality({x \in run : x.unit = u})

\* HandleIncomingPush up to its acknowledgement: a transfer is refused unless a
\* plan is registered for it.
PushAdmitted == rplan

\* GetPoolPushProgressSpec: the streams of a pool, all senders together.
PushesExpected(i) == T.pushes[i]

\* SelectNextTask, and the stream's request as far as the acknowledgement.
OpenStream(u) ==
  /\ sq[u] # << >> /\ Active(u) < T.q.workers
  /\ sq' = [sq EXCEPT ![u] = Tail(@)]
  /\ LET x == Head(sq[u])
     IN  IF PushAdmitted
         THEN run' = run \cup {[x EXCEPT !.planned = u \in splan]} /\ UNCHANGED <<sent, sfin, left>>
         ELSE StreamEnds(x, FALSE) /\ UNCHANGED run
  /\ UNCHANGED <<coordVars, recvVars, splan, staging, staged, pollVars, faults>>

Unstaged == -1   \* a byte of a sender's mirror no copy has reached

\* What the sender puts on the wire for a pair, and where the receiver lays it:
\* never more than it was offered.
Outgoing(x) ==
  LET pair == x.pairs[x.at]
      addrs == IF x.planned THEN T.send[x.unit][x.pool][pair]
               ELSE LiveAddresses(T.q.meta[x.unit].pools[x.pool], pair[1])
  IN  [k \in DOMAIN addrs |->
         IF addrs[k] \in staged[x.unit] THEN <<x.unit, addrs[k]>> ELSE <<x.unit, Unstaged>>]

Placement(x, size) ==
  LET pair == x.pairs[x.at]
      to == IF rplan THEN T.recv[x.unit][x.pool][pair]
            ELSE LiveAddresses(T.q.dmeta.pools[x.pool], pair[2])
  IN  SubSeq(to, 1, Min({size, Len(to)}))

\* HandleIncomingPush for one block: GetBlockChunks is asked again for each.
ReceiveBlock(x) ==
  /\ x \in run /\ x.at <= Len(x.pairs)
  /\ LET out == Outgoing(x)
         to  == Placement(x, Len(out))
     IN  IF Len(to) # Len(out)
         THEN run' = run \ {x} /\ StreamEnds(x, FALSE) /\ UNCHANGED <<mirror, guessed>>
         ELSE /\ mirror' = [k \in {to[j] : j \in DOMAIN to} |->
                              out[CHOOSE j \in DOMAIN to : to[j] = k]] @@ mirror
              /\ guessed' = IF x.planned /\ rplan THEN guessed ELSE guessed \cup Range(to)
              /\ run' = (run \ {x}) \cup {[x EXCEPT !.at = @ + 1]}
              /\ UNCHANGED <<sent, sfin, left>>
  /\ UNCHANGED <<coordVars, rplan, rent, rfin, prog, dev, uploads, splan, staging, staged, sq,
                 pollVars, faults>>

\* Fault: a pool is uploaded as soon as it is complete, whatever its rank.
EligibleAtOnce(e) == e.started \ e.launched

\* LaunchEligiblePoolH2ds: the pools whose lower ranks have all been uploaded.
Eligible(e) ==
  {i \in e.started \ e.launched :
     \A o \in Pools : T.rank[o] < T.rank[i] => o \in e.completed}

Launch(e, m) ==
  LET go == IF e.finalizing THEN {} ELSE Eligible(e)
  IN  /\ rent' = [e EXCEPT !.launched = @ \cup go]
      /\ uploads' = [i \in go |-> [a \in T.h2d[i] |-> m[a]]] @@ uploads

\* The accounting after the last payload of a stream: the stream is counted, the
\* stream that completes a pool hands it to OnPoolReceived, and the pool that
\* completes the transfer drops the counters.
Counted(i) ==
  LET c == IF i \in DOMAIN prog THEN prog[i] ELSE Fresh
      n == PushesExpected(i)
  IN  [over |-> c.count >= n,
       full |-> c.count + 1 = n,   \* counts only rise, so this happens once
       prog |-> LET q == (i :> [count |-> c.count + 1, called |-> c.count + 1 >= n]) @@ prog
                IN  IF \A o \in Pools : o \in DOMAIN q /\ q[o].called THEN << >> ELSE q]

\* The answer may be lost after the stream was counted.
CountStream(x) ==
  /\ x \in run /\ x.at > Len(x.pairs)
  /\ run' = run \ {x}
  /\ LET c  == Counted(x.pool)
         bad == \/ c.over
                \/ c.full /\ (rent = NoEntry \/ x.pool \in rent.started)
     IN  /\ prog' = c.prog
         /\ IF c.full /\ ~bad THEN Launch([rent EXCEPT !.started = @ \cup {x.pool}], mirror)
            ELSE UNCHANGED <<rent, uploads>>
         /\ \/ StreamEnds(x, ~bad) /\ UNCHANGED faults
            \/ StreamEnds(x, FALSE) /\ Fault
  /\ UNCHANGED <<coordVars, rplan, rfin, mirror, guessed, dev, splan, staging, staged, sq, pollVars>>

\* A connection breaks: what has landed stays, the sender sees a failure.
StreamBreaks(x) ==
  /\ x \in run /\ Fault /\ run' = run \ {x} /\ StreamEnds(x, FALSE)
  /\ UNCHANGED <<coordVars, recvVars, splan, staging, staged, sq, pollVars>>

-----------------------------------------------------------------------------
(* Uploads and the end of the receive.                                     *)

\* Fault: the pools waiting for this upload are not looked at again.
FinishRecvPoolOnly(i, ok) ==
  IF rent = NoEntry \/ rent.finalizing THEN UNCHANGED <<rent, rfin>> /\ uploads' = [o \in DOMAIN uploads \ {i} |-> uploads[o]]
  ELSE LET e == IF ok THEN [rent EXCEPT !.completed = @ \cup {i}] ELSE rent
           over == ~ok \/ e.completed = Pools
       IN  /\ rfin' = IF over THEN (IF ok THEN "unregisterOk" ELSE "unregisterBad") ELSE rfin
           /\ rent' = [e EXCEPT !.finalizing = over]
           /\ uploads' = [o \in DOMAIN uploads \ {i} |-> uploads[o]]

\* FinishPoolReshardRecvPool, up to the release of the lock, and the launch of
\* the pools this upload was a prerequisite of.
FinishPoolReshardRecvPool(i, ok) ==
  LET rest == [o \in DOMAIN uploads \ {i} |-> uploads[o]]
  IN  IF rent = NoEntry \/ rent.finalizing THEN UNCHANGED <<rent, rfin>> /\ uploads' = rest
      ELSE LET e == IF ok THEN [rent EXCEPT !.completed = @ \cup {i}] ELSE rent
               over == ~ok \/ e.completed = Pools
               go == IF over THEN {} ELSE Eligible(e)
           IN  /\ rfin' = IF over THEN (IF ok THEN "unregisterOk" ELSE "unregisterBad") ELSE rfin
               /\ rent' = [e EXCEPT !.finalizing = over, !.launched = @ \cup go]
               /\ uploads' = [o \in go |-> [a \in T.h2d[o] |-> mirror[a]]] @@ rest

\* The copy read the mirror when it was issued or as late as now.
UploadDone(i) ==
  /\ i \in DOMAIN uploads
  /\ \E content \in {uploads[i], [a \in T.h2d[i] |-> mirror[a]]} :
       /\ dev' = content @@ dev
       /\ \/ FinishPoolReshardRecvPool(i, TRUE) /\ UNCHANGED faults
          \/ FinishPoolReshardRecvPool(i, FALSE) /\ Fault
  /\ UNCHANGED <<coordVars, rplan, prog, mirror, guessed, sendVars, pollVars>>

\* UnregisterActivePlan with ForgetPushProgress.
RecvUnregister ==
  /\ rfin \in {"unregisterOk", "unregisterBad"}
  /\ rplan' = FALSE /\ prog' = IF rplan THEN << >> ELSE prog
  /\ rfin' = IF rfin = "unregisterOk" THEN "reportOk" ELSE "reportBad"
  /\ UNCHANGED <<coordVars, rent, mirror, guessed, dev, uploads, sendVars, pollVars, faults>>

\* Fault: the verdict is given whether or not the entry is still there.
RecvReportAlways ==
  /\ rfin \in {"reportOk", "reportBad"} /\ rfin' = "none"
  /\ pend' = [pend EXCEPT ![Receiver] = @ \cup {IF rfin = "reportOk" THEN "done" ELSE "failed"}]
  /\ rent' = IF rent # NoEntry /\ rfin = "reportOk" THEN [rent EXCEPT !.network = TRUE] ELSE NoEntry
  /\ UNCHANGED <<coordVars, rplan, prog, mirror, guessed, dev, uploads, sendVars, sweep, told, faults>>

RecvReport ==
  /\ rfin \in {"reportOk", "reportBad"} /\ rfin' = "none"
  /\ IF rent = NoEntry THEN UNCHANGED <<rent, pend>>
     ELSE /\ pend' = [pend EXCEPT ![Receiver] =
                        @ \cup {IF rfin = "reportOk" THEN "done" ELSE "failed"}]
          /\ rent' = IF rfin = "reportOk" THEN [rent EXCEPT !.network = TRUE] ELSE NoEntry
  /\ UNCHANGED <<coordVars, rplan, prog, mirror, guessed, dev, uploads, sendVars, sweep, told, faults>>

-----------------------------------------------------------------------------
(* CompleteRead: the polls that report verdicts and enforce deadlines.     *)

Tell(w, verdicts) ==
  /\ verdicts # {}
  /\ told' = [told EXCEPT ![w] = @ \o SetToSeq(verdicts)]
  /\ pend' = [pend EXCEPT ![w] = {}]

PollReceiver ==
  /\ Receiver \notin sweep
  /\ \/ /\ rent # NoEntry /\ rent.network
        /\ rent' = NoEntry /\ Tell(Receiver, pend[Receiver] \cup {"done"})
     \/ /\ rent # NoEntry => ~rent.network
        /\ UNCHANGED rent /\ Tell(Receiver, pend[Receiver])
  /\ UNCHANGED <<coordVars, rplan, rfin, prog, mirror, guessed, dev, uploads, sendVars, sweep, faults>>

\* The deadline passed: the entry goes, whatever is still in flight for it.
Late == faults' = IF faults = 0 THEN 1 ELSE faults

PollReceiverLate ==
  /\ Receiver \notin sweep /\ rent # NoEntry /\ ~rent.network /\ Late
  /\ rent' = NoEntry /\ Tell(Receiver, pend[Receiver] \cup {"failed"})
  /\ sweep' = sweep \cup {Receiver}
  /\ UNCHANGED <<coordVars, rplan, rfin, prog, mirror, guessed, dev, uploads, sendVars>>

PollSender(u) ==
  /\ u \notin sweep /\ Tell(u, pend[u])
  /\ UNCHANGED <<coordVars, recvVars, sendVars, sweep, faults>>

PollSenderLate(u) ==
  /\ u \notin sweep /\ sent[u] # NoEntry /\ Late
  /\ sent' = [sent EXCEPT ![u] = NoEntry] /\ Tell(u, pend[u] \cup {"failed"})
  /\ sweep' = sweep \cup {u}
  /\ UNCHANGED <<coordVars, recvVars, splan, sfin, staging, staged, sq, run, left>>

\* Fault: the plans of the entries that expired stay registered.
SweepUnregisterNothing(w) ==
  /\ w \in sweep /\ sweep' = sweep \ {w}
  /\ UNCHANGED <<coordVars, recvVars, sendVars, pend, told, faults>>

\* The same poll, after the lock: the expired plans are unregistered.
SweepUnregister(w) ==
  /\ w \in sweep /\ sweep' = sweep \ {w}
  /\ IF w = Receiver THEN rplan' = FALSE /\ prog' = (IF rplan THEN << >> ELSE prog) /\ UNCHANGED splan
     ELSE splan' = splan \ {w} /\ UNCHANGED <<rplan, prog>>
  /\ UNCHANGED <<coordVars, rent, rfin, mirror, guessed, dev, uploads, sent, sfin, staging, staged, sq, run,
                 left, pend, told, faults>>

-----------------------------------------------------------------------------
InTime ==
  \/ StartPoolReshard \/ Arm \/ Join
  \/ \E u \in Senders :
       \/ PoolReshardPush(u) \/ SendUnregister(u) \/ SendReport(u) \/ OpenStream(u)
       \/ PollSender(u)
       \/ \E i \in Pools : D2hDone(u, i)
  \/ \E x \in run : ReceiveBlock(x) \/ CountStream(x)
  \/ \E i \in DOMAIN uploads : UploadDone(i)
  \/ RecvUnregister \/ RecvReport \/ PollReceiver
  \/ \E w \in sweep : SweepUnregister(w)

Progress == InTime \/ PollReceiverLate \/ \E u \in Senders : PollSenderLate(u)

Faulty ==
  \/ \E u \in Senders : CommandLost(u) \/ \E i \in Pools : D2hFails(u, i)
  \/ \E x \in run : StreamBreaks(x)

Next == Progress \/ Faulty

\* The coordinator's calls, the transport's threads and the copy callbacks all
\* run to their end, and the connector polls for as long as it waits.
Spec == Init /\ [][Next]_vars /\ WF_vars(Progress)

-----------------------------------------------------------------------------
Workers == Senders \cup {Receiver}
Verdicts(w) == pend[w] \cup Range(told[w])

\* A receive reported done has every byte the source ranks declared for the
\* request, and not a neighbour's or an earlier one, at its place on the device,
\* whatever the two sides' strides, padding, page sizes and stream splits, and
\* although an upload rewrites the whole last block (planner, GetBlockChunks,
\* LaunchEligiblePoolH2ds).  Excepted are the bytes of a block that was sent or
\* placed after that side's plan was unregistered: GetBlockChunks then takes the
\* live bytes of the block in address order, whatever the plan says.
DoneIntact ==
  "done" \in Verdicts(Receiver) => \A w \in T.wanted : dev[w[1]] = w[2] \/ w[1] \in guessed

\* Also in a transfer that fails, is cut short or runs past its deadline, no byte
\* shows up on the device anywhere but where it was declared to go, with the
\* same exception; and an upload overwrites what the device held, with what the
\* mirror happens to hold, in the live bytes of the destination blocks only
\* (HandleIncomingPush, GetBlockChunks, H2dPoolBlocks).
NothingMisplaced ==
  \A a \in DOMAIN dev :
    \/ dev[a] = Old \/ <<a, dev[a]>> \in T.wanted
    \/ /\ \E i \in Pools : a \in T.h2d[i]
       /\ dev[a] = Blank \/ a \in guessed

\* When every sender reports its pushes done, the receiver is not waiting
\* for a stream any more: the streams a sender opens are the ones the plan told
\* the receiver to expect (ExpectedPushes, AsyncPush, HandleIncomingPush).
SentMeansReceived ==
  Senders # {} /\ (\A u \in Senders : "done" \in Verdicts(u)) =>
    rent = NoEntry \/ rent.finalizing \/ rent.started = Pools

\* A worker gives one verdict on each command it accepted, although the thread
\* that finishes an entry and the poll that expires it take it in turns
\* (FinishPoolReshardSend, FinishPoolReshardRecvPool, CompleteReadRaw).
ReportedOnce ==
  \A w \in Workers :
    Len(told[w]) + Cardinality(pend[w]) <= IF w = Receiver THEN att ELSE 1

Busy(w) ==
  IF w = Receiver THEN rplan \/ rent # NoEntry ELSE w \in splan \/ sent[w] # NoEntry

\* Every command a worker accepted ends: its plan and its entry are both gone
\* sooner or later, whatever broke on the way.
TransfersSettle == (\E w \in Workers : Busy(w)) ~> (\A w \in Workers : ~Busy(w))

\* No transfer needs its deadline to end: as long as nothing went wrong, the only
\* states in which nothing but a deadline is left to wait for are those in which
\* every worker has reported the transfer done (the hand-over from stream to
\* count to upload to the next rank's upload, OnPoolReceived to
\* FinishPoolReshardRecvPool, loses no wake-up).
CleanTransfersComplete ==
  faults = 0 /\ T.ok /\ ~ENABLED InTime => \A w \in Workers : "done" \in Verdicts(w)
=============================================================================
