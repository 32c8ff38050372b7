----------------------------- MODULE WeightSync -----------------------------
(***************************************************************************)
(* A weight transfer end to end: the Python controller                      *)
(* (rpc/raiden_controller.py) plans it, arms the receivers and commands the *)
(* senders; every worker (weight_sync/weight_synchronizer_base.cc behind    *)
(* weight_synchronizer_listener.cc) copies its weights from the device to   *)
(* the host, pushes the planned byte ranges over the raw transport          *)
(* (transport/lib/raw_buffer_transport.cc), counts what arrives and, with   *)
(* auto_h2d, copies complete layers to the device.                          *)
(*                                                                         *)
(* A deployment (SyncPlanner) also says: par, window (push parallelism and  *)
(* coalescing window), auto (auto_h2d), calls (the start_transfer requests: *)
(* req_id, version of the weights, when the request may come), restarts     *)
(* (units that may restart once), faults (how many connections and device   *)
(* copies may fail), fails (which: "conn", "d2h", "h2d") and                *)
(* remote: the destinations belong to a controller of their own, which the  *)
(* planning controller asks for their addresses and asks to arm them.       *)
(*                                                                         *)
(* An element of a weight is its tuple of bytes, every byte of every version*)
(* distinct, so a byte in the wrong place or of the wrong version is seen.  *)
(***************************************************************************)
EXTENDS SyncPlanner

CONSTANTS Deployments,   \* a sequence of deployments; a behaviour has one
          Plans          \* the plan of each, as PlanOf works it out

Units(c) == ToSet(c.src) \cup ToSet(c.dst)
Layers(c) == 1..Len(c.vars)
Versions(c) == 0..Max({c.calls[h].ver : h \in 1..Len(c.calls)})

-----------------------------------------------------------------------------
(* Buffers.  A shard's slice is given in physical order. *)

Element(c, l, v, e) == Tabulate([b \in 1..c.vars[l].isz |-> (v * 1000 + e) * 8 + b])

\* The elements of a slice in row-major order; version 0 is a blank buffer.
Linear(c, l, sl, v) ==
  LET x == c.vars[l]
      m2m == MajorToMinor(x.layout)
      shape == [d \in 1..Len(m2m) |-> x.shape[m2m[d] + 1]]
  IN Tabulate([i \in 1..Prod(Extent(sl)) |->
        IF v = 0 THEN Tabulate([b \in 1..x.isz |-> 0])
        ELSE LET k == Coord(i - 1, Extent(sl))
             IN Element(c, l, v, RowMajor([d \in 1..Len(k) |-> sl[d][1] + k[d]], shape))])

\* The device's own format of a slice (external: the layout of the runtime).
DeviceImage(c, l, sl, v) ==
  LET lin == Linear(c, l, sl, v)
      ext == Extent(sl)
      t   == c.vars[l].tiles
      at  == Tabulate([i \in 1..Len(lin) |-> NestedTileIndex(Coord(i - 1, ext), ext, t)])
  IN IF t = <<>> THEN lin
     ELSE [k \in 1..GetTiledBufferElements(ext, t) |->
             IF \E i \in 1..Len(lin) : at[i] = k - 1
             THEN lin[CHOOSE i \in 1..Len(lin) : at[i] = k - 1] ELSE ZeroElement]

ToBytes(elements, isz) ==
  FlattenSeq([i \in 1..Len(elements) |->
                IF elements[i] = ZeroElement THEN [b \in 1..isz |-> 0] ELSE elements[i]])

ToElements(bytes, isz) ==
  [i \in 1..(Len(bytes) \div isz) |-> SubSeq(bytes, (i - 1) * isz + 1, i * isz)]

LogicalShape(c, l, sl) ==
  LET m2m == MajorToMinor(c.vars[l].layout)
  IN [d \in 1..Len(m2m) |-> Extent(sl)[CHOOSE i \in 1..Len(m2m) : m2m[i] = d - 1]]

\* The conversions move elements without looking at them, so each is worked
\* out once, on a buffer of positions.
Positions(n) == Tabulate([i \in 1..n |-> << i >>])

DetiledFrom(c, l, sl) ==
  LET x == c.vars[l] IN
  Tabulate(DetileBuffer(Positions(GetTiledBufferElements(Extent(sl), x.tiles)),
                        LogicalShape(c, l, sl), x.layout, x.tiles))

TiledFrom(c, l, sl) ==
  LET x == c.vars[l] IN
  Tabulate(TileBuffer(Positions(Prod(Extent(sl))), LogicalShape(c, l, sl), x.layout, x.tiles))

Moved(elements, from) ==
  [i \in 1..Len(from) |-> IF from[i] = ZeroElement THEN ZeroElement ELSE elements[from[i][1]]]

-----------------------------------------------------------------------------
(* What depends on the deployment only. *)

\* The batches of a schedule, per layer.
BatchesOf(c, sched, par) ==
  Tabulate([l \in Layers(c) |-> Batches(LayerTasks(sched, l), par, c.window, c.dst)])

\* A tree with, per hop, the pushes the receiver expects and the batches.
TreePlan(c, t) ==
  LET dsts == TreeDsts(c, t)
      hops(F(_)) == Tabulate([p \in {t.src} \cup ToSet(dsts) |->
                      Tabulate([d \in ToSet(dsts) |-> F(HopEntries(c, t, p, d))])])
  IN [src |-> t.src, dsts |-> dsts,
      count |-> hops(LAMBDA sched : SumCounts(sched, LAMBDA e : TRUE)),
      push  |-> hops(LAMBDA sched : BatchesOf(c, sched, 1))]

PlanOf ==
  Tabulate([n \in 1..Len(Deployments) |->
     LET c == Planned(Deployments[n])
         ts == SetToSeq(Trees(c))
         all == AllDirect(c)
         ofShards(F(_, _)) ==
           Tabulate([u \in Units(c) |-> Tabulate([l \in Layers(c) |->
             Tabulate([j \in 1..c.shards[u] |-> F(l, c.held[u][l][j])])])])
     IN [of      |-> Deployments[n],
         skip    |-> c.skip,
         held    |-> c.held,
         senders |-> {u \in ToSet(c.src) : Direct(c, u) # << >>},
         push    |-> Tabulate([u \in ToSet(c.src) |-> BatchesOf(c, Direct(c, u), c.par)]),
         counts  |-> DstUnitCounts(all),
         layers  |-> Tabulate([d \in DOMAIN DstUnitCounts(all) |-> DstUnitLayerCounts(all, d)]),
         trees   |-> Tabulate([i \in 1..Len(ts) |-> TreePlan(c, ts[i])]),
         detile  |-> ofShards(LAMBDA l, sl : DetiledFrom(c, l, sl)),
         tile    |-> ofShards(LAMBDA l, sl : TiledFrom(c, l, sl))]])

ASSUME PlansAssumption == Plans = PlanOf

\* Per deployment, unit, version, layer and shard.
OfShards(Val(_, _, _, _, _)) ==
  Tabulate([n \in 1..Len(Deployments) |->
     LET c == Deployments[n]
     IN Tabulate([u \in Units(c) |-> Tabulate([v \in Versions(c) |-> Tabulate([l \in Layers(c) |->
          Tabulate([j \in 1..c.shards[u] |-> Val(n, v, l, u, Plans[n].held[u][l][j])])])])])])

ImageOf == OfShards(LAMBDA n, v, l, u, sl : Tabulate(DeviceImage(Deployments[n], l, sl, v)))

\* What a host buffer starts with once a version has reached it, in the order
\* the layer travels in.
WantedOf ==
  OfShards(LAMBDA n, v, l, u, sl :
    Tabulate(ToBytes(IF Plans[n].skip[l] THEN DeviceImage(Deployments[n], l, sl, v)
                     ELSE Linear(Deployments[n], l, sl, v), Deployments[n].vars[l].isz)))

-----------------------------------------------------------------------------
VARIABLES
  dep,      \* the deployment
  reg,      \* the life of a unit the controller has registered
  cache,    \* the plan cache: <<>>, or the data addresses a cached plan names
  task,     \* _active_tasks: the future of a request, 0 when it has none
  fut,      \* RaidenFuture, named after the handler that made it
  peer,     \* _active_tasks of the destinations' controller: the transfer armed
  hnd,      \* the connection handlers of the controller
  tree,     \* the running broadcast trees
  calls,    \* start_transfer commands at the workers
  wk,       \* the state of each worker process
  host, dev,   \* the host buffers and the device buffers
  d2h, h2d,    \* copies from and to the device in progress
  bat,      \* pushed batches
  cb,       \* threads running the receive callbacks
  ver,      \* the version of the weights on the sources
  faults,   \* connections and device copies that have failed so far
  crossed,  \* history: layers <<unit, layer>> written by one version in the way of another
  uncopied  \* history: layers whose copy to the device failed

hist == << crossed, uncopied >>
vars == << dep, reg, cache, task, fut, peer, hnd, tree, calls, wk, host, dev, d2h, h2d, bat, cb,
           ver, faults, hist >>
ctl  == << reg, cache, task, fut, peer, hnd, tree >>
work == << wk, host, dev, d2h, h2d, bat, cb, hist >>

P == Plans[dep]
C == P.of

\* A layer is converted when it is tiled on the device and does not travel
\* in tiled order.
Converts(u, l) == C.vars[l].tiles # << >> /\ ~wk[u].skip[l]
Handlers == 1..Len(C.calls)
NumLayers == Len(C.vars)

NewWorker(life) ==
  [life |-> life, skip |-> Tabulate([l \in 1..NumLayers |-> FALSE]), copied |-> {},
   prog |-> << >>, pend |-> << >>]

BlankHost(u) ==
  Tabulate([l \in Layers(C) |->
    Tabulate([j \in 1..C.shards[u] |-> ToBytes(ImageOf[dep][u][0][l][j], C.vars[l].isz)])])

Init ==
  /\ dep \in 1..Len(Deployments)
  /\ reg = [u \in Units(C) |-> 1]
  /\ cache = << >>
  /\ task = [r \in {C.calls[h].req : h \in Handlers} |-> 0]
  /\ fut = [h \in Handlers |-> "none"]
  /\ peer = task
  /\ hnd = [h \in Handlers |-> [pc |-> "idle", obj |-> 0, via |-> 0, addr |-> << >>]]
  /\ tree = << >> /\ calls = << >> /\ bat = << >> /\ cb = << >> /\ h2d = << >>
  /\ wk = [u \in Units(C) |-> NewWorker(1)]
  /\ host = [u \in Units(C) |-> BlankHost(u)]
  /\ dev = [u \in Units(C) |-> ImageOf[dep][u][IF u \in ToSet(C.src) THEN 1 ELSE 0]]
  /\ d2h = {} /\ ver = 1 /\ faults = 0 /\ crossed = {} /\ uncopied = {}

-----------------------------------------------------------------------------
(* The controller.  Every request has a connection thread, its handler. *)

Put(f, k, v) == (k :> v) @@ f
Drop(f, K) == [k \in DOMAIN f \ K |-> f[k]]

Uuid(o) == << o, 0, 0 >>
HopUuid(o, i, d) == << o, i, CHOOSE n \in 1..Len(C.dst) : C.dst[n] = d >>

MayFail(kind) == kind \in C.fails /\ faults < C.faults

Busy(k) == calls[k].st \notin {"ok", "failed"}

Quiet ==
  /\ \A k \in DOMAIN calls : ~Busy(k)
  /\ bat = << >> /\ cb = << >> /\ d2h = {}
  /\ \A k \in DOMAIN h2d : h2d[k].st = "done"

\* When a request may arrive.  A new version is only sent once the requests for
\* the previous one have been answered; its copies to the devices, and after a
\* failure its pushes, may still be under way.
MayCall(h) ==
  /\ C.calls[h].ver = ver
  /\ \/ C.calls[h].when = "any"
     \/ C.calls[h].when = "retry" /\ task[C.calls[h].req] # 0
     \/ /\ C.calls[h].when = "next"
        /\ \A g \in 1..(h - 1) : hnd[g].pc = "done"

\* A coordinate_transfer request has come in; its connection gets a thread.
Accepted(h) == hnd[h].pc = "idle" /\ MayCall(h)

Lookup(h) ==
  /\ Accepted(h)
  /\ LET t == task[C.calls[h].req]
     IN hnd' = [hnd EXCEPT ![h].pc = IF t = 0 THEN "fresh" ELSE "join", ![h].obj = t]
  /\ UNCHANGED << dep, reg, cache, task, fut, peer, tree, calls, work, ver, faults >>

Publish(h) ==
  /\ hnd[h].pc = "fresh"
  /\ task' = [task EXCEPT ![C.calls[h].req] = h]
  /\ fut' = [fut EXCEPT ![h] = "idle"]
  /\ hnd' = [hnd EXCEPT ![h].pc = "join", ![h].obj = h]
  /\ UNCHANGED << dep, reg, cache, peer, tree, calls, work, ver, faults >>

try_start(h) ==
  /\ hnd[h].pc = "join"
  /\ IF fut[hnd[h].obj] = "idle"
     THEN /\ fut' = [fut EXCEPT ![hnd[h].obj] = "started"]
          /\ hnd' = [hnd EXCEPT ![h].pc = "cache"]
     ELSE hnd' = [hnd EXCEPT ![h].pc = "wait"] /\ UNCHANGED fut
  /\ UNCHANGED << dep, reg, cache, task, peer, tree, calls, work, ver, faults >>

wait_threadsafe(h) ==
  /\ hnd[h].pc = "wait" /\ fut[hnd[h].obj] \in {"ok", "failed"}
  /\ hnd' = [hnd EXCEPT ![h].pc = "done"]
  /\ UNCHANGED << dep, reg, cache, task, fut, peer, tree, calls, work, ver, faults >>

CacheLookup(h) ==
  /\ hnd[h].pc = "cache"
  /\ hnd' = [hnd EXCEPT ![h].pc = IF cache = << >> THEN "plan" ELSE "arm",
                        ![h].addr = IF cache = << >> THEN << >> ELSE cache[1]]
  /\ UNCHANGED << dep, reg, cache, task, fut, peer, tree, calls, work, ver, faults >>

\* What either controller says of its units: the addresses they registered last.
Metadata == reg

\* The plan names the data addresses registered when it is made.
ComputePlan(h) ==
  /\ hnd[h].pc = "plan"
  /\ hnd' = [hnd EXCEPT ![h].pc = "store", ![h].addr = Metadata]
  /\ UNCHANGED << dep, reg, cache, task, fut, peer, tree, calls, work, ver, faults >>

StorePlan(h) ==
  /\ hnd[h].pc = "store"
  /\ cache' = << hnd[h].addr >>
  /\ hnd' = [hnd EXCEPT ![h].pc = "arm"]
  /\ UNCHANGED << dep, reg, task, fut, peer, tree, calls, work, ver, faults >>

\* Commands go to the control address registered at that moment.
RecvCall(u, count, layers) ==
  [st |-> "sent", to |-> reg[u], count |-> count, layers |-> layers]

SendCall(u, noD2h, addr) ==
  [st |-> "sent", to |-> reg[u], noD2h |-> noD2h, addr |-> addr, layer |-> 1, await |-> FALSE,
   bad |-> {}]

ArmDirect(h) ==
  /\ hnd[h].pc = "arm" /\ ~C.remote
  /\ LET o == hnd[h].obj
     IN /\ calls' = [k \in {<< Uuid(o), d, "recv" >> : d \in DOMAIN P.counts} |->
                       RecvCall(k[2], P.counts[k[2]], P.layers[k[2]])] @@ calls
        /\ hnd' = [hnd EXCEPT ![h].pc = "arming", ![h].via = o]
  /\ UNCHANGED << dep, reg, cache, task, fut, peer, tree, work, ver, faults >>

\* register_transfer_schedule at the destinations' controller: a request it
\* already knows joins the transfer armed for it, whatever its uuid.
RegisterLookup(h) ==
  /\ hnd[h].pc = "arm" /\ C.remote
  /\ LET o == peer[C.calls[h].req]
     IN hnd' = [hnd EXCEPT ![h].pc = IF o = 0 THEN "register" ELSE "arming", ![h].via = o]
  /\ UNCHANGED << dep, reg, cache, task, fut, peer, tree, calls, work, ver, faults >>

RegisterPublish(h) ==
  /\ hnd[h].pc = "register"
  /\ peer' = [peer EXCEPT ![C.calls[h].req] = hnd[h].obj]
  /\ hnd' = [hnd EXCEPT ![h].pc = "prepare", ![h].via = hnd[h].obj]
  /\ UNCHANGED << dep, reg, cache, task, fut, tree, calls, work, ver, faults >>

\* The receiver coordinator: every destination is told the largest of the
\* totals, and no counts per layer.
PrepareReceivers(h) ==
  /\ hnd[h].pc = "prepare"
  /\ LET most == Max({P.counts[d] : d \in DOMAIN P.counts})
     IN calls' = [k \in {<< Uuid(hnd[h].obj), d, "recv" >> : d \in DOMAIN P.counts} |->
                    RecvCall(k[2], most, << >>)] @@ calls
  /\ hnd' = [hnd EXCEPT ![h].pc = "arming"]
  /\ UNCHANGED << dep, reg, cache, task, fut, peer, tree, work, ver, faults >>

Outcome(K) ==
  IF \E k \in K : calls[k].st = "failed" THEN "failed"
  ELSE IF \A k \in K : calls[k].st = "ok" THEN "ok" ELSE "open"

\* Greedy assignment: every available source, in order, takes pending units
\* until it has broadcast_k pushes running.
Assign(t) ==
  LET active(s) == Cardinality({d \in DOMAIN t.hops : t.hops[d] = s})
      slots == FlattenSeq([i \in 1..Len(t.avail) |->
                 [j \in 1..(C.K - active(t.avail[i])) |-> t.avail[i]]])
      n == Min({Len(slots), Len(t.pending)})
  IN [t EXCEPT !.hops = [d \in {t.pending[i] : i \in 1..n} |->
                           slots[CHOOSE i \in 1..n : t.pending[i] = d]] @@ t.hops,
               !.pending = SubSeq(t.pending, n + 1, Len(t.pending))]

\* The commands that arm the receivers of the hops just assigned in some
\* trees.  They carry a total and no counts per layer.
HopArms(o, old, new) ==
  [k \in UNION {{<< HopUuid(o, i, d), d, "recv" >> : d \in DOMAIN new[i].hops \ DOMAIN old[i].hops}
                : i \in DOMAIN new} |->
     LET i == k[1][2] IN RecvCall(k[2], P.trees[i].count[new[i].hops[k[2]]][k[2]], << >>)]

StartPushes(h) ==
  /\ hnd[h].pc = "arming"
  /\ LET o == hnd[h].obj
         K == {<< Uuid(hnd[h].via), d, "recv" >> : d \in DOMAIN P.counts}
         armed == IF K \subseteq DOMAIN calls THEN Outcome(K) ELSE "open"
         new(i) == [avail |-> << P.trees[i].src >>, pending |-> P.trees[i].dsts, hops |-> << >>]
     IN \/ /\ armed = "failed"
           /\ fut' = [fut EXCEPT ![o] = "failed"]
           /\ hnd' = [hnd EXCEPT ![h].pc = "done"]
           /\ UNCHANGED << tree, calls >>
        \/ /\ armed = "ok"
           /\ \E old \in {Tabulate([i \in 1..Len(P.trees) |-> new(i)])} :
              \E first \in {Tabulate([i \in 1..Len(P.trees) |-> Assign(old[i])])} :
                /\ tree' = [x \in {<< o, i >> : i \in 1..Len(P.trees)} |-> first[x[2]]] @@ tree
                /\ calls' = HopArms(o, old, first) @@ calls @@
                     [k \in {<< Uuid(o), u, "send" >> : u \in P.senders} |->
                        SendCall(k[2], FALSE, hnd[h].addr)]
           /\ hnd' = [hnd EXCEPT ![h].pc = "pushing"]
           /\ UNCHANGED fut
  /\ UNCHANGED << dep, reg, cache, task, peer, work, ver, faults >>

\* _run_single_transfer: once the receiver is armed, the hop's source pushes.
HopPush(h, i, d) ==
  /\ hnd[h].pc = "pushing" /\ d \in DOMAIN tree[<< hnd[h].obj, i >>].hops
  /\ LET o == hnd[h].obj
         s == tree[<< o, i >>].hops[d]
         k == << HopUuid(o, i, d), s, "send" >>
     IN /\ calls[<< HopUuid(o, i, d), d, "recv" >>].st = "ok" /\ k \notin DOMAIN calls
        /\ calls' = calls @@ (k :> SendCall(s, s # P.trees[i].src, hnd[h].addr))
  /\ UNCHANGED << dep, ctl, work, ver, faults >>

HopOutcome(o, i, d) ==
  LET s == tree[<< o, i >>].hops[d]
      r == << HopUuid(o, i, d), d, "recv" >>
      k == << HopUuid(o, i, d), s, "send" >>
  IN IF calls[r].st = "failed" THEN "failed"
     ELSE IF k \in DOMAIN calls THEN Outcome({k}) ELSE "open"

\* A unit that has received everything becomes a source of its tree.
Promote(h, i) ==
  /\ hnd[h].pc = "pushing"
  /\ LET o == hnd[h].obj
         t == tree[<< o, i >>]
         good == {d \in DOMAIN t.hops : HopOutcome(o, i, d) = "ok"}
     IN \E D \in SUBSET good : D # {} /\ \E order \in SetToSeqs(D) :
          \E freed \in {[t EXCEPT !.avail = t.avail \o order,
                                  !.hops = Drop(t.hops, D)]} :
          \E new \in {Assign(freed)} :
            /\ tree' = [tree EXCEPT ![<< o, i >>] = new]
            /\ calls' = HopArms(o, i :> freed, i :> new) @@ calls
  /\ UNCHANGED << dep, reg, cache, task, fut, peer, hnd, work, ver, faults >>

\* Fault: the failure of a push never reaches the future.
FinishUnanswered(h) ==
  /\ hnd[h].pc = "pushing"
  /\ LET o == hnd[h].obj
         direct == Outcome({<< Uuid(o), u, "send" >> : u \in P.senders})
         bad(i) == \E d \in DOMAIN tree[<< o, i >>].hops : HopOutcome(o, i, d) = "failed"
         over(i) == tree[<< o, i >>].hops = << >> /\ tree[<< o, i >>].pending = << >>
     IN \/ (direct = "failed" \/ \E i \in 1..Len(P.trees) : bad(i)) /\ UNCHANGED fut
        \/ /\ direct = "ok" /\ \A i \in 1..Len(P.trees) : over(i)
           /\ fut' = [fut EXCEPT ![o] = "ok"]
  /\ hnd' = [hnd EXCEPT ![h].pc = "done"]
  /\ UNCHANGED << dep, reg, cache, task, peer, tree, calls, work, ver, faults >>

\* gather: the first failure ends the transfer, and nothing of it is resumed;
\* the commands already sent go on.
Finish(h) ==
  /\ hnd[h].pc = "pushing"
  /\ LET o == hnd[h].obj
         direct == Outcome({<< Uuid(o), u, "send" >> : u \in P.senders})
         bad(i) == \E d \in DOMAIN tree[<< o, i >>].hops : HopOutcome(o, i, d) = "failed"
         over(i) == tree[<< o, i >>].hops = << >> /\ tree[<< o, i >>].pending = << >>
     IN \/ /\ direct = "failed" \/ \E i \in 1..Len(P.trees) : bad(i)
           /\ fut' = [fut EXCEPT ![o] = "failed"]
        \/ /\ direct = "ok" /\ \A i \in 1..Len(P.trees) : over(i)
           /\ fut' = [fut EXCEPT ![o] = "ok"]
  /\ hnd' = [hnd EXCEPT ![h].pc = "done"]
  /\ UNCHANGED << dep, reg, cache, task, peer, tree, calls, work, ver, faults >>

\* Registration replaces what the unit's controller knew of it: requests it takes
\* part in are forgotten and every cached plan is dropped.  The destinations'
\* controller has no plans; those of the planning controller stay.
register_work_unit(u) ==
  /\ reg[u] # wk[u].life
  /\ reg' = [reg EXCEPT ![u] = wk[u].life]
  /\ IF C.remote /\ u \in ToSet(C.dst)
     THEN peer' = [r \in DOMAIN peer |-> 0] /\ UNCHANGED << task, cache >>
     ELSE task' = [r \in DOMAIN task |-> 0] /\ cache' = << >> /\ UNCHANGED peer
  /\ UNCHANGED << dep, fut, hnd, tree, calls, work, ver, faults >>

-----------------------------------------------------------------------------
(* The receiving side of a worker. *)

Alive(k) == wk[k[2]].life = calls[k].to

Answer(k, st) == calls' = [calls EXCEPT ![k].st = st]

ProgOf(u, uuid) ==
  IF uuid \in DOMAIN wk[u].prog THEN wk[u].prog[uuid]
  ELSE [done |-> 0, per |-> [l \in 1..NumLayers |-> 0], expected |-> -1, layers |-> << >>,
        fired |-> {}]

PendOf(u, uuid) ==
  IF uuid \in DOMAIN wk[u].pend THEN wk[u].pend[uuid] ELSE [expected |-> 0, futures |-> {}]

\* Layers whose count has just become complete.
Complete(p) ==
  {l \in DOMAIN p.layers : p.per[l] = p.layers[l] /\ p.per[l] > 0} \ p.fired

\* A thread that has to run OnLayerDataReceived for some layers and then,
\* when `last', OnDataReceived.
Callbacks(o, u, uuid, todo, last) ==
  IF todo = {} /\ ~last THEN cb
  ELSE Put(cb, o, [u |-> u, uuid |-> uuid, todo |-> todo, last |-> last, layers |-> {}])

RegisterExpectedLayerChunks(k) ==
  LET u == k[2]
      q == [ProgOf(u, k[1]) EXCEPT !.layers = calls[k].layers]
      T == Complete(q)
  IN IF calls[k].layers = << >> THEN wk' = [wk EXCEPT ![u].skip = P.skip] /\ UNCHANGED cb
     ELSE /\ wk' = [wk EXCEPT ![u].skip = P.skip,
                    ![u].pend = Put(@, k[1], [PendOf(u, k[1]) EXCEPT
                                                !.expected = Cardinality(DOMAIN calls[k].layers)]),
                    ![u].prog = Put(@, k[1], [q EXCEPT !.fired = @ \cup T])]
          /\ cb' = Callbacks(k, u, k[1], T, FALSE)

RecvCommand(k) ==
  /\ k[3] = "recv" /\ calls[k].st = "sent"
  /\ IF Alive(k) /\ calls[k].count > 0
     THEN RegisterExpectedLayerChunks(k) /\ Answer(k, "layers")
     ELSE Answer(k, "failed") /\ UNCHANGED << wk, cb >>
  /\ UNCHANGED << dep, ctl, host, dev, d2h, h2d, bat, ver, faults, hist >>

RegisterExpectedChunks(k) ==
  LET u == k[2]
      p == ProgOf(u, k[1])
      e == PendOf(u, k[1])
      full == p.done = calls[k].count
  IN /\ wk' = [wk EXCEPT ![u].pend = Put(@, k[1], [e EXCEPT !.expected = IF @ = 0 THEN NumLayers ELSE @]),
                         ![u].prog = IF full THEN Drop(@, {k[1]})
                                     ELSE Put(@, k[1], [p EXCEPT !.expected = calls[k].count])]
     /\ cb' = Callbacks(k, u, k[1], {}, full)

RecvTotal(k) ==
  /\ k[3] = "recv" /\ calls[k].st = "layers" /\ k \notin DOMAIN cb
  /\ RegisterExpectedChunks(k)
  /\ Answer(k, "counted")
  /\ UNCHANGED << dep, ctl, host, dev, d2h, h2d, bat, ver, faults, hist >>

RecvReply(k) ==
  /\ k[3] = "recv" /\ calls[k].st = "counted" /\ k \notin DOMAIN cb
  /\ Answer(k, "ok")
  /\ UNCHANGED << dep, ctl, work, ver, faults >>

-----------------------------------------------------------------------------
(* The sending side: PushWeightsResharded and PushBuffers. *)

\* What the sender of transfer or hop `uuid' pushes of a layer.  A direct push
\* runs with the configured parallelism, a hop with 1.
BatchesFor(uuid, u, l) ==
  IF uuid[2] = 0 THEN P.push[u][l] ELSE P.trees[uuid[2]].push[u][C.dst[uuid[3]]][l]

Parallelism(uuid) == IF uuid[2] = 0 THEN C.par ELSE 1

InBounds(uuid, u) ==
  \A l \in Layers(C) : \A b \in ToSet(BatchesFor(uuid, u, l)) : \A t \in ToSet(b) :
    t.soff + t.size <= Len(host[u][l][t.sshard])

PushWeightsResharded(k) ==
  /\ k[3] = "send" /\ calls[k].st = "sent"
  /\ LET u == k[2]
         copy == ~calls[k].noD2h /\ k[1] \notin wk[u].copied
     IN IF Alive(k) /\ InBounds(k[1], u)
        THEN /\ wk' = [wk EXCEPT ![u].skip = P.skip,
                                 ![u].copied = IF calls[k].noD2h THEN @ ELSE @ \cup {k[1]}]
             /\ d2h' = IF copy THEN d2h \cup {<< u, k[1], l >> : l \in Layers(C)} ELSE d2h
             /\ calls' = [calls EXCEPT ![k].st = "push", ![k].await = copy]
        ELSE Answer(k, "failed") /\ UNCHANGED << wk, d2h >>
  /\ UNCHANGED << dep, ctl, host, dev, h2d, bat, cb, ver, faults, hist >>

VersionOf(uuid) == C.calls[uuid[1]].ver
Tasks(b) == BatchesFor(b[1], b[2], b[3])[b[4]]
Peer(b) == Tasks(b)[1].peer

\* Version v is about to be written over layer l of unit u.  It crosses another
\* version when that one may still be written to, or copied from, the same
\* buffer, or still has to read it for a push to another unit.
Crossing(u, l, v) ==
  LET other(uuid) == VersionOf(uuid) # v
      late(k) == k[3] = "send" /\ Busy(k) /\ calls[k].layer <= l /\ other(k[1])
      inUse == \/ \E b \in DOMAIN bat : Peer(b) = u /\ b[3] = l /\ other(b[1])
               \/ \E k \in DOMAIN calls : late(k)
               \/ \E o \in DOMAIN cb : cb[o].u = u /\ other(cb[o].uuid)
               \/ \E k \in DOMAIN h2d : /\ k[1] = u /\ k[3] = l /\ other(k[2])
                                         /\ h2d[k].st \in {"queued", "copy"}
      unread == {b \in DOMAIN bat : b[2] = u /\ b[3] = l /\ bat[b].st = "queued" /\ other(b[1])}
  IN (IF inUse THEN {<< u, l >>} ELSE {}) \cup {<< Peer(b), l >> : b \in unread}
       \cup {<< d, l >> : d \in IF \E k \in DOMAIN calls : k[2] = u /\ late(k) THEN ToSet(C.dst)
                                 ELSE {}}

\* The device copy of one layer ends; the copies of the layers are concurrent.
\* It takes what the device holds by then, of this version or of a later one.
D2hLayer(u, uuid, l) ==
  /\ << u, uuid, l >> \in d2h
  /\ d2h' = d2h \ {<< u, uuid, l >>}
  /\ crossed' = crossed \cup Crossing(u, l, VersionOf(uuid)) \cup
       {<< d, l >> : d \in IF VersionOf(uuid) # ver THEN ToSet(C.dst) ELSE {}}
  /\ host' = [host EXCEPT ![u][l] =
       Tabulate([j \in 1..C.shards[u] |->
         LET image == dev[u][l][j]
             over  == ToBytes(IF Converts(u, l) THEN Moved(image, P.detile[u][l][j]) ELSE image,
                              C.vars[l].isz)
         IN over \o SubSeq(@[j], Len(over) + 1, Len(@[j]))])]
  /\ UNCHANGED << dep, ctl, calls, wk, dev, h2d, bat, cb, ver, faults, uncopied >>

\* The device copy fails: the future its sender waits for has an error.
D2hFails(u, uuid, l) ==
  /\ << u, uuid, l >> \in d2h /\ MayFail("d2h")
  /\ faults' = faults + 1
  /\ d2h' = d2h \ {<< u, uuid, l >>}
  /\ calls' = [calls EXCEPT ![<< uuid, u, "send" >>].bad = @ \cup {l}]
  /\ UNCHANGED << dep, ctl, wk, host, dev, h2d, bat, cb, ver, hist >>

\* As soon as a layer is on the host its batches go to the push pool.  A copy
\* that failed is the answer; the layers before it are pushed on unawaited.
PushLayer(k) ==
  /\ k[3] = "send" /\ calls[k].st = "push" /\ calls[k].layer <= NumLayers
  /\ LET l == calls[k].layer
         n == Len(BatchesFor(k[1], k[2], l))
         lost == {b \in DOMAIN bat : << b[1], b[2] >> = << k[1], k[2] >> /\ bat[b].st = "lost"}
     IN /\ calls[k].await => << k[2], k[1], l >> \notin d2h
        /\ \/ /\ l \notin calls[k].bad
              /\ bat' = [b \in {<< k[1], k[2], l, i >> : i \in 1..n} |->
                            [st |-> "queued", data |-> << >>]] @@ bat
              /\ calls' = [calls EXCEPT ![k].layer = l + 1]
           \/ /\ l \in calls[k].bad
              /\ Answer(k, "failed")
              /\ bat' = Drop(bat, lost)
  /\ UNCHANGED << dep, ctl, wk, host, dev, d2h, h2d, cb, ver, faults, hist >>

SameLayer(b) == {x \in DOMAIN bat : << x[1], x[2], x[3] >> = << b[1], b[2], b[3] >>}
CallOf(b) == << b[1], b[2], "send" >>

\* With parallelism 1 a failed batch ends the layer's push.  Once the sender
\* has answered nobody looks at the failure.
Lost(B) ==
  LET cut(x) == \E b \in B : x \in SameLayer(b) /\ x[4] > b[4] /\ Parallelism(b[1]) <= 1
      gone == {x \in DOMAIN bat : bat[x].st = "queued" /\ cut(x)} \cup {b \in B : ~Busy(CallOf(b))}
      keep == DOMAIN bat \ gone
  IN [x \in keep |-> IF x \in B THEN [bat[x] EXCEPT !.st = "lost"] ELSE bat[x]]

Bytes(u, t) == SubSeq(host[u][t.layer][t.sshard], t.soff + 1, t.soff + t.size)

PushBatch(b) ==
  /\ bat[b].st = "queued"
  /\ \A x \in SameLayer(b) : x[4] < b[4] => bat[x].st # "queued"
  /\ Cardinality({x \in SameLayer(b) : bat[x].st = "flying"}) < Max({1, Parallelism(b[1])})
  /\ bat' = IF wk[Peer(b)].life = calls[CallOf(b)].addr[Peer(b)]
            THEN [bat EXCEPT ![b] = [st |-> "flying",
                    data |-> Tabulate([i \in 1..Len(Tasks(b)) |-> Bytes(b[2], Tasks(b)[i])])]]
            ELSE Lost({b})
  /\ UNCHANGED << dep, ctl, calls, wk, host, dev, d2h, h2d, cb, ver, faults, hist >>

\* Fault: the sender answers without waiting for the push pool.
PushReplyEarly(k) ==
  /\ k[3] = "send" /\ calls[k].st = "push" /\ calls[k].layer > NumLayers
  /\ Answer(k, "ok")
  /\ UNCHANGED << dep, ctl, work, ver, faults >>

\* The push pool's results are taken layer by layer; the first error is the
\* answer, and the later layers are pushed on without being waited for.
PushReply(k) ==
  /\ k[3] = "send" /\ calls[k].st = "push" /\ calls[k].layer > NumLayers
  /\ LET mine == {b \in DOMAIN bat : << b[1], b[2] >> = << k[1], k[2] >>}
         open == {b \in mine : bat[b].st \in {"queued", "flying"}}
         lost == {b \in mine : bat[b].st = "lost"}
     IN \/ /\ open = {} /\ lost = {} /\ Answer(k, "ok") /\ UNCHANGED bat
        \/ /\ \E b \in lost : \A x \in open : x[3] > b[3]
           /\ Answer(k, "failed")
           /\ bat' = Drop(bat, lost)
  /\ UNCHANGED << dep, ctl, wk, host, dev, d2h, h2d, cb, ver, faults, hist >>

-----------------------------------------------------------------------------
(* ProcessPeerRequest: a batch arrives at a worker. *)

Fits(b) ==
  \A t \in ToSet(Tasks(b)) : t.doff + t.size <= Len(host[Peer(b)][b[3]][t.dshard])

\* The tasks are written in order, so the last one that covers a byte wins.
Written(b) ==
  LET covers(i, j, x) == LET t == Tasks(b)[i]
                         IN t.dshard = j /\ x > t.doff /\ x <= t.doff + t.size
      at(j, x, old) == LET I == {i \in 1..Len(Tasks(b)) : covers(i, j, x)}
                       IN IF I = {} THEN old ELSE bat[b].data[Max(I)][x - Tasks(b)[Max(I)].doff]
  IN [host EXCEPT ![Peer(b)][b[3]] =
        Tabulate([j \in DOMAIN @ |-> Tabulate([x \in 1..Len(@[j]) |-> at(j, x, @[j][x])])])]

\* The bytes are read into the host buffers and acknowledged.
BatchArrives(b) ==
  /\ bat[b].st = "flying"
  /\ IF Fits(b) THEN /\ host' = Written(b)
                     /\ crossed' = crossed \cup Crossing(Peer(b), b[3], VersionOf(b[1]))
                     /\ bat' = [bat EXCEPT ![b].st = "acked", ![b].data = << >>]
                ELSE bat' = Lost({b}) /\ UNCHANGED << host, crossed >>
  /\ UNCHANGED << dep, ctl, calls, wk, dev, d2h, h2d, cb, ver, faults, uncopied >>

\* The connection breaks before the bytes or after them, before the ack.
ConnectionBreaks(b) ==
  /\ bat[b].st = "flying" /\ MayFail("conn")
  /\ faults' = faults + 1
  /\ \/ UNCHANGED << host, crossed >>
     \/ /\ host' = Written(b)
        /\ crossed' = crossed \cup Crossing(Peer(b), b[3], VersionOf(b[1]))
  /\ bat' = Lost({b})
  /\ UNCHANGED << dep, ctl, calls, wk, dev, d2h, h2d, cb, ver, uncopied >>

\* Fault: the chunk that completes the transfer erases the progress before
\* its layer's callback is due.
CountBatchTotalFirst(b) ==
  /\ bat[b].st = "acked"
  /\ LET u == Peer(b)
         n == Len(Tasks(b))
         p == ProgOf(u, b[1])
         q == [p EXCEPT !.done = @ + n, !.per[b[3]] = @ + n]
         full == q.done = q.expected
         T == IF full THEN {}
              ELSE {l \in DOMAIN p.layers : p.per[l] < p.layers[l] /\ q.per[l] >= p.layers[l]} \ p.fired
     IN /\ wk' = [wk EXCEPT ![u].prog = IF full THEN Drop(@, {b[1]})
                                        ELSE Put(@, b[1], [q EXCEPT !.fired = @ \cup T])]
        /\ cb' = Callbacks(b, u, b[1], T, full)
  /\ bat' = Drop(bat, {b})
  /\ UNCHANGED << dep, ctl, calls, host, dev, d2h, h2d, ver, faults, hist >>

\* After the ack the chunks are counted; the counter that completes a layer
\* or the transfer runs the callbacks.
CountBatch(b) ==
  /\ bat[b].st = "acked"
  /\ LET u == Peer(b)
         n == Len(Tasks(b))
         p == ProgOf(u, b[1])
         q == [p EXCEPT !.done = @ + n, !.per[b[3]] = @ + n]
         T == {l \in DOMAIN p.layers : p.per[l] < p.layers[l] /\ q.per[l] >= p.layers[l]} \ p.fired
         full == q.done = q.expected
     IN /\ wk' = [wk EXCEPT ![u].prog = IF full THEN Drop(@, {b[1]})
                                        ELSE Put(@, b[1], [q EXCEPT !.fired = @ \cup T])]
        /\ cb' = Callbacks(b, u, b[1], T, full)
  /\ bat' = Drop(bat, {b})
  /\ UNCHANGED << dep, ctl, calls, host, dev, d2h, h2d, ver, faults, hist >>

Start(u, uuid, L) == [k \in {<< u, uuid, l >> : l \in L} |-> [st |-> "queued", data |-> << >>]] @@ h2d

OnLayerDataReceived(o) ==
  /\ cb[o].todo # {}
  /\ \E l \in cb[o].todo :
       LET u == cb[o].u
           x == cb[o].uuid
           e == PendOf(u, x)
           rest == cb[o].todo \ {l}
       IN /\ IF C.auto
             THEN /\ wk' = [wk EXCEPT ![u].pend =
                              Put(@, x, [expected |-> IF e.expected = 0 THEN NumLayers ELSE e.expected,
                                         futures |-> e.futures \cup {l}])]
                  /\ h2d' = Start(u, x, {l})
             ELSE UNCHANGED << wk, h2d >>
          /\ cb' = IF rest = {} /\ ~cb[o].last THEN Drop(cb, {o}) ELSE [cb EXCEPT ![o].todo = rest]
  /\ UNCHANGED << dep, ctl, calls, host, dev, d2h, bat, ver, faults, hist >>

\* OnDataReceived waits until every layer's copy has been scheduled, takes
\* them and joins them; without a pending entry it copies all layers.
OnDataReceived(o) ==
  /\ cb[o].todo = {} /\ cb[o].last /\ cb[o].layers = {}
  /\ LET u == cb[o].u
         x == cb[o].uuid
         e == PendOf(u, x)
         L == IF e.futures = {} THEN Layers(C) ELSE e.futures
     IN IF ~C.auto THEN cb' = Drop(cb, {o}) /\ UNCHANGED << wk, h2d >>
        ELSE /\ x \in DOMAIN wk[u].pend => Cardinality(e.futures) >= e.expected
             /\ wk' = [wk EXCEPT ![u].pend = Drop(@, {x})]
             /\ h2d' = IF e.futures = {} THEN Start(u, x, L) ELSE h2d
             /\ cb' = [cb EXCEPT ![o].layers = L]
  /\ UNCHANGED << dep, ctl, calls, host, dev, d2h, bat, ver, faults, hist >>

\* The first error ends the callback: the command it runs for is answered with
\* it, or the connection it runs on is closed, with what the sender may have
\* pushed on it since the ack; the copies not yet joined go on.
CopiesJoined(o) ==
  /\ cb[o].layers # {}
  /\ LET mine == {<< cb[o].u, cb[o].uuid, l >> : l \in cb[o].layers}
         over == {k \in mine : h2d[k].st \in {"done", "failed"}}
         next == {b \in DOMAIN bat : bat[b].st = "flying" /\ << b[2], Peer(b) >> = << o[2], cb[o].u >>}
     IN \/ /\ \A k \in mine : h2d[k].st = "done"
           /\ UNCHANGED << calls, bat >>
           /\ h2d' = Drop(h2d, mine)
        \/ /\ \E k \in mine : h2d[k].st = "failed"
           /\ IF o \in DOMAIN calls THEN Answer(o, "failed") /\ UNCHANGED bat
              ELSE bat' \in {bat} \cup {Lost({b}) : b \in next} /\ UNCHANGED calls
           /\ h2d' = Drop(h2d, over)
  /\ cb' = Drop(cb, {o})
  /\ UNCHANGED << dep, ctl, wk, host, dev, d2h, ver, faults, hist >>

\* H2dLayer: a converted layer is tiled into a temporary buffer first.
TileLayer(k) ==
  /\ h2d[k].st = "queued"
  /\ LET u == k[1]
         l == k[3]
         tiled(j) == Moved(ToElements(host[u][l][j], C.vars[l].isz), P.tile[u][l][j])
     IN h2d' = [h2d EXCEPT ![k] =
          [st |-> "copy", data |-> IF Converts(u, l)
                                   THEN Tabulate([j \in 1..C.shards[u] |-> Tabulate(tiled(j))])
                                   ELSE << >>]]
  /\ UNCHANGED << dep, ctl, calls, wk, host, dev, d2h, bat, cb, ver, faults, hist >>

CopyLayer(k) ==
  /\ h2d[k].st = "copy"
  /\ LET u == k[1]
         l == k[3]
     IN dev' = [dev EXCEPT ![u][l] =
          IF h2d[k].data # << >> THEN h2d[k].data
          ELSE Tabulate([j \in 1..C.shards[u] |->
                 Tabulate(ToElements(host[u][l][j], C.vars[l].isz))])]
  /\ h2d' = [h2d EXCEPT ![k] = [st |-> "done", data |-> << >>]]
  /\ UNCHANGED << dep, ctl, calls, wk, host, d2h, bat, cb, ver, faults, hist >>

\* The runtime reports an error for the copy, or H2dLayer does not get to it;
\* the device keeps what it had.
CopyFails(k) ==
  /\ h2d[k].st \in {"queued", "copy"} /\ MayFail("h2d")
  /\ faults' = faults + 1
  /\ h2d' = [h2d EXCEPT ![k] = [st |-> "failed", data |-> << >>]]
  /\ uncopied' = uncopied \cup {<< k[1], k[3] >>}
  /\ UNCHANGED << dep, ctl, calls, wk, host, dev, d2h, bat, cb, ver, crossed >>

-----------------------------------------------------------------------------
(* The environment. *)

\* A destination process restarts: its calls and connections break, its
\* buffers are blank, and its addresses are new.
Restart(u) ==
  /\ u \in C.restarts /\ wk[u].life = 1
  /\ wk' = [wk EXCEPT ![u] = NewWorker(2)]
  /\ host' = [host EXCEPT ![u] = BlankHost(u)]
  /\ dev' = [dev EXCEPT ![u] = ImageOf[dep][u][0]]
  /\ calls' = [k \in DOMAIN calls |->
                 IF k[2] = u /\ Busy(k) /\ calls[k].st # "sent" THEN [calls[k] EXCEPT !.st = "failed"]
                 ELSE calls[k]]
  /\ d2h' = {x \in d2h : x[1] # u}
  /\ h2d' = Drop(h2d, {x \in DOMAIN h2d : x[1] = u})
  /\ cb' = Drop(cb, {o \in DOMAIN cb : cb[o].u = u})
  /\ LET to == {b \in DOMAIN bat : Peer(b) = u}
         from == {b \in DOMAIN bat : b[2] = u /\ bat[b].st # "acked"}
         left == Lost({b \in to \ from : bat[b].st = "flying"})
     IN bat' = Drop(left, from \cup {b \in to : bat[b].st = "acked"})
  /\ UNCHANGED << dep, ctl, ver, faults, hist >>

\* The trainer makes the next version once its last request has been answered.
TrainStep ==
  /\ \A h \in Handlers : C.calls[h].ver <= ver => hnd[h].pc = "done"
  /\ \E h \in Handlers : C.calls[h].ver > ver
  /\ ver' = ver + 1
  /\ dev' = [u \in Units(C) |-> IF u \in ToSet(C.src) THEN ImageOf[dep][u][ver + 1] ELSE dev[u]]
  /\ UNCHANGED << dep, ctl, calls, wk, host, d2h, h2d, bat, cb, faults, hist >>

Controller ==
  \/ \E h \in Handlers : \/ Lookup(h) \/ Publish(h) \/ try_start(h) \/ wait_threadsafe(h)
                         \/ CacheLookup(h) \/ ComputePlan(h) \/ StorePlan(h) \/ ArmDirect(h)
                         \/ RegisterLookup(h) \/ RegisterPublish(h) \/ PrepareReceivers(h)
                         \/ StartPushes(h) \/ Finish(h)
  \/ \E h \in Handlers, i \in 1..Len(P.trees) :
       Promote(h, i) \/ \E d \in ToSet(C.dst) : HopPush(h, i, d)
  \/ \E u \in Units(C) : register_work_unit(u)

Worker ==
  \/ \E k \in DOMAIN calls : \/ RecvCommand(k) \/ RecvTotal(k) \/ RecvReply(k)
                             \/ PushWeightsResharded(k) \/ PushLayer(k) \/ PushReply(k)
  \/ \E x \in d2h : D2hLayer(x[1], x[2], x[3])
  \/ \E b \in DOMAIN bat : PushBatch(b) \/ BatchArrives(b) \/ CountBatch(b)
  \/ \E o \in DOMAIN cb : OnLayerDataReceived(o) \/ OnDataReceived(o) \/ CopiesJoined(o)
  \/ \E k \in DOMAIN h2d : TileLayer(k) \/ CopyLayer(k)

Next ==
  \/ Controller \/ Worker \/ TrainStep
  \/ \E u \in Units(C) : Restart(u)
  \/ \E b \in DOMAIN bat : ConnectionBreaks(b)
  \/ \E x \in d2h : D2hFails(x[1], x[2], x[3])
  \/ \E k \in DOMAIN h2d : CopyFails(k)

\* Threads, event loops and pools run whatever is ready; a process does not
\* have to restart, nor a connection or a copy to fail.
Spec == Init /\ [][Next]_vars /\ WF_vars(Controller \/ Worker \/ TrainStep)

-----------------------------------------------------------------------------
(* Properties *)

\* The data addresses future o was executed with.
AddressesOf(o) ==
  hnd[CHOOSE g \in Handlers : hnd[g].obj = o /\ hnd[g].addr # << >>].addr

HostHolds(u, v, l) ==
  \A j \in 1..C.shards[u] :
    LET w == WantedOf[dep][u][v][l][j] IN SubSeq(host[u][l][j], 1, Len(w)) = w

\* COMPLETED means delivered: once a transfer has succeeded, every destination
\* that is still the process the plan named holds, byte for byte, its slice of
\* that version of every layer in its host buffers (PushWeightsResharded's
\* "successfully ACK-handshaked delivery to all remote peers").  Nothing fences
\* off the pushes a failed transfer of an earlier version left behind: a layer
\* they may still have reached while this one was delivered is excepted.
CompletedMeansLanded ==
  \A o \in Handlers :
    fut[o] = "ok" /\ C.calls[o].ver = ver =>
      \A u \in ToSet(C.dst), l \in Layers(C) :
        wk[u].life = AddressesOf(o)[u] => << u, l >> \in crossed \/ HostHolds(u, ver, l)

\* With auto_h2d a device layer is at every moment one whole version: the copy
\* of a layer never starts before all of its chunks are on the host.  The ack
\* comes before the copy and H2dLayer reads the host buffer itself, so that a
\* layer into which the next version was pushed before the copy was over is
\* excepted; a caller that pushes a version only when the copies of the last
\* one are over never sees a torn layer.
DeviceNeverTorn ==
  C.auto => \A u \in ToSet(C.dst), l \in Layers(C) :
              \/ << u, l >> \in crossed
              \/ \E v \in Versions(C) : dev[u][l] = ImageOf[dep][u][v][l]

\* The counts the controller computes are the counts the workers make: when
\* all is quiet no receiver still waits for chunks of a transfer that has
\* succeeded (raw_progress_, and pending_h2d_states_ with auto_h2d), except those
\* of a duplicate request that the destinations' controller took for the first
\* one, so that its own uuid was never armed.
CountsDrain ==
  Quiet => \A u \in ToSet(C.dst) :
             \A x \in DOMAIN wk[u].prog \cup (IF C.auto THEN DOMAIN wk[u].pend ELSE {}) :
               \/ fut[x[1]] # "ok"
               \/ \E h \in Handlers : hnd[h].obj = x[1] /\ hnd[h].via \notin {0, x[1]}

AllHandlers == 1..Max({Len(Deployments[n].calls) : n \in 1..Len(Deployments)})

\* With auto_h2d what was delivered reaches the device: after a successful
\* transfer every layer of every destination that lives on ends up there in
\* that version, or in the next one, unless its copy failed or the next version
\* was pushed into it too early.
DeviceCatchesUp ==
  \A o \in AllHandlers :
    (o \in Handlers /\ C.auto /\ fut[o] = "ok") ~>
      (o \in Handlers /\ \A u \in ToSet(C.dst), l \in Layers(C) :
         \/ wk[u].life = 2
         \/ << u, l >> \in crossed \cup uncopied
         \/ \E v \in C.calls[o].ver..Max(Versions(C)) : dev[u][l] = ImageOf[dep][u][v][l])

\* Every request the controller has taken up is answered, whatever restarts or
\* breaks on the way.
RequestsSettle ==
  \A h \in AllHandlers :
    (h \in Handlers /\ hnd[h].pc # "idle") ~> (h \in Handlers /\ hnd[h].pc = "done")
=============================================================================
