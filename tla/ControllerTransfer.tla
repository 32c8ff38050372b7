------------------------- MODULE ControllerTransfer -------------------------
(***************************************************************************)
(* A RaidenController and its workers.  Workers register; then clients     *)
(* reserve host blocks and call TransferBuffers, which the controller      *)
(* broadcasts.  A worker serves one RPC at a time under its service mutex, *)
(* hands it to its NUMA sub-managers in turn, and answers when their       *)
(* futures are ready.  A copy of several blocks through host staging is    *)
(* pipelined block by block on thread pools; a failure of one block        *)
(* resolves the whole copy at once, while the other blocks' work goes on.  *)
(* The buffers that registration provisions at a worker are left out: no   *)
(* transfer reads or writes them.                                          *)
(*                                                                         *)
(* Memory is one function from cells <<place, worker, array, block>>; an   *)
(* array is a layer and a shard.  A content says which cell it started in, *)
(* and which odd writes brought it here (see Odd).                         *)
(***************************************************************************)
EXTENDS LogicalBlockManager, TransferRouting, SequencesExt

CONSTANTS Scenarios,  \* fleets, peers and calls
          Calls       \* TransferBuffers calls; <<c>> holds the staging blocks of c

VARIABLES sc,      \* the scenario
          plan,    \* what each worker makes of each call
          up,      \* "init", "up" once Create returned, "gone" after Cleanup
          reg,     \* workers_ of the registry
          call,    \* per call: status, blocks and the workers it was sent to
          rpc,     \* per call and worker, at the worker
          ans,     \* the answer the controller has for it
          op,      \* per call and worker: the work of the sub-managers, in order
          mem,     \* the memories
          faults   \* failures left

ctlVars == <<vars, sc, plan, up, reg, call, rpc, ans, op, mem, faults>>

Workers == DOMAIN sc.node
Layers == 1 .. sc.layers
Shards == 1 .. Len(sc.numa)
Subs == sc.subs
Req(c) == sc.calls[c]

Content(x) == [cell |-> x, odd |-> {}]

OwnEndpoints(w) ==
  IF sc.static THEN << >>
  ELSE [s \in DOMAIN Subs |-> [place |-> "host", w |-> w, shards |-> Subs[s]]]

\* The operation worker w makes of call c, and the peer endpoint of each of its
\* sub-managers: a single remote address, or the match among the descriptors.
Interpreted(c, w) ==
  LET r    == Req(c)
      src  == SrcDescriptors(r, w, sc.node[w])
      dst  == DstDescriptors(r, w, sc.node[w], OwnEndpoints(w))
      eps  == IF src # << >> THEN src ELSE dst
      addr == IF r.src.addr # << >> THEN r.src.addr ELSE r.dst.addr
      peer(s) == IF addr # << >> THEN addr[1]
                 ELSE IF eps = << >> THEN << >>
                 ELSE IF sc.composite THEN MatchedEndpoint(Subs[s], eps) ELSE eps[1]
  IN  [do |-> WorkerOp(r, src, dst), peer |-> [s \in DOMAIN Subs |-> peer(s)]]

CtlInit ==
  /\ Init
  /\ sc \in {s @@ [subs |-> SubManagers(s.numa, s.nics, s.multi)] : s \in Scenarios}
  /\ plan = [c \in Calls |-> [w \in {w \in Workers : Paired(Req(c), w, sc.node[w])} |->
               Interpreted(c, w)]]
  /\ up = "init" /\ reg = {}
  /\ call = [c \in Calls |-> [st |-> "idle", land |-> << >>, stg |-> << >>, sent |-> {}]]
  /\ rpc = [c \in Calls |-> [w \in Workers |-> "none"]]
  /\ ans = [c \in Calls |-> [w \in Workers |-> "none"]]
  /\ op = [c \in Calls |-> [w \in Workers |-> << >>]]
  /\ mem = [x \in {"dev", "host", "peer"} \X Workers \X (Layers \X Shards) \X Block |->
              Content(x)]
  /\ faults = sc.faults

Fails == faults > 0 /\ faults' = faults - 1

-----------------------------------------------------------------------------
(* Registration                                                            *)

\* node_id 0 is unset and may repeat; a worker may register again.
NodeFree(w) == sc.node[w] # 0 => \A v \in reg \ {w} : sc.node[v] # sc.node[w]

ctlRest == <<vars, sc, plan, call, rpc, ans, op, mem>>

\* Init registers the workers it is given; the others come at any time.
MayRegister == up = "init" \/ (up = "up" /\ ~sc.static)

\* RegisterWorker with InitializeWorkerBuffers as its callback; a worker that is
\* registered already is updated.
Register(w) ==
  /\ MayRegister /\ NodeFree(w)
  /\ reg' = reg \cup {w}
  /\ UNCHANGED <<ctlRest, up, faults>>

\* CreateBuffers fails at the worker, which is not registered; a static one fails
\* Init.  (An update that fails changes nothing.)
RegisterFails(w) ==
  /\ MayRegister /\ w \notin reg /\ NodeFree(w) /\ Fails
  /\ up' = IF sc.static THEN "gone" ELSE up
  /\ UNCHANGED <<ctlRest, reg>>

\* Init returns once the expected workers are there.
Ready ==
  /\ up = "init" /\ Cardinality(reg) >= sc.expected
  /\ sc.static => reg = Workers
  /\ up' = "up"
  /\ UNCHANGED <<ctlRest, reg, faults>>

\* Cleanup: the expected workers did not come in time, or the owner destroys the
\* controller after the last call was made.  Calls may still fly, and RPCs of calls
\* that returned early; but the callback of a call with staging blocks uses the
\* controller, so the owner has to wait for it.
Cleanup ==
  /\ \/ up = "init" /\ Cardinality(reg) < sc.expected /\ Fails
     \/ /\ up = "up" /\ UNCHANGED faults
        /\ \A c \in Calls : /\ call[c].st \notin {"idle", "held"}
                            /\ call[c].st = "flying" => call[c].stg = << >>
  /\ up' = "gone"
  /\ UNCHANGED <<ctlRest, reg>>

-----------------------------------------------------------------------------
(* Clients and the controller                                              *)

fleet == <<sc, plan, up, reg>>
workerSide == <<rpc, ans, op, mem>>

CanAllocate(n) == \E S \in SUBSET Block : Selected(n, S)

\* A destination in the controller's own host memory is reserved first.
Lands(c) == ~IsRemote(Req(c).dst) /\ Req(c).dst.mem = "dram"

\* The host blocks a call reads come from an earlier call, whose client keeps them.
SourceReady(c) == Req(c).from # c => call[Req(c).from].st = "ok"

\* AllocateBlockIds, or AllocateTargetBlockIds when a restart restores known ids.
Reserve(c) ==
  /\ up = "up" /\ call[c].st = "idle" /\ SourceReady(c) /\ Lands(c)
  /\ IF Req(c).target # {}
     THEN AllocateTarget(c, Req(c).target)
     ELSE Allocate(c, Len(Req(c).src.ids), TRUE)
  /\ call' = [call EXCEPT ![c].st = "held", ![c].land = InOrder(held'[c])]
  /\ UNCHANGED <<fleet, workerSide, faults>>

\* The pool is exhausted or a wanted id is taken.
ReserveFails(c) ==
  /\ up = "up" /\ call[c].st = "idle" /\ SourceReady(c) /\ Lands(c)
  /\ IF Req(c).target # {}
     THEN Req(c).target \cap allocated # {}
     ELSE ~CanAllocate(Len(Req(c).src.ids))
  /\ call' = [call EXCEPT ![c].st = "over"]
  /\ UNCHANGED <<vars, fleet, workerSide, faults>>

\* Workers are numbered in the order the controller sorts them.
CompareWorkerIds(v, w) == v < w

\* The workers that get the RPC: in that order, up to the first one without a
\* counterpart, where the call returns.
Served(c) ==
  {w \in reg : \A v \in reg : v = w \/ CompareWorkerIds(v, w) => Paired(Req(c), v, sc.node[v])}

MaySend(c) ==
  /\ up = "up"
  /\ call[c].st = (IF Lands(c) THEN "held" ELSE "idle")
  /\ SourceReady(c)

\* TransferBuffers of the controller.
Transfer(c) ==
  LET r == Req(c)
      n == Len(r.src.ids)
      exhausted == LocalStagingRequired(r) /\ ~CanAllocate(n)
      refused == exhausted \/ RemoteStagingMissing(r)
      ok == reg # {} /\ Served(c) = reg
  IN  /\ MaySend(c)
      /\ IF LocalStagingRequired(r) /\ ~exhausted
         THEN Allocate(<<c>>, n, TRUE) ELSE UNCHANGED vars
      /\ call' = [call EXCEPT
           ![c].st = IF refused \/ ~ok THEN "err" ELSE "flying",
           ![c].stg = InOrder(held'[<<c>>]),
           ![c].sent = IF refused THEN {} ELSE Served(c)]
      /\ rpc' = [rpc EXCEPT ![c] = [w \in Workers |->
           IF ~refused /\ w \in Served(c) THEN "sent" ELSE "none"]]
      /\ UNCHANGED <<fleet, ans, op, mem, faults>>

\* Fault: the join resolves with the first error.
JoinedAtFirstError(c) ==
  \/ \E w \in call[c].sent : ans[c][w] = "err"
  \/ \A w \in call[c].sent : ans[c][w] # "none"

\* JoinFutures (external): ready when every worker has answered.
Joined(c) == \A w \in call[c].sent : ans[c][w] # "none"

\* Fault: only a successful transfer returns its staging blocks.
ReturnStagingIfOk(c) ==
  IF \A w \in call[c].sent : ans[c][w] = "ok"
  THEN Deallocate(<<c>>, held[<<c>>]) ELSE UNCHANGED vars

\* The staging blocks allocated for the call go back.
ReturnStaging(c) == Deallocate(<<c>>, held[<<c>>])

\* The callback on the joined future.
Resolve(c) ==
  /\ call[c].st = "flying" /\ Joined(c)
  /\ ReturnStaging(c)
  /\ call' = [call EXCEPT ![c].st =
       IF \A w \in call[c].sent : ans[c][w] = "ok" THEN "ok" ELSE "err"]
  /\ UNCHANGED <<fleet, workerSide, faults>>

\* The client is through with its blocks (DeallocateBlockIds): at once after a
\* failure, else when no later call still reads them.  The pool dies with the
\* controller.
Release(c) ==
  /\ call[c].st \in {"ok", "err"}
  /\ \A d \in Calls \ {c} : Req(d).from = c =>
       call[c].st = "err" \/ up = "gone" \/ call[d].st \in {"ok", "err", "over"}
  /\ IF up = "gone" THEN UNCHANGED vars ELSE Deallocate(c, held[c])
  /\ call' = [call EXCEPT ![c].st = "over"]
  /\ UNCHANGED <<fleet, workerSide, faults>>

\* A call whose blocks never came to be is not made.
Skip(c) ==
  /\ call[c].st = "idle" /\ Req(c).from # c
  /\ call[Req(c).from].st \in {"err", "over"}
  /\ call' = [call EXCEPT ![c].st = "over"]
  /\ UNCHANGED <<vars, fleet, workerSide, faults>>
-----------------------------------------------------------------------------
(* What the work of a call moves                                           *)

WorkerCall(c, w) == plan[c][w].do
Endpoint(c, w, s) == plan[c][w].peer[s]

Pulls(c, w) == WorkerCall(c, w) \in {"H2hRead", "H2dRead"}
Pushes(c, w) == WorkerCall(c, w) \in {"H2hWrite", "D2hWrite"}

\* A copy from the device ignores the endpoints of its destination: a peer's host
\* blocks given by worker groups become the worker's own blocks of these numbers.
Misdirected(c, w) == WorkerCall(c, w) = "D2h" /\ IsRemote(Req(c).dst)

\* The endpoint of sub-manager s does not serve exactly its shards.
SplitOtherwise(c, w, s) == (Pulls(c, w) \/ Pushes(c, w)) /\ Endpoint(c, w, s).shards # Subs[s]

\* More than one block through host staging, and a pool to run the blocks on.
Pipelined(c, w) ==
  /\ WorkerCall(c, w) \in {"H2dRead", "D2hWrite"}
  /\ Len(Req(c).src.ids) > 1 /\ sc.pool

Chunks(c, w) == IF Pipelined(c, w) THEN DOMAIN Req(c).src.ids ELSE {1}

\* The blocks of a list that chunk i is about.
Part(c, w, ids, i) == IF Pipelined(c, w) THEN <<ids[i]>> ELSE ids

\* Host blocks next to the device, and next to the network.  A caller that copies
\* several blocks at once names the first of them.
NearDevice(c, w) ==
  LET named == CASE Misdirected(c, w) -> Req(c).dst.ids
                 [] WorkerCall(c, w) = "D2h" -> call[c].land
                 [] WorkerCall(c, w) = "H2d" -> call[Req(c).from].land
                 [] OTHER -> call[c].stg
  IN  SubSeq(named, 1, Len(Req(c).src.ids))
NearNetwork(c, w) ==
  CASE WorkerCall(c, w) = "H2hRead" -> call[c].land
    [] WorkerCall(c, w) = "H2hWrite" -> call[Req(c).from].land
    [] OTHER -> call[c].stg
FarIds(c, w) ==
  IF Pulls(c, w) THEN Req(c).src.ids
  ELSE IF IsRemote(Req(c).dst) THEN Req(c).dst.ids ELSE call[c].land

\* DispatchD2hWork and DispatchH2dWork: the runs, in every array of the list.
DispatchD2hWork(w, works, runs) ==
  {<<<<"dev", w, a, p[1]>>, <<"host", w, a, p[2]>>>> : p \in BlockPairs(runs), a \in works}
DispatchH2dWork(w, works, runs) ==
  {<<<<"host", w, a, p[1]>>, <<"dev", w, a, p[2]>>>> : p \in BlockPairs(runs), a \in works}

\* A list of blocks between the device and the host buffers of sub-manager s.
DispatchD2hChunks(w, s, src, dst, sizes) ==
  DispatchD2hWork(w, Layers \X Range(Subs[s]), CoalesceMajorDimCopies(src, dst, sizes))
H2dSyncDispatch(w, s, src, dst, sizes) ==
  DispatchH2dWork(w, Layers \X Range(Subs[s]), CoalesceMajorDimCopies(src, dst, sizes))

\* The device copies of a chunk.
DeviceCopies(c, w, s, i) ==
  LET host  == Part(c, w, NearDevice(c, w), i)
      sizes == Part(c, w, CopySizes(Req(c)), i)
  IN  IF WorkerCall(c, w) \in {"D2h", "D2hWrite"}
      THEN DispatchD2hChunks(w, s, Part(c, w, Req(c).src.ids, i), host, sizes)
      ELSE H2dSyncDispatch(w, s, host, Part(c, w, Req(c).dst.ids, i), sizes)

\* One request of a pull: the server's payloads, in its order, land where the
\* client expects its own.  Blocks first .. last of the lists.
PullRequest(e, shards, w, far, near, first, last) ==
  LET n == last - first + 1
  IN  [t \in 1 .. sc.layers * Len(shards) * n |->
        LET sent == ResolveStepCoordinates(t - 1, Len(e.shards), n)
            want == ForEachPayload(t - 1, sc.layers, Len(shards), n)
        IN  <<<<e.place, e.w, <<sent.l + 1, e.shards[sent.sh + 1]>>, far[first] + sent.k>>,
              <<"host", w, <<want.l + 1, shards[want.sh + 1]>>, near[first + want.k]>>>>]

\* A pull makes its requests one after the other on one stream.
PullStream(e, shards, w, far, near) ==
  FlattenSeq([j \in DOMAIN PullChunks(far) |->
    PullRequest(e, shards, w, far, near, PullChunks(far)[j][1], PullChunks(far)[j][2])])

\* One push stream, over its share of the blocks.
PushStream(e, shards, w, far, near, share) ==
  [t \in 1 .. sc.layers * Len(shards) * share.count |->
    LET want == ForEachPayload(t - 1, sc.layers, Len(shards), share.count)
        at   == share.off + want.k + 1
    IN  <<<<"host", w, <<want.l + 1, shards[want.sh + 1]>>, near[at]>>,
          <<e.place, e.w, <<want.l + 1, e.shards[want.sh + 1]>>, far[at]>>>>]

\* The payloads of a chunk, stream by stream.  An explicit pull has one stream.
Streams(c, w, s, i) ==
  LET e    == Endpoint(c, w, s)
      far  == Part(c, w, FarIds(c, w), i)
      near == Part(c, w, NearNetwork(c, w), i)
      cut  == StreamShares(Len(near), sc.parallelism)
  IN  IF Pulls(c, w) THEN <<PullStream(e, Subs[s], w, far, near)>>
      ELSE [k \in DOMAIN cut |-> PushStream(e, Subs[s], w, far, near, cut[k])]

\* Nobody waits for this work any more: the controller has an answer, or its
\* call returned early.
Stray(c, w) == ans[c][w] # "none" \/ call[c].st # "flying"

\* What is odd about the writes of sub-manager s.
Odd(c, w, s) ==
  {k \in {"stray", "misdirected", "split"} :
     CASE k = "stray" -> Stray(c, w)
       [] k = "misdirected" -> Misdirected(c, w)
       [] k = "split" -> SplitOtherwise(c, w, s)}

\* The copies take effect.
Copy(c, w, s, pairs) ==
  mem' = [d \in {p[2] : p \in pairs} |->
            LET p == CHOOSE q \in pairs : q[2] = d
            IN  [mem[p[1]] EXCEPT !.odd = @ \cup Odd(c, w, s)]] @@ mem

-----------------------------------------------------------------------------
(* The workers                                                             *)

controller == <<vars, fleet, call>>

\* TransferBuffers of the worker service begins: it holds mutex_ to the end.
Start(c, w) ==
  /\ rpc[c][w] = "sent"
  /\ \A d \in Calls : rpc[d][w] # "run"
  /\ IF Implemented(WorkerCall(c, w), sc.composite)
     THEN rpc' = [rpc EXCEPT ![c][w] = "run"] /\ UNCHANGED ans
     ELSE /\ rpc' = [rpc EXCEPT ![c][w] = "err"]
          /\ ans' = [ans EXCEPT ![c][w] = IF @ = "none" THEN "err" ELSE @]
  /\ UNCHANGED <<controller, op, mem, faults>>

\* The worker answers: the mutex is free, whatever of its work goes on.
Reply(c, w, status) ==
  /\ rpc' = [rpc EXCEPT ![c][w] = status]
  /\ ans' = [ans EXCEPT ![c][w] = IF @ = "none" THEN status ELSE @]

At(c, w, s, i) == op[c][w][s].at[i]
Set(c, w, s, i, st) == op' = [op EXCEPT ![c][w][s].at[i] = st]
Failed(c, w, s) == op[c][w][s].failed
SetError(c, w, s, i) ==
  op' = [op EXCEPT ![c][w][s].at[i] = "done", ![c][w][s].failed = TRUE]

Ops == {<<c, w, s, i>> \in Calls \X Workers \X (DOMAIN Subs) \X (1 .. sc.most) :
          s \in DOMAIN op[c][w] /\ i \in DOMAIN op[c][w][s].at}

\* The calling thread is still inside the operation of sub-manager s.
Blocking(c, w, s) ==
  /\ ~Pipelined(c, w)
  /\ \/ At(c, w, s, 1) \in {"queued", "net"} /\ WorkerCall(c, w) \notin {"D2h", "H2d"}
     \/ At(c, w, s, 1) = "dev" /\ WorkerCall(c, w) = "D2hWrite"

\* Where the work of a chunk starts: pulls wait for server_init_mu_ or a pool
\* thread, background copies for the worker loop.
FirstStage(c, w) ==
  CASE Pulls(c, w) -> "queued"
    [] WorkerCall(c, w) = "H2hWrite" -> "net"
    [] WorkerCall(c, w) \in {"D2h", "H2d"} /\ sc.background -> "queued"
    [] OTHER -> "dev"

\* The streams of a chunk with the payloads they have yet to move.
Connected(c, w, s, i) ==
  [k \in DOMAIN Streams(c, w, s, i) |-> [left |-> Streams(c, w, s, i)[k], ok |-> TRUE]]

Opened(c, w, s, at) ==
  [at |-> at, failed |-> FALSE,
   net |-> [i \in Chunks(c, w) |-> IF Pulls(c, w) \/ Pushes(c, w) THEN Connected(c, w, s, i) ELSE << >>]]

\* The next sub-manager may be called.
Turn(c, w) ==
  /\ rpc[c][w] = "run" /\ Len(op[c][w]) < Len(Subs)
  /\ op[c][w] # << >> => ~Blocking(c, w, Len(op[c][w]))

Dispatch(c, w) ==
  /\ Turn(c, w)
  /\ op' = [op EXCEPT ![c][w] = Append(@, Opened(c, w, Len(@) + 1, [i \in Chunks(c, w) |-> FirstStage(c, w)]))]
  /\ UNCHANGED <<controller, rpc, ans, mem, faults>>

\* Issuing a copy fails: the RPC is answered, and copies issued before the
\* failing one go on with nobody to continue from them.
DispatchFails(c, w) ==
  /\ Turn(c, w) /\ Fails
  /\ FirstStage(c, w) = "dev"
  /\ \E issued \in {0} \cup Chunks(c, w) :
       op' = [op EXCEPT ![c][w] = Append(@, Opened(c, w, Len(@) + 1,
                [i \in Chunks(c, w) |-> IF i <= issued THEN "loose" ELSE "done"]))]
  /\ Reply(c, w, "err")
  /\ UNCHANGED <<controller, mem>>

\* server_init_mu_ is held for the whole of an explicit pull.
PullLockFree(w, s) ==
  \A o \in Ops : o[2] = w /\ o[3] = s /\ Pulls(o[1], w) => At(o[1], w, s, o[4]) # "net"

\* A chunk's turn on its pool or queue: it is skipped once the copy has failed.
Begin(c, w, s, i) ==
  /\ At(c, w, s, i) = "queued"
  /\ IF Failed(c, w, s) THEN Set(c, w, s, i, "done")
     ELSE IF WorkerCall(c, w) \in {"D2h", "H2d"} THEN Set(c, w, s, i, "dev")
     ELSE (Pulls(c, w) => PullLockFree(w, s)) /\ Set(c, w, s, i, "net")
  /\ UNCHANGED <<controller, rpc, ans, mem, faults>>

\* The worker loop's dispatch fails: the promise carries the error.
TaskFails(c, w, s, i) ==
  /\ At(c, w, s, i) = "queued" /\ WorkerCall(c, w) \in {"D2h", "H2d"}
  /\ Fails
  /\ SetError(c, w, s, i)
  /\ UNCHANGED <<controller, rpc, ans, mem>>

\* A stream reads or writes its next payload.
Payload(c, w, s, i, k) ==
  LET left == op[c][w][s].net[i][k].left
  IN  /\ At(c, w, s, i) = "net" /\ left # << >>
      /\ op' = [op EXCEPT ![c][w][s].net[i][k].left = Tail(@)]
      /\ Copy(c, w, s, {Head(left)})
      /\ UNCHANGED <<controller, rpc, ans, faults>>

\* A stream breaks; the others run to their end.
StreamFails(c, w, s, i, k) ==
  /\ At(c, w, s, i) = "net" /\ op[c][w][s].net[i][k].left # << >>
  /\ Fails
  /\ op' = [op EXCEPT ![c][w][s].net[i][k] = [left |-> << >>, ok |-> FALSE]]
  /\ UNCHANGED <<controller, rpc, ans, mem>>

\* The calling thread sees the failure: it returns, sub-managers after this one
\* are not called.
ReplyIfBlocked(c, w, s) ==
  IF ~Pipelined(c, w) /\ rpc[c][w] = "run" /\ s = Len(op[c][w])
  THEN Reply(c, w, "err") ELSE UNCHANGED <<rpc, ans>>

\* Every stream has ended.  A pulled chunk goes on to the device unless the copy
\* has failed meanwhile.
NetEnds(c, w, s, i) ==
  LET net == op[c][w][s].net[i]
      ok  == \A k \in DOMAIN net : net[k].ok
  IN  /\ At(c, w, s, i) = "net"
      /\ \A k \in DOMAIN net : net[k].left = << >>
      /\ op' = [op EXCEPT
           ![c][w][s].at[i] = IF ok /\ WorkerCall(c, w) = "H2dRead" /\ ~Failed(c, w, s)
                              THEN "dev" ELSE "done",
           ![c][w][s].failed = @ \/ ~ok,
           ![c][w][s].net[i] = << >>]
      /\ IF ok THEN UNCHANGED <<rpc, ans>> ELSE ReplyIfBlocked(c, w, s)
      /\ UNCHANGED <<controller, mem, faults>>

\* A device copy ends: its bytes are there.  Staged data goes on to the peer.
DeviceEnds(c, w, s, i) ==
  /\ At(c, w, s, i) \in {"dev", "loose"}
  /\ Copy(c, w, s, DeviceCopies(c, w, s, i))
  /\ IF At(c, w, s, i) = "dev" /\ WorkerCall(c, w) = "D2hWrite"
     THEN Set(c, w, s, i, "queued") ELSE Set(c, w, s, i, "done")
  /\ UNCHANGED <<controller, rpc, ans, faults>>

\* A device copy fails: when it is issued, which a calling thread sees, or later.
DeviceFails(c, w, s, i) ==
  /\ At(c, w, s, i) = "dev" /\ Fails
  /\ SetError(c, w, s, i)
  /\ \/ WorkerCall(c, w) \in {"D2hWrite", "H2dRead"} /\ ReplyIfBlocked(c, w, s)
     \/ WorkerCall(c, w) # "D2hWrite" /\ UNCHANGED <<rpc, ans>>
  /\ UNCHANGED <<controller, mem>>

\* The future of sub-manager s is ready: all its chunks are complete, or
\* SetError of a pipelined copy has fulfilled the promise.
Resolved(c, w, s) ==
  \/ Pipelined(c, w) /\ Failed(c, w, s)
  \/ \A i \in Chunks(c, w) : At(c, w, s, i) = "done"

\* Every sub-manager was called and the joined future is ready.
Answer(c, w) ==
  /\ rpc[c][w] = "run" /\ Len(op[c][w]) = Len(Subs)
  /\ \A s \in DOMAIN Subs : Resolved(c, w, s)
  /\ Reply(c, w, IF \E s \in DOMAIN Subs : Failed(c, w, s) THEN "err" ELSE "ok")
  /\ UNCHANGED <<controller, op, mem, faults>>

\* The RPC breaks: the controller has an error, the worker may go on.
RpcLost(c, w) ==
  /\ rpc[c][w] \in {"sent", "run"} /\ ans[c][w] = "none" /\ call[c].st = "flying"
  /\ Fails
  /\ ans' = [ans EXCEPT ![c][w] = "err"]
  /\ \/ UNCHANGED rpc
     \/ rpc[c][w] = "sent" /\ rpc' = [rpc EXCEPT ![c][w] = "err"]
  /\ UNCHANGED <<controller, op, mem>>

-----------------------------------------------------------------------------

Progress ==
  \/ \E o \in Ops :
       \/ \E k \in DOMAIN op[o[1]][o[2]][o[3]].net[o[4]] : Payload(o[1], o[2], o[3], o[4], k)
       \/ NetEnds(o[1], o[2], o[3], o[4])
       \/ DeviceEnds(o[1], o[2], o[3], o[4])
       \/ Begin(o[1], o[2], o[3], o[4])
  \/ \E c \in Calls :
       \/ \E w \in Workers : Answer(c, w) \/ Start(c, w)
       \/ Resolve(c) \/ Release(c) \/ Transfer(c) \/ Reserve(c) \/ ReserveFails(c) \/ Skip(c)
  \/ \E w \in Workers : Register(w)
  \/ Ready
  \/ \E c \in Calls, w \in Workers : Dispatch(c, w)

Breaks ==
  \/ \E w \in Workers : RegisterFails(w)
  \/ \E c \in Calls, w \in Workers : DispatchFails(c, w) \/ RpcLost(c, w)
  \/ \E o \in Ops :
       \/ TaskFails(o[1], o[2], o[3], o[4])
       \/ \E k \in DOMAIN op[o[1]][o[2]][o[3]].net[o[4]] : StreamFails(o[1], o[2], o[3], o[4], k)
       \/ DeviceFails(o[1], o[2], o[3], o[4])

CtlNext == Progress \/ Breaks \/ Cleanup

\* Threads, pools, callbacks and RPCs run to their end.
CtlSpec == CtlInit /\ [][CtlNext]_ctlVars /\ WF_ctlVars(Progress)

-----------------------------------------------------------------------------
(* Properties *)

\* Source and destination cells of what worker w is to move for call c.
Moved(c, w) ==
  LET r   == Req(c)
      src == CASE IsRemote(r.src) -> <<"peer", r.src.ids>>
               [] r.src.mem = "hbm" -> <<"dev", r.src.ids>>
               [] OTHER -> <<"host", call[r.from].land>>
      dst == CASE IsRemote(r.dst) -> <<"peer", r.dst.ids>>
               [] r.dst.mem = "hbm" -> <<"dev", r.dst.ids>>
               [] OTHER -> <<"host", call[c].land>>
  IN  UNION {{<<<<src[1], w, a, src[2][i] + k>>, <<dst[1], w, a, dst[2][i] + k>>>> :
                a \in Layers \X Shards, k \in 0 .. CopySizes(r)[i] - 1} : i \in DOMAIN r.src.ids}

\* When TransferBuffers reports success, every layer and every shard of every block
\* is at its destination on every worker: through staging, over however many
\* sub-managers and streams, and while other calls run.  Three things are excepted
\* (see Odd): a copy from the device to a peer's worker groups, which reports success
\* and stays at the worker; and bytes that such a copy, a write of an earlier and
\* already failed call, or a peer with another split of the shards has put there.
OkMeansCopied ==
  [][\A c \in Calls : call[c].st = "flying" /\ call'[c].st = "ok" =>
       \A w \in {v \in call[c].sent : ~Misdirected(c, v)} : \A p \in Moved(c, w) :
         \/ mem[p[2]] = mem[p[1]]
         \/ mem[p[1]].odd # {} \/ mem[p[2]].odd # {}]_ctlVars

\* A worker owns one shard of every block: whatever fails, no cell ever holds
\* bytes of another worker, layer or shard ("an unmatched node_id would corrupt
\* the shards"), as long as the peer's endpoints serve the shards of the worker's
\* sub-managers.
ShardsNeverMix ==
  \A x \in DOMAIN mem : LET o == mem[x]
                       IN  "split" \in o.odd \/ (o.cell[2] = x[2] /\ o.cell[3] = x[3])

\* When the controller takes the staging blocks of a call back, the call's work is
\* over at every worker but those that have reported an error.
StagingOutlivesCopies ==
  \A c \in Calls : call[c].stg # << >> /\ held[<<c>>] = {} =>
    \A w \in call[c].sent : \/ ans[c][w] = "err"
                             \/ /\ Len(op[c][w]) = Len(Subs)
                                /\ \A o \in Ops : o[1] = c /\ o[2] = w =>
                                     At(c, w, o[3], o[4]) = "done"

\* A call that went out to every worker ends, and its staging blocks are back in
\* the pool then, however many of the workers failed.  (A call that returns early,
\* before its requests are all out, keeps its staging blocks for good.)
CallsSettle ==
  \A c \in Calls : call[c].st = "flying" ~> call[c].st = "over" /\ held[<<c>>] = {}

=============================================================================
