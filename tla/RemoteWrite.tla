---------------------------- MODULE RemoteWrite ----------------------------
(***************************************************************************)
(* A save to a peer: the source (KVCacheStore::SaveRemote and its pollers) *)
(* offers a batch of host blocks, the destination (KVCacheStoreServiceImpl)*)
(* pulls them into landing blocks and commits them to its own index.       *)
(*                                                                         *)
(* The source keeps an internal pin on the batch until it has a verdict or *)
(* its hold expires; the destination may commit only what it could claim   *)
(* before the deadline it granted.  The two timers live in different       *)
(* processes, RPCs take any time, the pull is not bounded by anything, and *)
(* an RPC can also fail at the source whether or not the destination       *)
(* served it.                                                              *)
(***************************************************************************)
EXTENDS Integers, FiniteSets

CONSTANTS Op,          \* remote saves, one batch each
          Key,         \* block hashes
          Batch,       \* the hashes each save offers
          Poller,      \* threads inside PollRemoteWritesInternal
          RpcDeadline, \* kRpcDeadline of the store client
          Hold,        \* RemoteWriteHold()
          Margin,      \* kRemoteWriteMargin
          Cap,         \* DeadlineCap()
          RecordMargin,\* kRecordMargin
          LastOffer,   \* bound: no offer is made after this time
          MaxTime,     \* bound on the clock
          None

ASSUME BatchAssumption == Batch \in [Op -> (SUBSET Key) \ {{}}]
ASSUME TimersAssumption ==
  /\ Hold \in Nat /\ Margin \in Nat /\ Hold > Margin
  /\ Cap \in Nat \ {0} /\ RecordMargin \in Nat /\ RpcDeadline \in Nat
  /\ LastOffer \in Nat /\ MaxTime \in Nat
ASSUME NoneAssumption == None \notin Op

VARIABLES
  now,        \* absl::Now(), the same rate on both hosts
  src,        \* where each save is at the source
  pin,        \* the internal pins the source holds for each save
  holdExpiry, \* RemoteWriteState.hold_expiry
  verdicts,   \* verdicts filed for each save: done or failed
  reused,     \* history: the source's blocks were given up and refilled
  request,    \* the WriteRemote RPC of each save
  reply,      \* its answer
  rpcFailed,  \* history: an RPC of the save failed at the source
  polling,    \* polling_remote_writes_, the claimed saves
  toPoll,     \* each poller's claimed saves still to ask about
  claims,     \* each poller's claims
  pollTime,   \* the time each poller read before its first poll
  answer,     \* the answer each poller has to act on: a save and a state
  dst,        \* OpState of each accepted save at the destination
  deadline,   \* WriteOp.deadline
  pull,       \* the transfer into the landing blocks
  bytes,      \* what the pull read: intact or reused source blocks
  landing,    \* the landing blocks: held, freed, or kept by the cache
  completer,  \* the save inside CompleteWriteRemote, under Lifetime.mu
  step,       \* and how far it is
  entry       \* whose blocks back each hash in the destination's index

source == <<src, pin, holdExpiry, verdicts, reused>>
rpc == <<request, reply, rpcFailed>>
pollers == <<polling, toPoll, claims, pollTime, answer>>
destination == <<dst, deadline, pull, bytes, landing, completer, step,
                 entry>>
vars == <<now, source, rpc, pollers, destination>>

Terminal == {"committed", "all_exist", "partial_exist", "failed", "unregistered"}

Stored == {"committed", "unregistered"}

Granted == IF Hold - Margin < Cap THEN Hold - Margin ELSE Cap

\* The owner of a hash the destination stored by itself.
Local == "local"

TypeOK ==
  /\ now \in Nat
  /\ src \in [Op -> {"idle", "rpc", "active", "done", "failed"}]
  /\ pin \in [Op -> Int]
  /\ holdExpiry \in [Op -> Nat]
  /\ verdicts \in [Op -> Nat]
  /\ reused \in [Op -> BOOLEAN]
  /\ request \in [Op -> {"none", "sent", "served"}]
  /\ reply \in [Op -> {"none", "accepted", "all_exist", "partial_exist", "refused"}]
  /\ rpcFailed \in [Op -> BOOLEAN]
  /\ polling \subseteq Op
  /\ toPoll \in [Poller -> SUBSET Op]
  /\ claims \in [Poller -> SUBSET Op]
  /\ pollTime \in [Poller -> Nat]
  /\ answer \in [Poller -> [op : Op \cup {None},
                            state : Terminal \cup {"none", "pending", "unknown", "error"}]]
  /\ dst \in [Op -> Terminal \cup {"none", "pending", "completing", "erased"}]
  /\ deadline \in [Op -> Nat]
  /\ pull \in [Op -> {"none", "running", "read", "resolved"}]
  /\ bytes \in [Op -> {"none", "intact", "stale"}]
  /\ landing \in [Op -> {"none", "held", "freed", "kept"}]
  /\ completer \in Op \cup {None}
  /\ step \in {"none", "recheck", "insert", "register"}
  /\ entry \in [Key -> Op \cup {None, Local}]

Init ==
  /\ now = 0
  /\ src = [o \in Op |-> "idle"]
  /\ pin = [o \in Op |-> 0]
  /\ holdExpiry = [o \in Op |-> 0]
  /\ verdicts = [o \in Op |-> 0]
  /\ reused = [o \in Op |-> FALSE]
  /\ request = [o \in Op |-> "none"]
  /\ reply = [o \in Op |-> "none"]
  /\ rpcFailed = [o \in Op |-> FALSE]
  /\ polling = {}
  /\ toPoll = [p \in Poller |-> {}]
  /\ claims = [p \in Poller |-> {}]
  /\ pollTime = [p \in Poller |-> 0]
  /\ answer = [p \in Poller |-> [op |-> None, state |-> "none"]]
  /\ dst = [o \in Op |-> "none"]
  /\ deadline = [o \in Op |-> 0]
  /\ pull = [o \in Op |-> "none"]
  /\ bytes = [o \in Op |-> "none"]
  /\ landing = [o \in Op |-> "none"]
  /\ completer = None
  /\ step = "none"
  /\ entry = [k \in Key |-> None]

-----------------------------------------------------------------------------
(* Source *)

\* SaveRemote up to the RPC: the batch is pinned, the hold is armed with the
\* pin, the offer goes out.
Offer(o) ==
  /\ src[o] = "idle"
  /\ now <= LastOffer
  /\ src' = [src EXCEPT ![o] = "rpc"]
  /\ pin' = [pin EXCEPT ![o] = @ + 1]
  /\ holdExpiry' = [holdExpiry EXCEPT ![o] = now + Hold]
  /\ request' = [request EXCEPT ![o] = "sent"]
  /\ UNCHANGED <<now, verdicts, reused, reply, rpcFailed, pollers, destination>>

\* FinishRemoteWrite: the internal pin goes, a verdict is filed.
FinishRemoteWrite(o, succeeded) ==
  /\ src' = [src EXCEPT ![o] = IF succeeded THEN "done" ELSE "failed"]
  /\ pin' = [pin EXCEPT ![o] = @ - 1]
  /\ verdicts' = [verdicts EXCEPT ![o] = @ + 1]

\* Fault: the hold armed with the pin is kept although the destination's
\* grant ends later.
AcceptedKeepsHold(o) ==
  /\ reply[o] = "accepted"
  /\ src' = [src EXCEPT ![o] = "active"]
  /\ UNCHANGED <<pin, holdExpiry, verdicts>>

\* The offer was accepted: the hold is extended to cover the granted deadline
\* counted from now.
Accepted(o) ==
  /\ reply[o] = "accepted"
  /\ src' = [src EXCEPT ![o] = "active"]
  /\ holdExpiry' = [holdExpiry EXCEPT
                      ![o] = IF @ > now + Granted THEN @ ELSE now + Granted]
  /\ UNCHANGED <<pin, verdicts>>

\* ALL_EXIST and PARTIAL_EXIST settle inside SaveRemote, a refusal rolls back.
Settled(o) ==
  /\ reply[o] \in {"all_exist", "partial_exist"}
  /\ FinishRemoteWrite(o, reply[o] = "all_exist")
  /\ UNCHANGED holdExpiry

RollBack(o) ==
  /\ src' = [src EXCEPT ![o] = "failed"]
  /\ pin' = [pin EXCEPT ![o] = @ - 1]
  /\ UNCHANGED <<holdExpiry, verdicts>>

\* SaveRemote after the RPC.
Ack(o) ==
  /\ src[o] = "rpc"
  /\ reply[o] # "none"
  /\ \/ Accepted(o)
     \/ Settled(o)
     \/ reply[o] = "refused" /\ RollBack(o)
  /\ UNCHANGED <<now, reused, rpc, pollers, destination>>

\* The RPC fails at the source (deadline, broken channel) and SaveRemote
\* rolls back, whether or not the destination accepted or will accept it.
AckLost(o) ==
  /\ src[o] = "rpc"
  /\ RollBack(o)
  /\ rpcFailed' = [rpcFailed EXCEPT ![o] = TRUE]
  /\ UNCHANGED <<now, reused, request, reply, pollers, destination>>

\* A source that holds no pin any more may evict the blocks and refill them.
Reuse(o) ==
  /\ src[o] \in {"done", "failed"}
  /\ pin[o] <= 0
  /\ ~reused[o]
  /\ reused' = [reused EXCEPT ![o] = TRUE]
  /\ UNCHANGED <<now, src, pin, holdExpiry, verdicts, rpc, pollers, destination>>

\* PollRemoteWritesInternal claims every active write nobody else is polling.
PollClaim(p) ==
  /\ claims[p] = {}
  /\ LET mine == {o \in Op : src[o] = "active"} \ polling
     IN  /\ mine # {}
         /\ polling' = polling \cup mine
         /\ claims' = [claims EXCEPT ![p] = mine]
         /\ toPoll' = [toPoll EXCEPT ![p] = mine]
  /\ pollTime' = [pollTime EXCEPT ![p] = now]
  /\ UNCHANGED <<now, source, rpc, answer, destination>>

\* The records PollWriteRemote erases before it answers.
Expired(o) ==
  /\ dst[o] \in Terminal
  /\ landing[o] \in {"freed", "kept"}
  /\ now >= deadline[o] + RecordMargin

\* ToWireState: a claimed write is still pending to the source.
WireState(o) ==
  IF dst[o] \in {"pending", "completing"} THEN "pending"
  ELSE IF dst[o] \in Terminal /\ ~Expired(o) THEN dst[o]
  ELSE "unknown"

\* PollWriteRemote at the destination, for the next write of poller p.
PollAsk(p, o) ==
  /\ o \in toPoll[p]
  /\ answer[p].op = None
  /\ dst' = [x \in Op |-> IF Expired(x) THEN "erased" ELSE dst[x]]
  /\ answer' = [answer EXCEPT ![p] = [op |-> o, state |-> WireState(o)]]
  /\ UNCHANGED <<now, source, rpc, polling, toPoll, claims, pollTime,
                 deadline, pull, bytes, landing, completer, step, entry>>

\* The poll itself fails.
PollError(p, o) ==
  /\ o \in toPoll[p]
  /\ answer[p].op = None
  /\ answer' = [answer EXCEPT ![p] = [op |-> o, state |-> "error"]]
  /\ rpcFailed' = [rpcFailed EXCEPT ![o] = TRUE]
  /\ UNCHANGED <<now, source, request, reply, polling, toPoll, claims, pollTime, destination>>

\* Fault: an expired hold is never noticed.
PendingForever(p, o) == UNCHANGED <<src, pin, verdicts>>

\* A pending write is given up once the hold has expired.
Pending(p, o) ==
  IF pollTime[p] >= holdExpiry[o] THEN FinishRemoteWrite(o, FALSE)
  ELSE UNCHANGED <<src, pin, verdicts>>

\* What the poller does with the answer.
PollApply(p, o) ==
  /\ answer[p].op = o
  /\ IF answer[p].state = "pending" THEN Pending(p, o)
     ELSE FinishRemoteWrite(o, answer[p].state \in {"committed", "all_exist"})
  /\ answer' = [answer EXCEPT ![p] = [op |-> None, state |-> "none"]]
  /\ toPoll' = [toPoll EXCEPT ![p] = @ \ {o}]
  /\ UNCHANGED <<now, holdExpiry, reused, rpc, polling, claims, pollTime, destination>>

\* release_claims, when every claimed write has been asked about.
PollRelease(p) ==
  /\ claims[p] # {}
  /\ toPoll[p] = {}
  /\ polling' = polling \ claims[p]
  /\ claims' = [claims EXCEPT ![p] = {}]
  /\ UNCHANGED <<now, source, rpc, toPoll, pollTime, answer, destination>>

-----------------------------------------------------------------------------
(* Destination *)

\* AlreadyPresentHostResident, eviction candidates included.
Present(o) == {k \in Batch[o] : entry[k] # None}

\* WriteRemote: an offer of which anything is here already is only answered.
Exists(o) ==
  /\ Present(o) # {}
  /\ reply' = [reply EXCEPT ![o] = IF Present(o) = Batch[o] THEN "all_exist"
                                                             ELSE "partial_exist"]
  /\ UNCHANGED destination

\* No landing blocks.
Refused(o) ==
  /\ Present(o) = {}
  /\ reply' = [reply EXCEPT ![o] = "refused"]
  /\ UNCHANGED destination

\* Landing blocks are allocated, the deadline set, the pull issued.
Accept(o) ==
  /\ Present(o) = {}
  /\ reply' = [reply EXCEPT ![o] = "accepted"]
  /\ dst' = [dst EXCEPT ![o] = "pending"]
  /\ deadline' = [deadline EXCEPT ![o] = now + Granted]
  /\ pull' = [pull EXCEPT ![o] = "running"]
  /\ landing' = [landing EXCEPT ![o] = "held"]
  /\ UNCHANGED <<bytes, completer, step, entry>>

Serve(o) ==
  /\ request[o] = "sent"
  /\ request' = [request EXCEPT ![o] = "served"]
  /\ Exists(o) \/ Refused(o) \/ Accept(o)
  /\ UNCHANGED <<now, source, rpcFailed, pollers>>

\* The pull reads the source's blocks, whatever is in them by then.
PullReads(o) ==
  /\ pull[o] = "running"
  /\ pull' = [pull EXCEPT ![o] = "read"]
  /\ bytes' = [bytes EXCEPT ![o] = IF reused[o] THEN "stale" ELSE "intact"]
  /\ UNCHANGED <<now, source, rpc, pollers, dst, deadline, landing,
                 completer, step, entry>>

\* Fault: the claim trusts the deadline thread and does not look at the clock.
ClaimAnyTime(o, ok) == ok /\ dst[o] = "pending"

\* The claim of CompleteWriteRemote, under write_mutex_.
Claimable(o, ok) == ok /\ dst[o] = "pending" /\ now < deadline[o]

\* The landing blocks go back to the pool.
ReleaseLandingBlocks(o) == [landing EXCEPT ![o] = "freed"]

\* The transfer resolves and CompleteWriteRemote tries to claim the write.
\* Without a claim the verdict is failed (unless the deadline thread said so
\* first) and the landing blocks are freed: only now, when no byte can land.
TransferComplete(o, ok) ==
  /\ completer = None
  /\ pull[o] = "read" \/ (pull[o] = "running" /\ ~ok)
  /\ pull' = [pull EXCEPT ![o] = "resolved"]
  /\ IF Claimable(o, ok)
     THEN /\ dst' = [dst EXCEPT ![o] = "completing"]
          /\ completer' = o
          /\ step' = "recheck"
          /\ UNCHANGED landing
     ELSE /\ dst' = [dst EXCEPT ![o] = IF @ = "pending" THEN "failed" ELSE @]
          /\ landing' = ReleaseLandingBlocks(o)
          /\ UNCHANGED <<completer, step>>
  /\ UNCHANGED <<now, source, rpc, pollers, deadline, bytes, entry>>

\* The end of a claimed write: the cache keeps the landing blocks or they are
\* released.
Finish(o, state) ==
  /\ dst' = [dst EXCEPT ![o] = state]
  /\ landing' = IF state \in Stored THEN [landing EXCEPT ![o] = "kept"]
                                    ELSE ReleaseLandingBlocks(o)
  /\ completer' = None
  /\ step' = "none"
  /\ UNCHANGED <<deadline, pull, bytes, entry>>

\* The hashes are looked up again; some may have arrived another way.
Recheck(o) ==
  /\ completer = o /\ step = "recheck"
  /\ \/ Present(o) = Batch[o] /\ Finish(o, "all_exist")
     \/ Present(o) \notin {{}, Batch[o]} /\ Finish(o, "partial_exist")
     \/ /\ Present(o) = {}
        /\ step' = "insert"
        /\ UNCHANGED <<dst, deadline, pull, bytes, landing, completer, entry>>
  /\ UNCHANGED <<now, source, rpc, pollers>>

\* InsertAllOrNothing: the whole batch, if none of it is indexed and there is
\* room; there may be no room at any time.
Insert(o) ==
  /\ completer = o /\ step = "insert"
  /\ \/ Finish(o, "failed")
     \/ /\ Present(o) = {}
        /\ entry' = [k \in Key |-> IF k \in Batch[o] THEN o ELSE entry[k]]
        /\ step' = "register"
        /\ UNCHANGED <<dst, deadline, pull, bytes, landing, completer>>
  /\ UNCHANGED <<now, source, rpc, pollers>>

\* RegisterBlocksSync: the blocks stay whether or not the registry took them.
Register(o) ==
  /\ completer = o /\ step = "register"
  /\ Finish(o, "committed") \/ Finish(o, "unregistered")
  /\ UNCHANGED <<now, source, rpc, pollers>>

\* DeadlineLoop only decides the verdict; the landing blocks stay held.
DeadlineFires(o) ==
  /\ dst[o] = "pending"
  /\ now >= deadline[o]
  /\ dst' = [dst EXCEPT ![o] = "failed"]
  /\ UNCHANGED <<now, source, rpc, pollers, deadline, pull, bytes, landing,
                 completer, step, entry>>

\* The destination's own traffic stores and evicts hashes at any time.
LocalStore(k) ==
  /\ entry[k] = None
  /\ entry' = [entry EXCEPT ![k] = Local]
  /\ UNCHANGED <<now, source, rpc, pollers, dst, deadline, pull, bytes, landing,
                 completer, step>>

LocalEvict(k) ==
  /\ entry[k] # None
  /\ entry' = [entry EXCEPT ![k] = None]
  /\ UNCHANGED <<now, source, rpc, pollers, dst, deadline, pull, bytes, landing,
                 completer, step>>

\* A WriteRemote RPC is over at the source when its deadline passes.
Tick ==
  /\ now < MaxTime
  /\ \A o \in Op : src[o] = "rpc" => now - (holdExpiry[o] - Hold) < RpcDeadline
  /\ now' = now + 1
  /\ UNCHANGED <<source, rpc, pollers, destination>>

SourceNext(o) == Offer(o) \/ Ack(o) \/ AckLost(o) \/ Reuse(o)

PollerNext(p) ==
  \/ PollClaim(p)
  \/ \E o \in Op : PollAsk(p, o) \/ PollError(p, o) \/ PollApply(p, o)
  \/ PollRelease(p)

DestinationNext(o) ==
  \/ Serve(o)
  \/ PullReads(o)
  \/ \E ok \in BOOLEAN : TransferComplete(o, ok)
  \/ Recheck(o) \/ Insert(o) \/ Register(o)
  \/ DeadlineFires(o)

Next ==
  \/ \E o \in Op : SourceNext(o) \/ DestinationNext(o)
  \/ \E p \in Poller : PollerNext(p)
  \/ \E k \in Key : LocalStore(k) \/ LocalEvict(k)
  \/ Tick

Spec == Init /\ [][Next]_vars

\* Time passes, an RPC is answered or fails, and the poller thread keeps
\* polling.  Nothing is assumed of the pull or of the registry call, which
\* have no timeout in the code.
Fairness ==
  /\ WF_vars(Tick)
  /\ \A o \in Op : WF_vars(Serve(o)) /\ WF_vars(Ack(o))
  /\ \A p \in Poller : WF_vars(PollerNext(p))

FairSpec == Spec /\ Fairness

-----------------------------------------------------------------------------
(* Properties *)

CommitIntact(o) == dst[o] \in Stored \cup {"completing"} => bytes[o] = "intact"

\* What the destination commits of a save whose RPCs are all answered was read
\* while the source still held its pin: the hold, re-armed with the answer, and
\* the deadline the destination grants are enough, whatever the delays.
CommittedBytesIntact == \A o \in Op : ~rpcFailed[o] => CommitIntact(o)

\* The hold of a write being polled covers the deadline the destination
\* granted, whatever the delay of the request and of its answer.
HoldCoversDeadline ==
  \A o \in Op : src[o] = "active" /\ dst[o] \in {"pending", "completing"} =>
                  holdExpiry[o] >= deadline[o]

\* However many threads poll, a write is finished once: its internal pin is
\* dropped once and one verdict is filed (kv_cache_store.cc:2020-2024).
FinishedOnce ==
  \A o \in Op :
    /\ pin[o] = IF src[o] \in {"rpc", "active"} THEN 1 ELSE 0
    /\ verdicts[o] <= 1

\* Landing blocks go back to the pool only when no byte can land in them any
\* more, and exactly when the cache did not keep them.
LandingFreedOnlyWhenQuiet ==
  \A o \in Op :
    /\ landing[o] \in {"freed", "kept"} => pull[o] = "resolved"
    /\ dst[o] \in Stored => landing[o] = "kept"

\* A hash the destination holds is never rebound to other blocks, which would
\* orphan the ones it had ("no Put can rebind an existing hash in place and
\* orphan its old host block", host_offload_backend.cc:900-901): neither a
\* second write of the same hash nor a local store between the re-check and
\* the insert gets in between.
NeverRebound ==
  [][\A k \in Key : entry[k] # None => entry'[k] \in {entry[k], None}]_vars

\* "SaveRemote's HOLD deadline guarantees each block eventually leaves
\* pending" (kv_cache_store.cc:1708-1709): every offered save gets settled at
\* the source although neither the pull nor the registry call has a bound.
SavesSettle ==
  \A o \in Op : src[o] \in {"rpc", "active"} ~> src[o] \in {"done", "failed"}
=============================================================================
