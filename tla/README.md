# A verification project for TPU Sync (Raiden)

TLA+ models of the KV-cache store and its peers, the transfer engine, the
reshard and weight-synchronisation planes and the registries that connect them,
checked with TLC on small instances and, where the provers reach, proved with
TLAPS for every value of the constants. Everything is translated from the source under
`src/tpu_sync/`; `PROJECT.json` gives the lines of each definition.

Contents: [the system](#the-system), [modules](#the-modules-and-the-code),
[runs and bounds](#the-runs), [fairness](#fairness), [proofs](#what-is-proved),
[what does not hold](#what-does-not-hold), [what is left out](#what-is-not-modelled).

## The system

TPU Sync keeps the key-value caches of inference servers in host memory, moves
them between hosts, reshards them between servers of different shape, and pushes
new weights from trainers to servers. The parts, with the state they keep:

| Part | State | Operations that change it |
| --- | --- | --- |
| `LogicalBlockManager` (`kv_cache/logical_block_manager.cc`) | per host block: allocated, locked, last access | Allocate, AllocateTarget, Unlock, Deallocate, Access |
| `LRUCache` (`kv_cache/lru_cache.h`) | map of hashes over three lists: active, pinned, candidates | Put, PutBack, Get, Pin, Unpin, Evict, Erase |
| `HostOffloadBackend`, `KVCacheStore` (`kv_cache/`) | index, in-flight sets of saves, loads and reads, pending futures | Lookup, Insert, Release, Save, Load, ReadRemote, SaveRemote, Evict, Poll; Create and the destructor |
| Store service (`kv_cache_store_service.cc`) | incoming writes with deadline and landing blocks | WriteRemote, PollWriteRemote, Fetch, completion, deadline |
| Controller and workers (`core/controller/`) | worker registry, leases, read states | registration, TransferBuffers, Cleanup; Acquire, Renew, Release, sweep, settle |
| `KVCacheManagerBase`, block transport | host mirror, active plans, push progress, streams | D2H, H2D, pushes and pulls of block lists |
| `KVCacheManagerWithTransfer` | send and receive entries, staging slots | NotifyForRead, StartRead, push, upload, completion, poll; pool reshard |
| Metadata table, shared-memory allocator | two shared-memory segments with headers | Set, Clear, attach, format, recover |
| Global registry (`kv_cache/global_registry/`) | map of hashes to owners, index by owner, store records, transfer specs | Register, Lookup, Unregister, PullOwned, RegisterStore, Heartbeat, specs, cleanup |
| `StoreMonitor` and the evict sweep | deadlines of the loop, the pressure episode | heartbeat, re-registration, SweepOnce, Stop |
| Reshard control plane (`kv_cache/reshard/`) | request-block rows, claims, votes, tombstones, directory | Register, Release, Complete, Cancel, LookupAndClaim, AbandonClaim, arm, dispatch |
| Weight synchroniser (`weight_sync/`, `rpc/raiden_controller.py`, raw buffer transport) | registrations, cached schedules, active transfers; per worker host buffers, counts, device layers | start_transfer, arm, D2H, push, count, H2D, restart |

An application asks the store to look up, insert, save and load blocks named by
prefix hashes. The store pins entries of the index while it uses them, takes
host blocks from the block manager, and has the controller move bytes between
devices and host memory. When the pool runs low, the monitor's sweep offers
blocks to peers found through the registry (a remote write) and evicts them. A
peer that misses a block reads it from the store that registered it, under a
lease. A prefill server hands blocks to a decode server either by a push read or,
between servers of different shape, by a pool reshard, which the reshard
coordinator plans, claims and dispatches. A trainer's weights reach the servers
through the weight synchroniser, resharded on the way.

What makes this hard, and where the hazards of `PROJECT.json` come from:

* Operations release their mutex between steps: allocation counts, evicts and
  allocates in three critical sections; a save allocates, transfers and inserts
  in three more. Another thread acts in between.
* Ownership of a host block and of a pin passes between threads, callbacks and
  hosts, with a different rule on each failure path.
* Timers in two processes decide who may reuse memory that a transfer without
  any bound of its own may still read or write.
* An RPC may fail at the caller although the callee acted on it.
* A process dies between two stores to shared memory and another one recovers.
* Callbacks, polls and deadlines compete to finish the same transfer.
* Derived data (index by owner, votes, turns) is kept by hand in each call.
* A receiver knows that a transfer is complete only by counting streams or
  batches against a number that a planner elsewhere predicted.

## The modules and the code

Each module models the control of its part, guards, early returns, error paths
and the order of the steps, but for what [the last section](#what-is-not-modelled)
names. Data is abstracted to what the
properties tell apart: a block's content is the hash whose bytes it holds, a
message is who sent it and what it says; where bytes are what it is about
(resharding, weights), a byte's content is the place it came from. What runs
under one mutex is one action; where the code drops a mutex the operation is
several actions of the same actor. Definitions whose comment begins with *Fault*
are the mutated definitions, used to show that a property can fail; no
specification uses them.

### The store

**LogicalBlockManager**. The table of host blocks and the access counter, with
the clients that hold locked ids. Clients follow the contract of the callers in
the repository: they unlock and deallocate what they hold. `AllocateTarget` and
the order of eviction by last access are as in the code, with the counter
bounded by `MaxAccess`. The proofs are about its own `Next`; `ControllerTransfer`
uses its operators, and the `controller` run checks `LockOwnership` there.

**LRUCache** and **PinnedCache**. `LRUCache` has the three lists and all
mutating calls of `lru_cache.h`. `PinnedCache` is the abstract promise: an entry
is absent, active or a candidate, a pinned entry is active, a demotion takes
some unpinned entry. `LRUCache` implements it through the mapping
`AbstractCache`, and `KVCacheStore` is written over the promise, so its results
hold for every recency order.

**KVCacheStore**. The store over its backend and pool for any number of
concurrent actors. An actor is one call in progress: lookup, insert, release,
save (local and write-through), load, remote read, lease, fetch, remote write
as source and as destination, evict. An abandoned transfer leaves its blocks in
`stray`: it may write them at any later time and any number of times
(`StrayLand`), and a block it wrote holds `Foreign`. `holders` is history: who
holds each pin.

**StoreLifecycle**. `KVCacheStore::Create` with every step that can fail and
what it undoes, the destructor in its order, the host store node and the
sidecars, and the registry's tables of stores and transfer specs, for several
incarnations that may carry one id. `busy` is the code of other threads inside
an incarnation, `open` what still lets such code in, `alive` what it may touch.

**StoreMonitor**. The loop of the monitor thread with heartbeat,
re-registration and sweep steps, the store's record at the registry, the
application's allocations, pins and saves, and the destructor. A sweep step goes
through its saves as `SaveRemote` and `FinishRemoteWrite` do: the sweep pins as
the caller, the save pins once more, and who drops which pin depends on how the
save ends. Pins are one number per entry, as in the index. Calls to the registry
take no time; those to the peers of a sweep step take up to `StepMax` together.

**BlockDirectory**. `Register`, `Lookup`, `Unregister`, the batched `PullOwned`
stream and the cleanup thread. Time is abstracted: an entry may expire at any
moment.

**CrashRecovery**. The metadata table store by store (`todo` holds the stores
left in the current critical section), the headers of both segments, the start
of the process with attach or format of each, the writes of peers that are
served before the table is read back, `RecoverFromLocalManifest`, `Reformat`
beside whatever is being stored, and a crash at any point. `early` and `served`
record what such writes overwrote, `lost` what a format took from the table.

### Between stores

**RemoteWrite**. The protocol between the source (`SaveRemote`, the pollers)
and the destination (`WriteRemote`, the completion under `Lifetime.mu`, the
deadline thread), with two independent timers, requests and answers of any
delay, failures at the source whether or not the request was served, and a pull
that reads its bytes at any time.

**ReadLease**. Source: acquire, record, renew, release, sweep, restart, with
the unpin after the mutex is left; the time to live a destination asks for is
clamped as the source clamps it. Destination: the chain of callbacks of
`ReadRemote`, the deadline thread, teardown. Nothing is assumed of the order of
the times: `CheckTimingTripleOnce` only logs. The reads of the model share one
hash, so that an unpin too many takes away somebody else's pin; the run has a
single read, the theorems any number.

**ReadPlan** and **PushRead**. `ReadPlan` has the three hops of a block of a
push read (device to slot, slot to slot, slot to device) with the order and the
cuts each hop makes. `PushRead` has `NotifyForRead`, `StartRead`, the control
connection, `StartPushInternal`, `SendNextLayer`, `OnLayerReceived`,
`OnBlocksReceived` and `CompleteReadRaw` on both sides with their staging slots,
and the push streams between them. A thread looks its entry up under the lock
and starts the copy or the streams after it, in two actions: the entry may be
gone in between and its slot lent to the next read. `exposed` records which
reads had their slot lent to another one while a transfer used it, or was about
to. A read has at least as many
blocks as streams (`BlocksAssumption`).

**TransferRouting** and **ControllerTransfer**. `TransferRouting` computes who
moves which block where: the pairing with the peer's worker groups, the operation
a worker picks, the NUMA sub-manager that serves a shard, the runs and streams a
list of ids is cut into. `ControllerTransfer` runs it: registration and
re-registration of the workers, `TransferBuffers` with validation, automatic
staging, broadcast and callbacks, the worker's RPC, copies pipelined block by
block on pools, `Cleanup`. Memory is one function of cells; a content is the cell
it started in and the odd ways it was brought here: by a write that nobody waited
for, by a push that stayed at the worker, or from a peer that splits its shards
otherwise. Workers are numbered in the order of `CompareWorkerIds`; staging is the
controller's own (callers that bring theirs are not modelled); `JoinFutures` is
external.

### Resharding and weights

**ReshardRegistry**. `RequestBlockRegistry` with its rows, claims, votes and
tombstones, `ExecutePoolReshard` as a sequence of attempts (claim and plan, arm
the receiver, dispatch the senders in parallel, join), work-unit registration,
worker restarts, and the sends and receives under way. Times are remaining
ticks. Every call purges what has expired before it reads it, so purging at the
tick of expiry is the same, which the header of the module argues. An RPC may
take any time; a generation one of whose RPCs outlasts `RpcMax`
(`kWorkerRpcTimeout`, 60 s, `reshard_coordinator.cc:52`), or whose claim is
released by force, is `exposed`, and the properties are about the others. Three
assumptions about the callers are explicit in the actions:

* a unit votes after its own send is over, or when it registered no blocks;
* a unit whose part in a generation is over does not report blocks for that
  generation again;
* a send or receive is over within `TransferMax` (`timeout_s`, 120 s); the time to
  live (600 s, `reshard_service.h:45`) exceeds `2 * RpcMax + TransferMax`, which is
  the module's assumption.

**PoolLayout**, **PoolPlanner**, **PoolReshard**. The geometry of pools, the plan
(clipping, page splits, re-basing between layouts, pairs, coverage, push counts)
and its execution: arming, staging in the host mirror, streams, the receiver's
counts, uploads in the order of the ranks, polls with their deadlines, teardown
of plans on both sides. The mirror starts `Blank` and the device `Old`, so that what
an upload puts over the device's bytes is seen. A sender or receiver whose plan
is gone takes the whole blocks in address order, as the code does; `guessed`
records where that happened. Assumed: an abandoned control call is handled before its
caller gives up, or never; a uuid is not dispatched twice; storages of a worker
are laid end to end; sizes stay far from the 64-bit limits the code checks.

**NdSlices**, **Tiling**, **SyncPlanner**, **WeightSync**. Slice intersection and
strided chunks, the tiled device layouts, the schedule with its counts and its
expansion into push tasks, and a transfer end to end: planning (with the cache),
arming, D2H, pushes in batches over several connections, counting by layer,
automatic H2D, broadcast trees, two controllers, restarts of destinations,
broken connections and failing device copies in both directions. The next
version may be requested as soon as the last one has been answered: its uploads,
and after a failure its pushes, may still run. `crossed` records the layers where
two versions met, `uncopied` those whose copy failed. Assumed: control commands
go to the current endpoint, data to the cached addresses; the planner's tile is
the device's. Which pooled connection a push borrows is left open.

The plan of a scenario is computed once: `Plans` is a constant of `WeightSync` and
of `PoolReshard`, and the assumption `PlansAssumption` says that it is the table
the planner's operators define, which TLC evaluates at the start of each run.

## The runs

One run for each question asked of the system; all of them pass.

| Run | Instance | Shows |
| --- | --- | --- |
| `lru_cache` | 3 keys, capacity 2, 2 pins, 6 calls | `ReclaimOrder`, the order in which entries become reclaimable, and `RefinesPromise`, the refinement of `PinnedCache` (capacity, pins and demotions included). |
| `kv_store` | 2 actors, 2 hashes, 2 blocks, capacity 1 | `BlockOwnership`: no block is in two places. `HostBytesIntact`: an entry's block has its bytes, and a running load or offer reads the right ones, except after a stray write. |
| `remote_write` | 1 save, 2 pollers, timers 2/4/1/3/1, clock to 7 | `CommittedBytesIntact`: what is committed was read under the source's pin (if no RPC failed). `HoldCoversDeadline`. `SavesSettle`: every save gets its verdict. |
| `read_lease` | 1 read, TTL 1 raised to 2, deadline 3, retention 4, clock to 11 | `PinAccounting`: every lease is unpinned once. `CommittedReadIntact`: a committed read has the source's bytes, unless the deadline thread gave the lease back. `PinsComeBack`. |
| `crash_recovery` | 2 hashes, 2 blocks, 2 crashes, three ways to restart | `BoundBytesIntact`: recovered bindings have their bytes, in the right layout, unless a write came before the recovery. `CleanCrashLosesNothing`. |
| `push_read` | 2 reads of 3 pairs, 1 layer, 2 streams, 1 slot on either side | `DoneIntact`: a read reported done has every wanted block, unless its slot was lent under it or an upload failed. `PollSeesEveryUpload`: no upload is missed by the poll that reports it. `NoReadForgotten`. |
| `global_registry` | 2 owners, 2 hashes, batches of 1; nine deployments of 2 incarnations, 1 fault | `IndexDerived`, `PullComplete`: the directory. `ListedServes`: a listed address has a server, unless a call failed. `NothingOutlivesItsStore`: no code runs in freed objects. `GroupAgrees`: one transfer spec per group. |
| `store_monitor` | 2 blocks, 3 allocations, TTL of 3 periods | `LapseNeedsMisses`: a record lapses only after failed heartbeats. `SweepPinsReturned`: the sweep returns its own pins and no others. `StoreComesBack`: a lost registration is made again. |
| `reshard_registry` | 2 units, 1 generation, 2 attempts, TTL 4, RPC 1 or longer, transfer 1, 1 restart | `SourceBlocksHeld`: blocks given back to a producer are not being pushed and will not be, unless an RPC outlasted its budget. |
| `pool_reshard` | six requests, framed and controller mode, 1 fault | `DoneIntact`, `NothingMisplaced`: the declared bytes arrive, at their places and nowhere else, unless one side has dropped its plan. `SentMeansReceived`, `ReportedOnce`, `TransfersSettle`, `CleanTransfersComplete`. |
| `weight_sync` | twenty-four deployments | `CompletedMeansLanded`, `DeviceNeverTorn`, `CountsDrain` (what a receiver counts is what the planner predicted), `DeviceCatchesUp`, `RequestsSettle`. |
| `controller` | twelve scenarios of 1 or 2 workers, 1 failure | `OkMeansCopied`: success means every shard of every block arrived, with three exceptions. `ShardsNeverMix`, `StagingOutlivesCopies`, `LockOwnership`, `CallsSettle`. |

Why the bounds are enough to be interesting. Two actors suffice for each race
between two critical sections, and a capacity of one with two hashes makes
every insert meet a full index. One staging slot and two reads make every early
release hand the slot to the other read. In the remote write the timers are
small but keep the order of the real ones (RPC deadline < cap < hold), and the
clock runs past every one of them. In `read_lease` the clock reaches the
retention of a lease granted last. In `reshard_registry` the time to live is
the smallest the assumption allows, so claims, votes and tombstones expire at
the first moment they may, and two attempts suffice for every owner check; its
constraint `SomeCovered` stops at states in which every generation is exposed,
of which the property says nothing and after which it never does again. In
`store_monitor` two blocks make a batch of one and a batch of two, and two targets
a second offer after a declined one. The scenarios of `pool_reshard`, `weight_sync`
and `controller` are picked by hand so that the cases of the planners occur: spans
that are clipped, split or repeated, padding that
differs on the two sides, tiles with a remainder, packed and nested tiles, trees,
fewer pairs than streams, workers in another order than their node ids, peers with
another split of the shards; they do not exhaust the planners' inputs, but each is
run through all interleavings. In `global_registry` the two halves share no
state, so each is explored from the initial state of the other; one call at a time
runs inside the stores (`MaxBusy`), while the theorems are about any number.
`push_read` has one layer, so the pipelining of layers is exercised only by its
streams. A bound is a named constant, a conjunct of a guard or the size of a set.

`CHECK_DEADLOCK FALSE` is set where the model stops by design: at a bound on
calls or time, or when all requests are finished.

## Fairness

Only these specifications state fairness, and each conjunct stands for a thread
of the code that keeps running:

* `RemoteWrite`: time passes, the peer serves and answers requests it received
  (or the RPC fails at its deadline), and the poller thread polls
  (`kv_cache_store.cc`, the poller loop). Neither the pull nor the registry call
  is fair: `SavesSettle` must come from the hold.
* `ReadLease`: time passes, the source's sweeper runs, an unpin decided is made,
  a handler that has pinned goes on to record the lease, and the deadline thread
  wakes, releases and settles. Messages and the pull are not fair.
* `StoreMonitor`: time passes, the loop runs, a step's wait ends at its timeout,
  and a heartbeat that is sent again and again succeeds at some point (strong
  fairness, needed for `StoreComesBack`: with a registry that never answers no
  code could bring the store back).
* `WeightSync`, `PoolReshard`, `ControllerTransfer`: weak fairness of all steps of
  threads, pools, callbacks, RPCs and polls together. Faults, restarts and
  deadlines have none: they may happen, and need not.

## What is proved

TLAPS checks these for any constants that satisfy the named assumptions.

**LogicalBlockManagerProofs**: `TypeCorrect`, `LockOwnershipHolds`,
`EvictionIsLastResortHolds`. The invariant is `TypeOK` with `LockOwnership`; the
latter is inductive because allocation takes only blocks that are free or
unlocked and clients give back only what they hold. Eviction as a last resort
is an action property of `Allocate`.

**The store** (`KVCacheStoreInv`, `KVCacheStoreProofs`, `KVCacheStoreBytesProofs`):
`BlockOwnershipHolds`, `PinsHaveHolders`, `HostBytesIntactHolds`, for any finite set
of actors, any hashes and blocks, any capacity and batch size, and any number of
stray writes. `KVCacheStoreInv` has the
inductive invariants, in layers; all of them were checked with TLC on the
instance of `kv_store` first. Each layer is inductive given the ones before it:

1. *Blocks* (`IInv`). An operation owns host blocks only between its allocation
   and the step that gives them to the index or back, and only for the hashes of
   its batch. With it `BlockOwnership` is inductive: a step that starts, ends or
   fails an operation cannot drop or free a block of somebody else.
2. *Pins* (`PinInv`). A pin count is the number of holders; a pinned entry is
   active; an operation that will spend its caller's pins has them on its whole
   batch, and the internal pins are those of the offers, leases and pushes that
   run. So no release is clamped at zero and none takes somebody else's pin.
3. *Marks and bindings* (`MarkInv`, `BindInv`). The marks in `saving_hashes_` keep
   the batches of two saves apart. So under a save the entry has no host block
   yet, and while a load or an offer reads a pinned batch, the block ids it took
   are still the ones of the index: eviction and insertion leave pinned entries
   alone, and no other save can bind them.
4. *Bytes* (`ByteInv`). A save or a write that ended well has the bytes of its
   hashes in the blocks it owns; a bound block has the bytes of its hash. By the
   first layer nobody else writes a block that is owned or bound, so the index
   takes over right bytes and they stay right.

Leases and pushes to a peer take the block ids before they pin, so layer 3 says
nothing of what they read (see below).

**RemoteWriteProofs**: `TypeCorrect`,
`FinishedOnceHolds`, `LandingHolds`, `NeverReboundHolds`, and for saves whose RPCs
are answered `HoldCoversDeadlineHolds` and `CommittedBytesIntactHolds`. The
invariant comes in layers: what each side knows of the other, disjoint claims of
the pollers, one completer under the mutex, and then the argument on the timers:
the hold was armed or re-armed no earlier than the destination computed its
deadline, so as long as the destination may still commit, the source holds its
pin.

**ReshardRegistryProofs**: `TypeCorrect`, `SourceBlocksHeldTheorem`,
`ClaimCoversPushesTheorem`, `OneAttemptPushesTheorem`,
`VotesOutliveClaimTheorem`, `RowsFreshTheorem`. The properties are not inductive
alone. `IInv` (checked with TLC before it was proved) adds the deadlines: while
an attempt is arming, its claim has more than its RPC's remaining time, another
RPC and a transfer left; while it dispatches, more than the RPC's remainder and
a transfer; under a send, more than the send's remainder. So a claim cannot
expire under a push, and only its owner, who never abandons once it dispatches,
or the last vote could remove it; the votes are of units whose part is over, so
the last vote comes after the last push. A tombstone excludes claims and rows.
An RPC that runs past its budget takes its generation out of all this.

**GlobalRegistryProofs**: `IndexDerivedHolds`, `PullCompleteHolds` for the directory,
for any stores, hashes and batch sizes; `ListedServesHolds`,
`NothingOutlivesItsStoreHolds`, `GroupAgreesHolds` for the stores that come and go,
for any number of incarnations and concurrent calls. The directory's invariant
adds that what an open stream must still send is in its snapshot. The invariant of
the lifecycle says, by how far a store has come up or gone down, which of its
parts are open and which calls may be inside; that a registered store that is not
excused serves; that a record names its owner; and that a member's spec is its
group's.

**ReadLeaseProofs**: `PinAccountingHolds`, `CommittedReadIntactHolds`, for any finite
set of reads and any times, in whatever order they are. The invariant says what
the parties of a read know of each other: a block is not reused under its lease,
and whoever released the lease left a trace, so a verdict HELD without the deadline
thread comes from a lease that was live when the pull had ended.

**StoreMonitorProofs**: `SweepPinsReturnedHolds`, `LapseNeedsMissesHolds`, for any
blocks, periods, watermarks and batch sizes. The invariant counts, by where the
thread is, how many pins the step has on its batch, and bounds the age of the
record by the heartbeats missed since its stamp.

Left to TLC: the liveness properties (fairness and ENABLED are out of the
prover's reach); the refinement of `PinnedCache` and `ReclaimOrder` (what the
folds over the three lists compute needs induction over sequences); everything
that rests on the planners, whose loops are recursive definitions
(`pool_reshard`, `weight_sync`, `push_read`, `controller`); and the properties of
`CrashRecovery`, for which no inductive invariant is written.

## What does not hold

Places where the code disagrees with a comment or a document beside it. The
properties are stated so that they hold with them:

* Re-inserting a hash that sits on the candidate list overwrites its value and
  with it the only reference to its host block (`host_offload_backend.cc:432`),
  against the comment at line 428, which counts on `GetEvictableKeys` to find the
  block there. The block is then in none of the places of `BlockOwnership`.
* The destination's deadline thread releases the lease before it settles the
  read; the source reuses the block, the pull ends with torn bytes, and its own
  Release is answered HELD (`controller_service.cc:316`), which
  `controller_service.proto:53` calls safe to commit. `CommittedReadIntact`
  exempts reads whose lease the deadline thread gave back.
* The two shared-memory segments validate their headers separately. After a
  restart with another number of host blocks the data segment is made anew and
  the table still attaches, so hashes are bound to blocks that hold nothing
  (`host_memory_allocator.cc:315`), against `kv_cache/README.md:129`, "any
  mismatch reformats to a clean cold start". `ConfigAssumption` excludes such
  restarts.
* `ClearReadRemoteHooks` must be called before the store is destroyed
  (`controller_service.h:140`), and only tests call it. With a process-wide
  controller server the hooks outlive the store; `NothingOutlivesItsStore` is about
  stores with a server of their own.
* A host store node is listed before its workers have registered, although its
  header says that it registers exactly when it can serve
  (`kv_cache_host_store_node.h`).
* With a remote controller the receivers are armed without layer counts and with
  the largest total of all destinations, so unequal totals never complete and
  automatic H2D waits forever, against "Automatically execute H2D ingestion upon
  data arrival" (`api/jax/weight_synchronizer.py:45`). Remote and tree scenarios
  have `auto` off.

More behaviours a reader of the code should know of. They limit what the
properties claim, and most are listed as hazards:

* `ValidateAndPinHostBlocks` and `Fetch` read block ids and pin in two calls; an
  eviction in between leaves them with ids of other hashes
  (`kv_cache_store.cc:1265`, `kv_cache_store_service.cc:285`).
* A store serves its peers' writes before it has recovered
  (`kv_cache_store_wrapper.cc:172`). Such a write may be granted a block that a
  valid slot names: recovery is then refused if the write is still under way, and
  if it was given up, the hash is bound to the bytes it left. `BoundBytesIntact`
  and `CleanCrashLosesNothing` exempt what such writes touched.
* Staging blocks of a remote read go back to the pool when its deadline fires,
  while the pull may still write them (`kv_cache_store.cc:2288`,
  `raiden_controller.cc:1003`). `HostBytesIntact` exempts such blocks.
* A remote write whose RPC failed at the source, but was served, is committed by
  the peer although the source no longer protects the bytes
  (`kv_cache_store.cc:1925`, `2060`). `CommittedBytesIntact` is about saves whose
  RPCs were answered.
* In the push path a receive slot may be released twice when a dispatch is
  refused while the deadline ends the read
  (`kv_cache_manager_with_transfer.cc:2840`), and a send slot is released by the
  deadline while a copy, a stream or a thread that has found the entry still uses
  it. `DoneIntact` exempts exposed reads; no property says that a slot is released
  once. A read one of whose uploads failed may be reported done as well.
* A registration with a time to live of exactly three periods is gone when the
  heartbeat after two missed ones arrives (`kv_cache_store.cc:67`).
* `UnregisterStore` and heartbeats go by id: the destructor of an old incarnation
  removes the record of a new one, which only a monitor heals, and a heartbeat of
  one keeps the other's record alive (`global_registry_server.cc:395`).
* No reshard RPC is bounded as a whole: the framed transport applies its timeout to
  each connect, send and receive (`framed_rpc.cc:117`), and calls over the
  controller's channels have no deadline (`worker_service_client.cc:80`, awaited at
  `reshard_coordinator.cc:407`). An attempt whose RPC outlasts the claim pushes
  blocks the producer may reuse; `SourceBlocksHeld` exempts its generation.
* A reshard claim keeps the snapshot of rows it was made from. A worker that
  restarts after the claim may be asked to push ids of its previous process,
  although its registration invalidates its rows (`reshard_service.cc:344`). A vote
  survives the invalidation of its unit as well.
* A failed block resolves the future of a whole pipelined copy while its other
  blocks are still being written, and the callback returns their staging blocks
  (`kv_cache_manager_base.cc:161`, `raiden_controller.cc:774`). `OkMeansCopied`
  excuses contents written by work nobody waited for, and `StagingOutlivesCopies`
  workers that reported an error.
* A call from the local HBM to the DRAM of a peer given by worker groups reports
  success, and the bytes stay in host blocks of the worker itself
  (`worker_service_impl.cc:268`). `OkMeansCopied` excuses it.
* A worker whose peer splits its shards among other sub-managers takes the first
  endpoint that serves one of its shards, or the first of all, and mixes shards.
  `ShardsNeverMix` is about equal splits.
* A TransferBuffers call that returns early, after some requests are out, keeps its
  staging blocks for good (`raiden_controller.cc:713`). `CallsSettle` is about calls
  that were sent to every worker.
* A pool reshard whose plan was dropped on one side goes on with whole blocks in
  address order; `DoneIntact` and `NothingMisplaced` exempt the bytes so written. An
  upload writes the tail of the last block too, with what the mirror holds
  ("partial-page destination preservation is not implemented",
  `kv_cache_manager_with_transfer.cc:938`).
* Nothing fences the versions of the weights apart: the pushes a failed transfer
  left behind may overwrite the next version, and one pushed before the uploads of
  the last are over tears the layer on the device
  (`raw_buffer_transport.cc:342`). `CompletedMeansLanded`, `DeviceNeverTorn` and
  `DeviceCatchesUp` exempt the layers where two versions met.
* A count that arrives after a plan was forgotten creates its progress anew, and
  nothing removes it (`kv_cache_manager_base.cc:2307`).
* Two requests with one id that pass the check for an active transfer together
  both run; a second controller joins the second to the first, and the second's
  counts never drain (`raiden_controller.py:1853`). `CountsDrain` exempts it.

## What is not modelled

`PROJECT.json` lists every part with its reason. In short: bindings, telemetry
and benchmarks convert or count; sockets, PJRT and libtpu are system or library
calls, which the models represent by steps that end in any order or fail;
argument checks of handlers only refuse. Inside the modelled parts: stores with
several backends, the ranking of placement targets, the choice of a task by a
transport's worker threads and their reconnects, the pull direction of the raw
buffer transport, permuted tiled layouts, reuse of a reshard's uuid after a
timeout, 64-bit overflow in the planners, the buffers a controller provisions at
its workers, what a pull of a coarser peer leaves on its pooled connection,
endpoints that serve fewer shards than the sub-manager asks for or pushes to a
peer split otherwise (both sides then wait), and the destruction of a controller
with a staged call in flight (its callback holds a bare pointer,
`raiden_controller.cc:774`).

## Running it

    tlc -workers 2 -config MCReshardRegistry.cfg MCReshardRegistry
    tlapm ReshardRegistryProofs.tla

Each run takes at most about two minutes with two workers; a proof module at most
about six minutes.
