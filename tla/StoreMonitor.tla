---------------------------- MODULE StoreMonitor ----------------------------
(***************************************************************************)
(* The monitor thread of a store (StoreMonitor::Loop): it keeps the        *)
(* store's registration at the global registry alive and, between          *)
(* heartbeats, runs the evict sweep (KVCacheStore::SweepOnce) step by step *)
(* against the host blocks the application and its readers use.  The       *)
(* registry's side of it is the record it keeps for the store.             *)
(*                                                                         *)
(* Pins are counted as the index counts them, one number per entry.  Who   *)
(* holds them is kept beside it for the application alone, so that the     *)
(* pins of the sweep are what is left.                                     *)
(*                                                                         *)
(* Time passes in ticks.  The thread's own computation and the calls to    *)
(* the registry take none; waiting for a period takes until it is over,    *)
(* the calls and transfers of a sweep step together at most StepMax.       *)
(***************************************************************************)
EXTENDS Integers, FiniteSets

CONSTANTS
  Block,        \* host blocks
  Period,       \* heartbeat_period
  SweepPeriod,  \* sweep_period
  TtlBeats,     \* kRegistrationTtlInHeartbeats
  StepMax,      \* longest time one sweep step waits for its targets
  Low, High,    \* watermarks, in free blocks
  MaxEvict,     \* kMaxEvictBatchBlocks
  MaxTargets,   \* kMaxPlacementTargets
  MaxAllocs     \* bound on the allocations of the application

ASSUME MonitorAssumption ==
  /\ IsFiniteSet(Block)
  /\ {Period, SweepPeriod, TtlBeats, MaxEvict} \subseteq Nat \ {0}
  /\ {StepMax, Low, High, MaxTargets, MaxAllocs} \subseteq Nat
  /\ Low <= High /\ High <= Cardinality(Block)

VARIABLES
  life,       \* "up", "stopping" in the destructor, "left" or "lost" afterwards
  pc,         \* where the thread is
  beatIn,     \* time until next_heartbeat
  late,       \* time since next_heartbeat
  sweepIn,    \* time until next_sweep
  requested,  \* sweep_requested_
  sweepNow,   \* sweep_now
  stepLeft,   \* how long the step may still take
  active,     \* sweep_active_
  targets,    \* how many of placement_targets_ are left
  batch,      \* the blocks of the step
  whole,      \* their entries are all still in the index
  verdict,    \* sweep_remote_writes_: "none", or how the offer ended
  has,        \* the blocks of the batch its target has then
  used,       \* blocks an entry has
  pins,       \* the pin count of each entry
  read,       \* the blocks pinned by the application
  saves,      \* those it is saving to a peer of its own choice
  ttl,        \* the registry's record: time to its expiry, 0 when expired or gone
  misses,     \* history: heartbeats that failed since the record was last stamped
  wiped,      \* history: the registry lost the record in a restart
  allocs      \* allocations made

app == <<read, saves>>
timers == <<beatIn, late, sweepIn, stepLeft>>
flags == <<requested, sweepNow>>
episode == <<active, targets, batch, whole>>
offer == <<verdict, has>>
blocks == <<used, pins, app>>
record == <<ttl, misses, wiped>>
mvars == <<life, pc, timers, flags, episode, offer, blocks, record, allocs>>

Ttl == TtlBeats * Period

MonitorTypeOK ==
  /\ life \in {"up", "stopping", "left", "lost"}
  /\ pc \in {"wait", "beat", "reregister", "sweep", "offer", "save", "call", "declined",
            "await", "evict", "returned"}
  /\ beatIn \in 0 .. Period /\ late \in Nat /\ sweepIn \in 0 .. SweepPeriod /\ stepLeft \in 0 .. StepMax
  /\ requested \in BOOLEAN /\ sweepNow \in BOOLEAN /\ active \in BOOLEAN /\ whole \in BOOLEAN
  /\ targets \in 0 .. MaxTargets
  /\ batch \subseteq Block /\ verdict \in {"none", "done", "failed"} /\ has \subseteq batch
  /\ used \subseteq Block /\ pins \in [Block -> Nat] /\ read \subseteq used /\ saves \subseteq read
  /\ ttl \in 0 .. Ttl /\ misses \in 0 .. TtlBeats /\ wiped \in BOOLEAN
  /\ allocs \in 0 .. MaxAllocs

\* The store has registered and starts its monitor.
MonitorInit ==
  /\ life = "up" /\ pc = "wait"
  /\ beatIn = Period /\ late = 0 /\ sweepIn = SweepPeriod /\ stepLeft = 0
  /\ requested = FALSE /\ sweepNow = FALSE
  /\ active = FALSE /\ targets = 0 /\ batch = {} /\ whole = TRUE
  /\ verdict = "none" /\ has = {}
  /\ used = {} /\ pins = [b \in Block |-> 0] /\ read = {} /\ saves = {}
  /\ ttl = Ttl /\ misses = 0 /\ wiped = FALSE
  /\ allocs = 0

Free == Block \ used
Evictable == {b \in used : pins[b] = 0}
Less(n) == IF n > 0 THEN n - 1 ELSE 0
Least(m, n) == IF m < n THEN m ELSE n

\* LRUCache::Pin and Unpin of the entries of B; Unpin stops at zero.
Pinned(B) == [b \in Block |-> IF b \in B THEN pins[b] + 1 ELSE pins[b]]
Unpinned(count, B) == [b \in Block |-> IF b \in B THEN Less(count[b]) ELSE count[b]]

-----------------------------------------------------------------------------
(* The loop *)

\* A reason not to wait.
Awake == life # "up" \/ requested \/ sweepNow \/ beatIn = 0 \/ sweepIn = 0

MonitorTick ==
  /\ (pc = "wait" /\ ~ Awake) \/ (pc \in {"call", "await"} /\ stepLeft > 0)
  /\ beatIn' = Less(beatIn) /\ late' = (IF beatIn = 0 THEN late + 1 ELSE 0)
  /\ sweepIn' = Less(sweepIn)
  /\ stepLeft' = Less(stepLeft)
  /\ ttl' = Less(ttl)
  /\ UNCHANGED <<life, pc, flags, episode, offer, blocks, misses, wiped, allocs>>

\* The thread leaves the wait: it returns, or takes the sweep request with it.
Wake ==
  /\ pc = "wait" /\ Awake
  /\ IF life # "up"
     THEN pc' = "returned" /\ UNCHANGED flags
     ELSE pc' = "beat" /\ sweepNow' = (sweepNow \/ requested) /\ requested' = FALSE
  /\ UNCHANGED <<life, timers, episode, offer, blocks, record, allocs>>

NextBeat == beatIn' = Period /\ late' = 0 /\ UNCHANGED <<sweepIn, stepLeft>>

Stamp == ttl' = Ttl /\ misses' = 0 /\ wiped' = FALSE
Miss == misses' = Least(misses + 1, TtlBeats) /\ UNCHANGED <<ttl, wiped>>

\* No heartbeat is due.
SkipBeat ==
  /\ pc = "beat" /\ beatIn > 0
  /\ pc' = "sweep"
  /\ UNCHANGED <<life, timers, flags, episode, offer, blocks, record, allocs>>

\* Fault: the status is reported and the record's expiry left alone.
HeartbeatUnstamped ==
  /\ pc = "beat" /\ beatIn = 0
  /\ IF ttl > 0
     THEN pc' = "sweep" /\ UNCHANGED record /\ NextBeat
     ELSE pc' = "reregister" /\ UNCHANGED <<record, timers>>
  /\ UNCHANGED <<life, flags, episode, offer, blocks, allocs>>

\* Heartbeat answered: the record is stamped, or it is gone and the store has to
\* register anew; an expired one is not revived.
Heartbeat ==
  /\ pc = "beat" /\ beatIn = 0
  /\ IF ttl > 0
     THEN pc' = "sweep" /\ Stamp /\ NextBeat
     ELSE pc' = "reregister" /\ UNCHANGED <<record, timers>>
  /\ UNCHANGED <<life, flags, episode, offer, blocks, allocs>>

\* The call failed; it is tried again in the next period.
HeartbeatFails ==
  /\ pc = "beat" /\ beatIn = 0
  /\ pc' = "sweep" /\ Miss /\ NextBeat
  /\ UNCHANGED <<life, flags, episode, offer, blocks, allocs>>

\* Fault: a lapsed registration is only logged.
ReregisterNever ==
  /\ pc = "reregister"
  /\ pc' = "sweep" /\ Miss /\ NextBeat
  /\ UNCHANGED <<life, flags, episode, offer, blocks, allocs>>

Reregister ==
  /\ pc = "reregister"
  /\ pc' = "sweep" /\ Stamp /\ NextBeat
  /\ UNCHANGED <<life, flags, episode, offer, blocks, allocs>>

ReregisterFails ==
  /\ pc = "reregister"
  /\ pc' = "sweep" /\ Miss /\ NextBeat
  /\ UNCHANGED <<life, flags, episode, offer, blocks, allocs>>

-----------------------------------------------------------------------------
(* The sweep *)

\* SweepOnce returns `more` and the loop goes on.
Return(more) ==
  /\ pc' = "wait" /\ sweepNow' = more /\ sweepIn' = SweepPeriod /\ stepLeft' = 0
  /\ batch' = {} /\ whole' = TRUE /\ verdict' = "none" /\ has' = {}
  /\ UNCHANGED <<requested, beatIn, late>>

EndEpisode == active' = FALSE /\ targets' = 0 /\ Return(FALSE)

\* The sweep is not due.
SkipSweep ==
  /\ pc = "sweep" /\ ~ sweepNow /\ sweepIn > 0
  /\ pc' = "wait"
  /\ UNCHANGED <<life, timers, flags, episode, offer, blocks, record, allocs>>

\* A step that finds nothing to do: no pressure, pressure over, or every block
\* pinned.
SweepIdle ==
  /\ pc = "sweep" /\ (sweepNow \/ sweepIn = 0)
  /\ \/ Cardinality(Free) >= IF active THEN High ELSE Low
     \/ Evictable = {}
  /\ EndEpisode
  /\ UNCHANGED <<life, blocks, record, allocs>>

\* A step picks its batch; the first one of an episode asks the registry for
\* targets, and does without when there is no answer.
SweepPick ==
  /\ pc = "sweep" /\ (sweepNow \/ sweepIn = 0)
  /\ Cardinality(Free) < IF active THEN High ELSE Low
  /\ active' = TRUE
  /\ targets' \in IF active THEN {targets} ELSE 0 .. MaxTargets
  /\ batch' \in {B \in SUBSET Evictable \ {{}} :
       Cardinality(B) = Least(Least(High - Cardinality(Free), MaxEvict), Cardinality(Evictable))}
  /\ pc' = "offer" /\ stepLeft' = StepMax
  /\ UNCHANGED <<life, beatIn, late, sweepIn, flags, whole, offer, blocks, record, allocs>>

\* Without a target the batch is dropped, but for what was pinned or evicted since.
DropBatch ==
  /\ pc = "offer" /\ targets = 0
  /\ used' = used \ (batch \cap Evictable)
  /\ IF batch \cap Evictable = {} THEN EndEpisode ELSE Return(TRUE) /\ UNCHANGED <<active, targets>>
  /\ UNCHANGED <<life, pins, app, record, allocs>>

\* An entry of the batch is gone: Pin takes back what it pinned and refuses.
PinFails ==
  /\ pc = "offer" /\ targets > 0 /\ ~ whole
  /\ EndEpisode
  /\ UNCHANGED <<life, blocks, record, allocs>>

\* The sweep pins the batch: it is the caller of the save.
PinBatch ==
  /\ pc = "offer" /\ targets > 0 /\ whole
  /\ pins' = Pinned(batch)
  /\ pc' = "save"
  /\ UNCHANGED <<life, timers, flags, episode, offer, used, app, record, allocs>>

\* SaveRemote marks the blocks, is refused if one is being saved already, and adds a
\* pin of its own.
SaveRemote ==
  /\ pc = "save"
  /\ IF batch \cap saves # {}
     THEN pc' = "declined" /\ UNCHANGED pins
     ELSE pc' = "call" /\ pins' = Pinned(batch)
  /\ UNCHANGED <<life, timers, flags, episode, offer, used, app, record, allocs>>

\* The target declines the batch, or is not there: SaveRemote takes back its own pin.
OfferDeclined ==
  /\ pc = "call"
  /\ pins' = Unpinned(pins, batch)
  /\ pc' = "declined"
  /\ UNCHANGED <<life, timers, flags, episode, offer, used, app, record, allocs>>

\* The sweep drops its pin and the target.
DropTarget ==
  /\ pc = "declined"
  /\ pins' = Unpinned(pins, batch)
  /\ targets' = targets - 1
  /\ pc' = "offer"
  /\ UNCHANGED <<life, timers, flags, active, batch, whole, offer, used, app, record, allocs>>

\* The target accepts; the thread waits for the verdict.
OfferAccepted ==
  /\ pc = "call"
  /\ pc' = "await"
  /\ UNCHANGED <<life, timers, flags, episode, offer, blocks, record, allocs>>

\* FinishRemoteWrite, from the answer of the target or from a poll: the peer has the
\* blocks of E.  The save's own pin is dropped; the sweep's with it only if the save
\* succeeded.
FinishRemoteWrite(E) ==
  /\ pc \in {"call", "await"} /\ verdict = "none" /\ E \subseteq batch
  /\ pins' = IF E = batch THEN Unpinned(Unpinned(pins, batch), batch) ELSE Unpinned(pins, batch)
  /\ verdict' = IF E = batch THEN "done" ELSE "failed"
  /\ has' = E
  /\ pc' = "await"
  /\ UNCHANGED <<life, timers, flags, episode, used, app, record, allocs>>

\* Fault: what the peer already had is unpinned both as failed and as existing.
ReleaseExistingTwice ==
  /\ pc = "await" /\ verdict # "none"
  /\ pins' = IF verdict = "failed" THEN Unpinned(Unpinned(pins, batch), has) ELSE pins
  /\ pc' = "evict"
  /\ UNCHANGED <<life, timers, flags, episode, offer, used, app, record, allocs>>

\* WaitForBatchWriteResult drains the verdict, and the sweep drops the pins that a
\* failed save left it.
ReleaseStillPinned ==
  /\ pc = "await" /\ verdict # "none"
  /\ pins' = IF verdict = "failed" THEN Unpinned(pins, batch) ELSE pins
  /\ pc' = "evict"
  /\ UNCHANGED <<life, timers, flags, episode, offer, used, app, record, allocs>>

\* What the peer has and nobody pinned meanwhile is evicted.
EvictFreeable ==
  LET evicted == has \cap Evictable
  IN  /\ pc = "evict"
      /\ used' = used \ evicted
      /\ \/ verdict = "failed" /\ targets' = targets - 1 /\ Return(TRUE) /\ UNCHANGED active
         \/ verdict = "done" /\ evicted = {} /\ EndEpisode
         \/ verdict = "done" /\ evicted # {} /\ Return(TRUE) /\ UNCHANGED <<active, targets>>
      /\ UNCHANGED <<life, pins, app, record, allocs>>

-----------------------------------------------------------------------------
(* The rest of the store and the registry *)

\* AllocateBlockIds of one block, which the caller keeps pinned: a free one, or
\* an evictable one with its entry dropped.  Below the low watermark it wakes
\* the sweep.
Allocate(b) ==
  /\ life = "up" /\ allocs < MaxAllocs
  /\ b \in IF Free # {} THEN Free ELSE Evictable
  /\ used' = used \cup {b} /\ read' = read \cup {b} /\ pins' = [pins EXCEPT ![b] = 1]
  /\ batch' = batch \ {b} /\ has' = has \ {b} /\ whole' = (whole /\ b \notin batch)
  /\ requested' = (requested \/ Cardinality(Free) - 1 < Low)
  /\ allocs' = allocs + 1
  /\ UNCHANGED <<life, pc, timers, sweepNow, active, targets, verdict, saves, record>>

Pin(b) ==
  /\ b \in used \ read
  /\ read' = read \cup {b} /\ pins' = Pinned({b})
  /\ UNCHANGED <<life, pc, timers, flags, episode, offer, used, saves, record, allocs>>

Unpin(b) ==
  /\ b \in read \ saves
  /\ read' = read \ {b} /\ pins' = Unpinned(pins, {b})
  /\ UNCHANGED <<life, pc, timers, flags, episode, offer, used, saves, record, allocs>>

\* The blocks whose save for the sweep is under way, in saving_hashes_.
Marked == IF pc \in {"call", "await"} /\ verdict = "none" THEN batch ELSE {}

\* The application saves a block it has pinned.
AppSave(b) ==
  /\ b \in read \ (saves \cup Marked)
  /\ saves' = saves \cup {b} /\ pins' = Pinned({b})
  /\ UNCHANGED <<life, pc, timers, flags, episode, offer, used, read, record, allocs>>

\* FinishRemoteWrite of its save, which consumes its pin if it succeeded.
AppSaved(b, ok) ==
  /\ b \in saves
  /\ saves' = saves \ {b}
  /\ IF ok THEN read' = read \ {b} /\ pins' = Unpinned(Unpinned(pins, {b}), {b})
           ELSE UNCHANGED read /\ pins' = Unpinned(pins, {b})
  /\ UNCHANGED <<life, pc, timers, flags, episode, offer, used, record, allocs>>

\* The destructor stops the monitor and joins its thread.
Stop ==
  /\ life = "up"
  /\ life' = "stopping"
  /\ UNCHANGED <<pc, timers, flags, episode, offer, blocks, record, allocs>>

\* Then it leaves the registry, if the call gets through.
UnregisterStore(ok) ==
  /\ life = "stopping" /\ pc = "returned"
  /\ life' = IF ok THEN "left" ELSE "lost"
  /\ ttl' = IF ok THEN 0 ELSE ttl
  /\ UNCHANGED <<pc, timers, flags, episode, offer, blocks, misses, wiped, allocs>>

\* The registry comes back empty.
RegistryRestart ==
  /\ ttl > 0
  /\ ttl' = 0 /\ wiped' = TRUE
  /\ UNCHANGED <<life, pc, timers, flags, episode, offer, blocks, misses, allocs>>

-----------------------------------------------------------------------------
Loop ==
  \/ Wake \/ SkipBeat \/ Heartbeat \/ HeartbeatFails \/ Reregister \/ ReregisterFails
  \/ SkipSweep \/ SweepIdle \/ SweepPick \/ DropBatch \/ PinFails \/ PinBatch \/ SaveRemote
  \/ DropTarget \/ ReleaseStillPinned \/ EvictFreeable

\* What the target of an offer answers, and how the save ends.
Answer == OfferDeclined \/ OfferAccepted \/ \E E \in SUBSET Block : FinishRemoteWrite(E)

MonitorNext ==
  \/ MonitorTick \/ Loop \/ Answer
  \/ \E b \in Block : Allocate(b) \/ Pin(b) \/ Unpin(b) \/ AppSave(b)
  \/ \E b \in Block, ok \in BOOLEAN : AppSaved(b, ok)
  \/ Stop \/ (\E ok \in BOOLEAN : UnregisterStore(ok)) \/ RegistryRestart

\* Time passes, the thread runs, the answers of a step come in by its deadline,
\* and a registry that is called again and again answers at last.
MonitorFairness ==
  /\ WF_mvars(MonitorTick) /\ WF_mvars(Loop)
  /\ WF_mvars(stepLeft = 0 /\ Answer)
  /\ SF_mvars(Heartbeat) /\ SF_mvars(Reregister)

MonitorSpec == MonitorInit /\ [][MonitorNext]_mvars
MonitorFairSpec == MonitorSpec /\ MonitorFairness

-----------------------------------------------------------------------------
(* Properties *)

\* A heartbeat is delayed by at most one sweep step, however long the sweep has to
\* go on (store_monitor.h:46); so the record of a running store expires only after
\* so many failed heartbeats in a row that even the latest possible one of each
\* period would be past the expiry.
LapseNeedsMisses ==
  life = "up" =>
    /\ late <= StepMax
    /\ ttl = 0 /\ ~ wiped => (misses + 1) * (Period + StepMax) >= Ttl

\* The pins the application and its saves hold on a block.
AppPins(b) == (IF b \in read THEN 1 ELSE 0) + (IF b \in saves THEN 1 ELSE 0)

\* The sweep takes no pin away from a reader, and between steps it has none left, in
\* whichever way its offers ended: declined, done, failed, or failed for blocks the
\* peer already had.  Otherwise a block is evicted under a reader, or never again.
SweepPinsReturned ==
  /\ \A b \in Block : pins[b] >= AppPins(b)
  /\ pc \in {"wait", "beat", "reregister", "sweep", "returned"} => \A b \in Block : pins[b] = AppPins(b)

\* A store the registry has lost, by a restart or an expiry, is listed again.
StoreComesBack == ttl = 0 ~> (ttl > 0 \/ life # "up")

=============================================================================
