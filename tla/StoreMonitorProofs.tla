------------------------- MODULE StoreMonitorProofs -------------------------
(***************************************************************************)
(* Proofs about the monitor of a store, for any number of host blocks, any *)
(* periods, watermarks and batch sizes: the sweep gives back exactly the   *)
(* pins it took, and a step never keeps the heartbeat waiting for longer   *)
(* than one step takes, so that a registration lapses only by failed       *)
(* heartbeats.                                                             *)
(***************************************************************************)
EXTENDS StoreMonitor, TLAPS

\* How often the running step has each block of its batch pinned: once for itself,
\* and once more while SaveRemote has it.
Share ==
  IF pc \in {"save", "declined"} \/ (pc = "await" /\ verdict = "failed") THEN 1
  ELSE IF pc = "call" \/ (pc = "await" /\ verdict = "none") THEN 2
  ELSE 0

\* The count of each entry is what the application and the step hold together.
PinInv ==
  /\ pins \in [Block -> Nat]
  /\ \A b \in Block : pins[b] = AppPins(b) + (IF b \in batch THEN Share ELSE 0)

\* A step has a verdict only while it deals with it, and a target while it offers.
Stage ==
  /\ pc \notin {"await", "evict"} => verdict = "none" /\ has = {}
  /\ pc \in {"save", "call", "declined", "await", "evict"} => targets > 0

\* The longest time that m failed heartbeats in a row may take.
Budget(m) == m * (Period + StepMax)

\* The heartbeat is late by no more than what the running step has used up, and the
\* record is no older than the heartbeats that failed since its stamp allow.
TimeInv ==
  /\ late <= StepMax
  /\ beatIn > 0 => late = 0
  /\ pc = "sweep" => late = 0
  /\ pc \in {"offer", "save", "call", "declined", "await", "evict"} => late + stepLeft <= StepMax
  /\ ttl > 0 /\ ~ wiped /\ misses < TtlBeats => Ttl - ttl <= Budget(misses) + (Period - beatIn) + late
  /\ ttl = 0 /\ ~ wiped /\ life \in {"up", "stopping"} => Budget(misses + 1) >= Ttl

\* The counters and the rest of the types.
Numbers ==
  /\ beatIn \in 0 .. Period /\ late \in Nat /\ sweepIn \in 0 .. SweepPeriod
  /\ stepLeft \in 0 .. StepMax /\ targets \in 0 .. MaxTargets
  /\ ttl \in 0 .. Ttl /\ misses \in 0 .. TtlBeats /\ allocs \in 0 .. MaxAllocs

Places ==
  /\ life \in {"up", "stopping", "left", "lost"}
  /\ pc \in {"wait", "beat", "reregister", "sweep", "offer", "save", "call", "declined",
            "await", "evict", "returned"}
  /\ requested \in BOOLEAN /\ sweepNow \in BOOLEAN /\ active \in BOOLEAN /\ whole \in BOOLEAN
  /\ batch \subseteq Block /\ verdict \in {"none", "done", "failed"} /\ has \subseteq batch
  /\ used \subseteq Block /\ read \subseteq used /\ saves \subseteq read
  /\ wiped \in BOOLEAN

IInv == Numbers /\ Places /\ Stage /\ PinInv /\ TimeInv

-----------------------------------------------------------------------------
(* Constants *)

LEMMA Consts == /\ Period \in Nat /\ SweepPeriod \in Nat /\ TtlBeats \in Nat
                /\ Period > 0 /\ SweepPeriod > 0 /\ TtlBeats > 0
                /\ StepMax \in Nat /\ MaxTargets \in Nat /\ MaxAllocs \in Nat /\ Ttl \in Nat
<1>1. /\ Period \in Nat \ {0} /\ SweepPeriod \in Nat \ {0} /\ TtlBeats \in Nat \ {0}
      /\ StepMax \in Nat /\ MaxTargets \in Nat /\ MaxAllocs \in Nat
  BY Zenon, MonitorAssumption
<1> QED BY <1>1 DEF Ttl

LEMMA Budgets == /\ \A m \in Nat : /\ Budget(m) \in Nat
                                   /\ Budget(m + 1) = Budget(m) + Period + StepMax
                 /\ Budget(0) = 0 /\ Budget(TtlBeats) >= Ttl
<1>1. \A m \in Nat : Budget(m) \in Nat /\ Budget(m + 1) = Budget(m) + Period + StepMax
  BY Consts DEF Budget
<1>2. Budget(0) = 0
  BY Consts DEF Budget
<1>3. Budget(TtlBeats) = TtlBeats * Period + TtlBeats * StepMax
  BY Consts DEF Budget
<1>4. TtlBeats * StepMax >= 0 /\ TtlBeats * Period \in Nat /\ TtlBeats * StepMax \in Nat
  BY Consts
<1> QED BY <1>1, <1>2, <1>3, <1>4 DEF Ttl

LEMMA InitHolds == MonitorInit => IInv
<1> SUFFICES ASSUME MonitorInit PROVE IInv
  OBVIOUS
<1>1. Numbers
  BY Consts DEF MonitorInit, Numbers
<1>2. Places /\ Stage
  BY Zenon DEF MonitorInit, Places, Stage
<1>3. TimeInv
  BY Consts, Budgets DEF MonitorInit, TimeInv
<1>4. PinInv
  BY DEF MonitorInit, PinInv, AppPins, Share
<1> QED BY Zenon, <1>1, <1>2, <1>3, <1>4 DEF IInv

LEMMA ShareType == Share \in Nat
BY DEF Share

\* An entry that can be evicted is pinned by nobody.
LEMMA EvictableIsUnused ==
  ASSUME PinInv, Places PROVE Evictable \cap read = {} /\ Evictable \cap saves = {}
<1>1. \A b \in Evictable : AppPins(b) = 0
  <2> SUFFICES ASSUME NEW b \in Evictable PROVE AppPins(b) = 0
    OBVIOUS
  <2>1. b \in Block /\ pins[b] = 0
    BY Zenon DEF Evictable, Places
  <2> QED BY <2>1, ShareType DEF PinInv, AppPins
<1> QED BY <1>1 DEF AppPins

-----------------------------------------------------------------------------
(* What a step may do to the pins *)

\* It leaves them alone, and its share of the batch.
LEMMA PinFrame ==
  ASSUME PinInv, pins' = pins, read' = read, saves' = saves,
         (Share' = Share /\ batch' = batch) \/ (Share = 0 /\ Share' = 0)
  PROVE  PinInv'
BY DEF PinInv, AppPins

\* It pins the batch once.
LEMMA PinUp ==
  ASSUME PinInv, pins' = Pinned(batch), read' = read, saves' = saves, batch' = batch,
         (Share = 0 /\ Share' = 1) \/ (Share = 1 /\ Share' = 2)
  PROVE  PinInv'
BY DEF PinInv, AppPins, Pinned

\* It unpins the batch once.
LEMMA PinDown ==
  ASSUME PinInv, pins' = Unpinned(pins, batch), read' = read, saves' = saves, batch' = batch,
         (Share = 1 /\ Share' = 0) \/ (Share = 2 /\ Share' = 1)
  PROVE  PinInv'
BY DEF PinInv, AppPins, Unpinned, Less

\* It unpins the batch twice.
LEMMA PinDownTwice ==
  ASSUME PinInv, pins' = Unpinned(Unpinned(pins, batch), batch), read' = read, saves' = saves,
         batch' = batch, Share = 2, Share' = 0
  PROVE  PinInv'
BY DEF PinInv, AppPins, Unpinned, Less

-----------------------------------------------------------------------------
(* Steps *)

\* Every step keeps the counters in range.
LEMMA NumbersStep == ASSUME Numbers, Stage, MonitorNext PROVE Numbers'
<1>1. CASE MonitorTick
  BY Consts, <1>1 DEF MonitorTick, Less, Awake, Numbers, Stage, timers, flags, episode, offer,
     app, blocks, record
<1>2. CASE Wake
  BY Zenon, Consts, <1>2 DEF Wake, Awake, Numbers, Stage, timers, flags, episode, offer, app,
     blocks, record
<1>3. CASE SkipBeat
  BY Zenon, Consts, <1>3 DEF SkipBeat, Numbers, Stage, timers, flags, episode, offer, app,
     blocks, record
<1>4. CASE Heartbeat
  BY Consts, <1>4 DEF Heartbeat, Stamp, NextBeat, Numbers, Stage, timers, flags, episode, offer,
     app, blocks, record
<1>5. CASE HeartbeatFails
  BY Consts, <1>5 DEF HeartbeatFails, Miss, Least, NextBeat, Numbers, Stage, timers, flags,
     episode, offer, app, blocks, record
<1>6. CASE Reregister
  BY Consts, <1>6 DEF Reregister, Stamp, NextBeat, Numbers, Stage, timers, flags, episode,
     offer, app, blocks, record
<1>7. CASE ReregisterFails
  BY Consts, <1>7 DEF ReregisterFails, Miss, Least, NextBeat, Numbers, Stage, timers, flags,
     episode, offer, app, blocks, record
<1>8. CASE SkipSweep
  BY Zenon, Consts, <1>8 DEF SkipSweep, Numbers, Stage, timers, flags, episode, offer, app,
     blocks, record
<1>9. CASE SweepIdle
  BY Consts, <1>9 DEF SweepIdle, EndEpisode, Return, Numbers, Stage, timers, flags, episode,
     offer, app, blocks, record
<1>10. CASE SweepPick
  BY Consts, <1>10 DEF SweepPick, Evictable, Numbers, Stage, timers, flags, episode, offer, app,
     blocks, record
<1>11. CASE DropBatch
  BY Consts, <1>11 DEF DropBatch, EndEpisode, Return, Numbers, Stage, timers, flags, episode,
     offer, app, blocks, record
<1>12. CASE PinFails
  BY Consts, <1>12 DEF PinFails, EndEpisode, Return, Numbers, Stage, timers, flags, episode,
     offer, app, blocks, record
<1>13. CASE PinBatch
  BY Zenon, Consts, <1>13 DEF PinBatch, Numbers, Stage, timers, flags, episode, offer, app,
     blocks, record
<1>14. CASE SaveRemote
  BY Zenon, Consts, <1>14 DEF SaveRemote, Numbers, Stage, timers, flags, episode, offer, app,
     blocks, record
<1>15. CASE DropTarget
  BY Consts, <1>15 DEF DropTarget, Numbers, Stage, timers, flags, episode, offer, app, blocks,
     record
<1>16. CASE ReleaseStillPinned
  BY Zenon, Consts, <1>16 DEF ReleaseStillPinned, Numbers, Stage, timers, flags, episode, offer,
     app, blocks, record
<1>17. CASE EvictFreeable
  BY Consts, <1>17 DEF EvictFreeable, EndEpisode, Return, Numbers, Stage, timers, flags,
     episode, offer, app, blocks, record
<1>18. CASE OfferDeclined
  BY Zenon, Consts, <1>18 DEF OfferDeclined, Numbers, Stage, timers, flags, episode, offer, app,
     blocks, record
<1>19. CASE OfferAccepted
  BY Zenon, Consts, <1>19 DEF OfferAccepted, Numbers, Stage, timers, flags, episode, offer, app,
     blocks, record
<1>20. ASSUME NEW E \in SUBSET Block, FinishRemoteWrite(E) PROVE Numbers'
  BY Zenon, Consts, <1>20 DEF FinishRemoteWrite, Numbers, Stage, timers, flags, episode, offer,
     app, blocks, record
<1>21. ASSUME NEW b \in Block, Allocate(b) PROVE Numbers'
  BY Consts, <1>21 DEF Allocate, Numbers, Stage, timers, flags, episode, offer, app, blocks,
     record
<1>22. ASSUME NEW b \in Block, Pin(b) PROVE Numbers'
  BY Zenon, Consts, <1>22 DEF Pin, Numbers, Stage, timers, flags, episode, offer, app, blocks,
     record
<1>23. ASSUME NEW b \in Block, Unpin(b) PROVE Numbers'
  BY Zenon, Consts, <1>23 DEF Unpin, Numbers, Stage, timers, flags, episode, offer, app, blocks,
     record
<1>24. ASSUME NEW b \in Block, AppSave(b) PROVE Numbers'
  BY Zenon, Consts, <1>24 DEF AppSave, Numbers, Stage, timers, flags, episode, offer, app,
     blocks, record
<1>25. ASSUME NEW b \in Block, NEW ok \in BOOLEAN, AppSaved(b, ok) PROVE Numbers'
  BY Zenon, Consts, <1>25 DEF AppSaved, Numbers, Stage, timers, flags, episode, offer, app,
     blocks, record
<1>26. CASE Stop
  BY Zenon, Consts, <1>26 DEF Stop, Numbers, Stage, timers, flags, episode, offer, app, blocks,
     record
<1>27. ASSUME NEW ok \in BOOLEAN, UnregisterStore(ok) PROVE Numbers'
  BY Consts, <1>27 DEF UnregisterStore, Numbers, Stage, timers, flags, episode, offer, app,
     blocks, record
<1>28. CASE RegistryRestart
  BY Consts, <1>28 DEF RegistryRestart, Numbers, Stage, timers, flags, episode, offer, app,
     blocks, record
<1> QED BY Zenon, <1>1, <1>2, <1>3, <1>4, <1>5, <1>6, <1>7, <1>8, <1>9, <1>10, <1>11, <1>12,
   <1>13, <1>14, <1>15, <1>16, <1>17, <1>18, <1>19, <1>20, <1>21, <1>22, <1>23, <1>24, <1>25,
   <1>26, <1>27, <1>28 DEF MonitorNext, Loop, Answer

\* Every step keeps the flags and the sets of blocks in range.
LEMMA PlacesStep == ASSUME Places, Stage, PinInv, MonitorNext PROVE Places'
<1>1. CASE MonitorTick
  BY Zenon, <1>1 DEF MonitorTick, Less, Awake, Places, timers, flags, episode, offer, app,
     blocks, record
<1>2. CASE Wake
  BY Zenon, <1>2 DEF Wake, Awake, Places, timers, flags, episode, offer, app, blocks, record
<1>3. CASE SkipBeat
  BY Zenon, <1>3 DEF SkipBeat, Places, timers, flags, episode, offer, app, blocks, record
<1>4. CASE Heartbeat
  BY Zenon, <1>4 DEF Heartbeat, Stamp, NextBeat, Places, timers, flags, episode, offer, app,
     blocks, record
<1>5. CASE HeartbeatFails
  BY Zenon, <1>5 DEF HeartbeatFails, Miss, Least, NextBeat, Places, timers, flags, episode,
     offer, app, blocks, record
<1>6. CASE Reregister
  BY Zenon, <1>6 DEF Reregister, Stamp, NextBeat, Places, timers, flags, episode, offer, app,
     blocks, record
<1>7. CASE ReregisterFails
  BY Zenon, <1>7 DEF ReregisterFails, Miss, Least, NextBeat, Places, timers, flags, episode,
     offer, app, blocks, record
<1>8. CASE SkipSweep
  BY Zenon, <1>8 DEF SkipSweep, Places, timers, flags, episode, offer, app, blocks, record
<1>9. CASE SweepIdle
  BY Zenon, <1>9 DEF SweepIdle, EndEpisode, Return, Places, timers, flags, episode, offer, app,
     blocks, record
<1>10. CASE SweepPick
  BY Zenon, <1>10 DEF SweepPick, Evictable, Stage, Places, timers, flags, episode, offer, app,
     blocks, record
<1>11. CASE DropBatch
  BY Zenon, EvictableIsUnused, <1>11 DEF DropBatch, EndEpisode, Return, Places, timers, flags,
     episode, offer, app, blocks, record
<1>12. CASE PinFails
  BY Zenon, <1>12 DEF PinFails, EndEpisode, Return, Places, timers, flags, episode, offer, app,
     blocks, record
<1>13. CASE PinBatch
  BY Zenon, <1>13 DEF PinBatch, Places, timers, flags, episode, offer, app, blocks, record
<1>14. CASE SaveRemote
  BY Zenon, <1>14 DEF SaveRemote, Places, timers, flags, episode, offer, app, blocks, record
<1>15. CASE DropTarget
  BY Zenon, <1>15 DEF DropTarget, Places, timers, flags, episode, offer, app, blocks, record
<1>16. CASE ReleaseStillPinned
  BY Zenon, <1>16 DEF ReleaseStillPinned, Places, timers, flags, episode, offer, app, blocks,
     record
<1>17. CASE EvictFreeable
  BY Zenon, EvictableIsUnused, <1>17 DEF EvictFreeable, EndEpisode, Return, Places, timers,
     flags, episode, offer, app, blocks, record
<1>18. CASE OfferDeclined
  BY Zenon, <1>18 DEF OfferDeclined, Places, timers, flags, episode, offer, app, blocks, record
<1>19. CASE OfferAccepted
  BY Zenon, <1>19 DEF OfferAccepted, Places, timers, flags, episode, offer, app, blocks, record
<1>20. ASSUME NEW E \in SUBSET Block, FinishRemoteWrite(E) PROVE Places'
  BY Zenon, <1>20 DEF FinishRemoteWrite, Places, timers, flags, episode, offer, app, blocks,
     record
<1>21. ASSUME NEW b \in Block, Allocate(b) PROVE Places'
  BY Zenon, <1>21 DEF Allocate, Free, Evictable, Places, timers, flags, episode, offer, app,
     blocks, record
<1>22. ASSUME NEW b \in Block, Pin(b) PROVE Places'
  BY Zenon, <1>22 DEF Pin, Places, timers, flags, episode, offer, app, blocks, record
<1>23. ASSUME NEW b \in Block, Unpin(b) PROVE Places'
  BY Zenon, <1>23 DEF Unpin, Places, timers, flags, episode, offer, app, blocks, record
<1>24. ASSUME NEW b \in Block, AppSave(b) PROVE Places'
  BY Zenon, <1>24 DEF AppSave, Places, timers, flags, episode, offer, app, blocks, record
<1>25. ASSUME NEW b \in Block, NEW ok \in BOOLEAN, AppSaved(b, ok) PROVE Places'
  <2>1. CASE ok
    BY Zenon, <1>25, <2>1 DEF AppSaved, Places, timers, flags, episode, offer, app, blocks, record
  <2>2. CASE ~ ok
    BY Zenon, <1>25, <2>2 DEF AppSaved, Places, timers, flags, episode, offer, app, blocks, record
  <2> QED BY Zenon, <2>1, <2>2
<1>26. CASE Stop
  BY Zenon, <1>26 DEF Stop, Places, timers, flags, episode, offer, app, blocks, record
<1>27. ASSUME NEW ok \in BOOLEAN, UnregisterStore(ok) PROVE Places'
  BY Zenon, <1>27 DEF UnregisterStore, Places, timers, flags, episode, offer, app, blocks,
     record
<1>28. CASE RegistryRestart
  BY Zenon, <1>28 DEF RegistryRestart, Places, timers, flags, episode, offer, app, blocks,
     record
<1> QED BY Zenon, <1>1, <1>2, <1>3, <1>4, <1>5, <1>6, <1>7, <1>8, <1>9, <1>10, <1>11, <1>12,
   <1>13, <1>14, <1>15, <1>16, <1>17, <1>18, <1>19, <1>20, <1>21, <1>22, <1>23, <1>24, <1>25,
   <1>26, <1>27, <1>28 DEF MonitorNext, Loop, Answer

\* A verdict is there from FinishRemoteWrite to the end of the step.
LEMMA StageStep == ASSUME Stage, MonitorNext PROVE Stage'
<1>1. CASE MonitorTick
  BY Zenon, <1>1 DEF MonitorTick, Less, Awake, Stage, timers, flags, episode, offer, app,
     blocks, record
<1>2. CASE Wake
  BY Zenon, <1>2 DEF Wake, Awake, Stage, timers, flags, episode, offer, app, blocks, record
<1>3. CASE SkipBeat
  BY Zenon, <1>3 DEF SkipBeat, Stage, timers, flags, episode, offer, app, blocks, record
<1>4. CASE Heartbeat
  BY Zenon, <1>4 DEF Heartbeat, Stamp, NextBeat, Stage, timers, flags, episode, offer, app,
     blocks, record
<1>5. CASE HeartbeatFails
  BY Zenon, <1>5 DEF HeartbeatFails, Miss, Least, NextBeat, Stage, timers, flags, episode,
     offer, app, blocks, record
<1>6. CASE Reregister
  BY Zenon, <1>6 DEF Reregister, Stamp, NextBeat, Stage, timers, flags, episode, offer, app,
     blocks, record
<1>7. CASE ReregisterFails
  BY Zenon, <1>7 DEF ReregisterFails, Miss, Least, NextBeat, Stage, timers, flags, episode,
     offer, app, blocks, record
<1>8. CASE SkipSweep
  BY Zenon, <1>8 DEF SkipSweep, Stage, timers, flags, episode, offer, app, blocks, record
<1>9. CASE SweepIdle
  BY Zenon, <1>9 DEF SweepIdle, EndEpisode, Return, Stage, timers, flags, episode, offer, app,
     blocks, record
<1>10. CASE SweepPick
  BY Zenon, <1>10 DEF SweepPick, Evictable, Stage, timers, flags, episode, offer, app, blocks,
     record
<1>11. CASE DropBatch
  BY Zenon, <1>11 DEF DropBatch, EndEpisode, Return, Stage, timers, flags, episode, offer, app,
     blocks, record
<1>12. CASE PinFails
  BY Zenon, <1>12 DEF PinFails, EndEpisode, Return, Stage, timers, flags, episode, offer, app,
     blocks, record
<1>13. CASE PinBatch
  BY Zenon, <1>13 DEF PinBatch, Stage, timers, flags, episode, offer, app, blocks, record
<1>14. CASE SaveRemote
  BY Zenon, <1>14 DEF SaveRemote, Stage, timers, flags, episode, offer, app, blocks, record
<1>15. CASE DropTarget
  BY Zenon, <1>15 DEF DropTarget, Stage, timers, flags, episode, offer, app, blocks, record
<1>16. CASE ReleaseStillPinned
  BY Zenon, <1>16 DEF ReleaseStillPinned, Stage, timers, flags, episode, offer, app, blocks,
     record
<1>17. CASE EvictFreeable
  BY Zenon, <1>17 DEF EvictFreeable, EndEpisode, Return, Stage, timers, flags, episode, offer,
     app, blocks, record
<1>18. CASE OfferDeclined
  BY Zenon, <1>18 DEF OfferDeclined, Stage, timers, flags, episode, offer, app, blocks, record
<1>19. CASE OfferAccepted
  BY Zenon, <1>19 DEF OfferAccepted, Stage, timers, flags, episode, offer, app, blocks, record
<1>20. ASSUME NEW E \in SUBSET Block, FinishRemoteWrite(E) PROVE Stage'
  BY Zenon, <1>20 DEF FinishRemoteWrite, Stage, timers, flags, episode, offer, app, blocks,
     record
<1>21. ASSUME NEW b \in Block, Allocate(b) PROVE Stage'
  BY Zenon, <1>21 DEF Allocate, Stage, timers, flags, episode, offer, app, blocks, record
<1>22. ASSUME NEW b \in Block, Pin(b) PROVE Stage'
  BY Zenon, <1>22 DEF Pin, Stage, timers, flags, episode, offer, app, blocks, record
<1>23. ASSUME NEW b \in Block, Unpin(b) PROVE Stage'
  BY Zenon, <1>23 DEF Unpin, Stage, timers, flags, episode, offer, app, blocks, record
<1>24. ASSUME NEW b \in Block, AppSave(b) PROVE Stage'
  BY Zenon, <1>24 DEF AppSave, Stage, timers, flags, episode, offer, app, blocks, record
<1>25. ASSUME NEW b \in Block, NEW ok \in BOOLEAN, AppSaved(b, ok) PROVE Stage'
  BY Zenon, <1>25 DEF AppSaved, Stage, timers, flags, episode, offer, app, blocks, record
<1>26. CASE Stop
  BY Zenon, <1>26 DEF Stop, Stage, timers, flags, episode, offer, app, blocks, record
<1>27. ASSUME NEW ok \in BOOLEAN, UnregisterStore(ok) PROVE Stage'
  BY Zenon, <1>27 DEF UnregisterStore, Stage, timers, flags, episode, offer, app, blocks, record
<1>28. CASE RegistryRestart
  BY Zenon, <1>28 DEF RegistryRestart, Stage, timers, flags, episode, offer, app, blocks, record
<1> QED BY Zenon, <1>1, <1>2, <1>3, <1>4, <1>5, <1>6, <1>7, <1>8, <1>9, <1>10, <1>11, <1>12,
   <1>13, <1>14, <1>15, <1>16, <1>17, <1>18, <1>19, <1>20, <1>21, <1>22, <1>23, <1>24, <1>25,
   <1>26, <1>27, <1>28 DEF MonitorNext, Loop, Answer

\* Every step changes the count by what it takes or gives back itself.
LEMMA PinStep == ASSUME Places, Stage, PinInv, MonitorNext PROVE PinInv'
<1>1. CASE MonitorTick
  <2>1. Share' = Share /\ batch' = batch
    BY Zenon, <1>1 DEF MonitorTick, Share, episode, offer
  <2> QED BY Zenon, PinFrame, <2>1, <1>1 DEF MonitorTick, blocks, app
<1>2. CASE Wake
  <2>1. Share = 0 /\ Share' = 0
    BY Zenon, <1>2 DEF Wake, Share
  <2> QED BY Zenon, PinFrame, <2>1, <1>2 DEF Wake, blocks, app
<1>3. CASE SkipBeat
  <2>1. Share = 0 /\ Share' = 0
    BY Zenon, <1>3 DEF SkipBeat, Share
  <2> QED BY Zenon, PinFrame, <2>1, <1>3 DEF SkipBeat, blocks, app
<1>4. CASE Heartbeat
  <2>1. Share = 0 /\ Share' = 0
    BY Zenon, <1>4 DEF Heartbeat, Share
  <2> QED BY Zenon, PinFrame, <2>1, <1>4 DEF Heartbeat, blocks, app
<1>5. CASE HeartbeatFails
  <2>1. Share = 0 /\ Share' = 0
    BY Zenon, <1>5 DEF HeartbeatFails, Share
  <2> QED BY Zenon, PinFrame, <2>1, <1>5 DEF HeartbeatFails, blocks, app
<1>6. CASE Reregister
  <2>1. Share = 0 /\ Share' = 0
    BY Zenon, <1>6 DEF Reregister, Share
  <2> QED BY Zenon, PinFrame, <2>1, <1>6 DEF Reregister, blocks, app
<1>7. CASE ReregisterFails
  <2>1. Share = 0 /\ Share' = 0
    BY Zenon, <1>7 DEF ReregisterFails, Share
  <2> QED BY Zenon, PinFrame, <2>1, <1>7 DEF ReregisterFails, blocks, app
<1>8. CASE SkipSweep
  <2>1. Share = 0 /\ Share' = 0
    BY Zenon, <1>8 DEF SkipSweep, Share
  <2> QED BY Zenon, PinFrame, <2>1, <1>8 DEF SkipSweep, blocks, app
<1>9. CASE SweepIdle
  <2>1. Share = 0 /\ Share' = 0
    BY Zenon, <1>9 DEF SweepIdle, EndEpisode, Return, Share
  <2> QED BY Zenon, PinFrame, <2>1, <1>9 DEF SweepIdle, blocks, app
<1>10. CASE SweepPick
  <2>1. Share = 0 /\ Share' = 0
    BY Zenon, <1>10 DEF SweepPick, Share
  <2> QED BY Zenon, PinFrame, <2>1, <1>10 DEF SweepPick, blocks, app
<1>11. CASE DropBatch
  <2>1. Share = 0 /\ Share' = 0
    BY Zenon, <1>11 DEF DropBatch, EndEpisode, Return, Share
  <2> QED BY Zenon, PinFrame, <2>1, <1>11 DEF DropBatch, blocks, app
<1>12. CASE PinFails
  <2>1. Share = 0 /\ Share' = 0
    BY Zenon, <1>12 DEF PinFails, EndEpisode, Return, Share
  <2> QED BY Zenon, PinFrame, <2>1, <1>12 DEF PinFails, blocks, app
<1>13. CASE PinBatch
  <2>1. Share = 0 /\ Share' = 1
    BY Zenon, <1>13 DEF PinBatch, Share
  <2> QED BY Zenon, PinUp, <2>1, <1>13 DEF PinBatch, episode, app
<1>14. CASE SaveRemote
  <2>1. CASE batch \cap saves # {}
    <3>1. Share' = Share
      BY Zenon, <2>1, <1>14 DEF SaveRemote, Share
    <3> QED BY Zenon, PinFrame, <2>1, <3>1, <1>14 DEF SaveRemote, episode, app
  <2>2. CASE batch \cap saves = {}
    <3>1. Share = 1 /\ Share' = 2
      BY Zenon, <2>2, <1>14 DEF SaveRemote, Share
    <3> QED BY Zenon, PinUp, <2>2, <3>1, <1>14 DEF SaveRemote, episode, app
  <2> QED BY Zenon, <2>1, <2>2
<1>15. CASE DropTarget
  <2>1. Share = 1 /\ Share' = 0
    BY Zenon, <1>15 DEF DropTarget, Share
  <2> QED BY Zenon, PinDown, <2>1, <1>15 DEF DropTarget, app
<1>16. CASE ReleaseStillPinned
  <2>1. CASE verdict = "failed"
    <3>1. Share = 1 /\ Share' = 0
      BY Zenon, <2>1, <1>16 DEF ReleaseStillPinned, Share
    <3> QED BY Zenon, PinDown, <2>1, <3>1, <1>16 DEF ReleaseStillPinned, episode, app
  <2>2. CASE verdict # "failed"
    <3>1. Share = 0 /\ Share' = 0
      BY Zenon, <2>2, <1>16 DEF ReleaseStillPinned, Share
    <3> QED BY Zenon, PinFrame, <2>2, <3>1, <1>16 DEF ReleaseStillPinned, episode, app
  <2> QED BY Zenon, <2>1, <2>2
<1>17. CASE EvictFreeable
  <2>1. Share = 0 /\ Share' = 0
    BY Zenon, <1>17 DEF EvictFreeable, EndEpisode, Return, Share
  <2> QED BY Zenon, PinFrame, <2>1, <1>17 DEF EvictFreeable, blocks, app
<1>18. CASE OfferDeclined
  <2>1. Share = 2 /\ Share' = 1
    BY Zenon, <1>18 DEF OfferDeclined, Share
  <2> QED BY Zenon, PinDown, <2>1, <1>18 DEF OfferDeclined, episode, app
<1>19. CASE OfferAccepted
  <2>1. Share' = Share /\ batch' = batch
    BY Zenon, <1>19 DEF OfferAccepted, Stage, Share, episode, offer
  <2> QED BY Zenon, PinFrame, <2>1, <1>19 DEF OfferAccepted, blocks, app
<1>20. ASSUME NEW E \in SUBSET Block, FinishRemoteWrite(E) PROVE PinInv'
  <2>1. Share = 2
    BY Zenon, <1>20 DEF FinishRemoteWrite, Share
  <2>2. CASE E = batch
    <3>1. Share' = 0
      BY Zenon, <2>2, <1>20 DEF FinishRemoteWrite, Share
    <3> QED BY Zenon, PinDownTwice, <2>1, <2>2, <3>1, <1>20 DEF FinishRemoteWrite, episode, app
  <2>3. CASE E # batch
    <3>1. Share' = 1
      BY Zenon, <2>3, <1>20 DEF FinishRemoteWrite, Share
    <3> QED BY Zenon, PinDown, <2>1, <2>3, <3>1, <1>20 DEF FinishRemoteWrite, episode, app
  <2> QED BY Zenon, <2>2, <2>3
<1>21. ASSUME NEW b \in Block, Allocate(b) PROVE PinInv'
  <2>1. pc' = pc /\ verdict' = verdict
    BY Zenon, <1>21 DEF Allocate, offer
  <2>2. Share' = Share /\ Share \in Nat
    BY Zenon, <2>1, ShareType DEF Share
  <2>3. b \notin read /\ b \notin saves
    BY Zenon, EvictableIsUnused, <1>21 DEF Allocate, Free, Places
  <2>4. pins' = [pins EXCEPT ![b] = 1] /\ read' = read \cup {b} /\ saves' = saves
        /\ batch' = batch \ {b}
    BY Zenon, <1>21 DEF Allocate
  <2> QED BY <2>2, <2>3, <2>4 DEF PinInv, AppPins
<1>22. ASSUME NEW b \in Block, Pin(b) PROVE PinInv'
  <2>1. pc' = pc /\ verdict' = verdict
    BY Zenon, <1>22 DEF Pin, offer
  <2>2. Share' = Share /\ Share \in Nat
    BY Zenon, <2>1, ShareType DEF Share
  <2>3. batch' = batch /\ b \notin read /\ b \notin saves /\ read' = read \cup {b} /\ saves' = saves
        /\ pins' = Pinned({b})
    BY Zenon, <1>22 DEF Pin, episode, Places
  <2> QED BY <2>2, <2>3 DEF PinInv, AppPins, Pinned, Unpinned, Less
<1>23. ASSUME NEW b \in Block, Unpin(b) PROVE PinInv'
  <2>1. pc' = pc /\ verdict' = verdict
    BY Zenon, <1>23 DEF Unpin, offer
  <2>2. Share' = Share /\ Share \in Nat
    BY Zenon, <2>1, ShareType DEF Share
  <2>3. batch' = batch /\ b \in read /\ b \notin saves /\ read' = read \ {b} /\ saves' = saves
        /\ pins' = Unpinned(pins, {b})
    BY Zenon, <1>23 DEF Unpin, episode, Places
  <2> QED BY <2>2, <2>3 DEF PinInv, AppPins, Pinned, Unpinned, Less
<1>24. ASSUME NEW b \in Block, AppSave(b) PROVE PinInv'
  <2>1. pc' = pc /\ verdict' = verdict
    BY Zenon, <1>24 DEF AppSave, offer
  <2>2. Share' = Share /\ Share \in Nat
    BY Zenon, <2>1, ShareType DEF Share
  <2>3. batch' = batch /\ b \in read /\ b \notin saves /\ read' = read /\ saves' = saves \cup {b}
        /\ pins' = Pinned({b})
    BY Zenon, <1>24 DEF AppSave, episode, Places
  <2> QED BY <2>2, <2>3 DEF PinInv, AppPins, Pinned, Unpinned, Less
<1>25. ASSUME NEW b \in Block, NEW ok \in BOOLEAN, AppSaved(b, ok) PROVE PinInv'
  <2>1. pc' = pc /\ verdict' = verdict
    BY Zenon, <1>25 DEF AppSaved, offer
  <2>2. Share' = Share /\ Share \in Nat
    BY Zenon, <2>1, ShareType DEF Share
  <2>3. batch' = batch /\ b \in read /\ b \in saves /\ saves' = saves \ {b}
        /\ read' = (IF ok THEN read \ {b} ELSE read)
        /\ pins' = (IF ok THEN Unpinned(Unpinned(pins, {b}), {b}) ELSE Unpinned(pins, {b}))
    BY Zenon, <1>25 DEF AppSaved, episode, Places
  <2>4. CASE ok
    BY <2>2, <2>3, <2>4 DEF PinInv, AppPins, Unpinned, Less
  <2>5. CASE ~ ok
    BY <2>2, <2>3, <2>5 DEF PinInv, AppPins, Unpinned, Less
  <2> QED BY Zenon, <2>4, <2>5
<1>26. CASE Stop
  <2>1. Share' = Share /\ batch' = batch
    BY Zenon, <1>26 DEF Stop, Share, episode, offer
  <2> QED BY Zenon, PinFrame, <2>1, <1>26 DEF Stop, blocks, app
<1>27. ASSUME NEW ok \in BOOLEAN, UnregisterStore(ok) PROVE PinInv'
  <2>1. Share' = Share /\ batch' = batch
    BY Zenon, <1>27 DEF UnregisterStore, Share, episode, offer
  <2> QED BY Zenon, PinFrame, <2>1, <1>27 DEF UnregisterStore, blocks, app
<1>28. CASE RegistryRestart
  <2>1. Share' = Share /\ batch' = batch
    BY Zenon, <1>28 DEF RegistryRestart, Share, episode, offer
  <2> QED BY Zenon, PinFrame, <2>1, <1>28 DEF RegistryRestart, blocks, app
<1> QED BY Zenon, <1>1, <1>2, <1>3, <1>4, <1>5, <1>6, <1>7, <1>8, <1>9, <1>10, <1>11, <1>12,
   <1>13, <1>14, <1>15, <1>16, <1>17, <1>18, <1>19, <1>20, <1>21, <1>22, <1>23, <1>24, <1>25,
   <1>26, <1>27, <1>28 DEF MonitorNext, Loop, Answer

\* Time passes only while the thread waits, and a step waits for StepMax at most.
LEMMA TimeStep == ASSUME Numbers, Places, TimeInv, MonitorNext PROVE TimeInv'
<1>1. CASE MonitorTick
  BY Consts, Budgets, <1>1 DEF MonitorTick, Less, Awake, Numbers, Places, TimeInv, timers,
     flags, episode, offer, app, blocks, record
<1>2. CASE Wake
  BY Consts, Budgets, <1>2 DEF Wake, Awake, Numbers, Places, TimeInv, timers, flags, episode,
     offer, app, blocks, record
<1>3. CASE SkipBeat
  BY Zenon, Consts, Budgets, <1>3 DEF SkipBeat, Numbers, Places, TimeInv, timers, flags,
     episode, offer, app, blocks, record
<1>4. CASE Heartbeat
  BY Consts, Budgets, <1>4 DEF Heartbeat, Stamp, NextBeat, Numbers, Places, TimeInv, timers,
     flags, episode, offer, app, blocks, record
<1>5. CASE HeartbeatFails
  BY Consts, Budgets, <1>5 DEF HeartbeatFails, Miss, Least, NextBeat, Numbers, Places, TimeInv,
     timers, flags, episode, offer, app, blocks, record
<1>6. CASE Reregister
  BY Consts, Budgets, <1>6 DEF Reregister, Stamp, NextBeat, Numbers, Places, TimeInv, timers,
     flags, episode, offer, app, blocks, record
<1>7. CASE ReregisterFails
  BY Consts, Budgets, <1>7 DEF ReregisterFails, Miss, Least, NextBeat, Numbers, Places, TimeInv,
     timers, flags, episode, offer, app, blocks, record
<1>8. CASE SkipSweep
  BY Zenon, Consts, Budgets, <1>8 DEF SkipSweep, Numbers, Places, TimeInv, timers, flags,
     episode, offer, app, blocks, record
<1>9. CASE SweepIdle
  BY Consts, Budgets, <1>9 DEF SweepIdle, EndEpisode, Return, Numbers, Places, TimeInv, timers,
     flags, episode, offer, app, blocks, record
<1>10. CASE SweepPick
  BY Consts, Budgets, <1>10 DEF SweepPick, Evictable, Numbers, Places, TimeInv, timers, flags,
     episode, offer, app, blocks, record
<1>11. CASE DropBatch
  BY Consts, Budgets, <1>11 DEF DropBatch, EndEpisode, Return, Numbers, Places, TimeInv, timers,
     flags, episode, offer, app, blocks, record
<1>12. CASE PinFails
  BY Consts, Budgets, <1>12 DEF PinFails, EndEpisode, Return, Numbers, Places, TimeInv, timers,
     flags, episode, offer, app, blocks, record
<1>13. CASE PinBatch
  BY Zenon, Consts, Budgets, <1>13 DEF PinBatch, Numbers, Places, TimeInv, timers, flags,
     episode, offer, app, blocks, record
<1>14. CASE SaveRemote
  BY Zenon, Consts, Budgets, <1>14 DEF SaveRemote, Numbers, Places, TimeInv, timers, flags,
     episode, offer, app, blocks, record
<1>15. CASE DropTarget
  BY Zenon, Consts, Budgets, <1>15 DEF DropTarget, Numbers, Places, TimeInv, timers, flags,
     episode, offer, app, blocks, record
<1>16. CASE ReleaseStillPinned
  BY Zenon, Consts, Budgets, <1>16 DEF ReleaseStillPinned, Numbers, Places, TimeInv, timers,
     flags, episode, offer, app, blocks, record
<1>17. CASE EvictFreeable
  BY Consts, Budgets, <1>17 DEF EvictFreeable, EndEpisode, Return, Numbers, Places, TimeInv,
     timers, flags, episode, offer, app, blocks, record
<1>18. CASE OfferDeclined
  BY Zenon, Consts, Budgets, <1>18 DEF OfferDeclined, Numbers, Places, TimeInv, timers, flags,
     episode, offer, app, blocks, record
<1>19. CASE OfferAccepted
  BY Consts, Budgets, <1>19 DEF OfferAccepted, Numbers, Places, TimeInv, timers, flags, episode,
     offer, app, blocks, record
<1>20. ASSUME NEW E \in SUBSET Block, FinishRemoteWrite(E) PROVE TimeInv'
  BY Zenon, Consts, Budgets, <1>20 DEF FinishRemoteWrite, Numbers, Places, TimeInv, timers,
     flags, episode, offer, app, blocks, record
<1>21. ASSUME NEW b \in Block, Allocate(b) PROVE TimeInv'
  BY Zenon, Consts, Budgets, <1>21 DEF Allocate, Numbers, Places, TimeInv, timers, flags,
     episode, offer, app, blocks, record
<1>22. ASSUME NEW b \in Block, Pin(b) PROVE TimeInv'
  BY Zenon, Consts, Budgets, <1>22 DEF Pin, Numbers, Places, TimeInv, timers, flags, episode,
     offer, app, blocks, record
<1>23. ASSUME NEW b \in Block, Unpin(b) PROVE TimeInv'
  BY Zenon, Consts, Budgets, <1>23 DEF Unpin, Numbers, Places, TimeInv, timers, flags, episode,
     offer, app, blocks, record
<1>24. ASSUME NEW b \in Block, AppSave(b) PROVE TimeInv'
  BY Zenon, Consts, Budgets, <1>24 DEF AppSave, Numbers, Places, TimeInv, timers, flags,
     episode, offer, app, blocks, record
<1>25. ASSUME NEW b \in Block, NEW ok \in BOOLEAN, AppSaved(b, ok) PROVE TimeInv'
  BY Zenon, Consts, Budgets, <1>25 DEF AppSaved, Numbers, Places, TimeInv, timers, flags,
     episode, offer, app, blocks, record
<1>26. CASE Stop
  BY Zenon, Consts, Budgets, <1>26 DEF Stop, Numbers, Places, TimeInv, timers, flags, episode,
     offer, app, blocks, record
<1>27. ASSUME NEW ok \in BOOLEAN, UnregisterStore(ok) PROVE TimeInv'
  BY Consts, Budgets, <1>27 DEF UnregisterStore, Numbers, Places, TimeInv, timers, flags,
     episode, offer, app, blocks, record
<1>28. CASE RegistryRestart
  BY Zenon, Consts, Budgets, <1>28 DEF RegistryRestart, Numbers, Places, TimeInv, timers, flags,
     episode, offer, app, blocks, record
<1> QED BY Zenon, <1>1, <1>2, <1>3, <1>4, <1>5, <1>6, <1>7, <1>8, <1>9, <1>10, <1>11, <1>12,
   <1>13, <1>14, <1>15, <1>16, <1>17, <1>18, <1>19, <1>20, <1>21, <1>22, <1>23, <1>24, <1>25,
   <1>26, <1>27, <1>28 DEF MonitorNext, Loop, Answer

LEMMA StepHolds == IInv /\ [MonitorNext]_mvars => IInv'
<1> SUFFICES ASSUME IInv, [MonitorNext]_mvars PROVE IInv'
  OBVIOUS
<1>1. CASE UNCHANGED mvars
  BY <1>1 DEF IInv, Numbers, Places, Stage, PinInv, Share, AppPins, TimeInv, mvars, timers, flags,
     episode, offer, app, blocks, record
<1> QED BY Zenon, <1>1, NumbersStep, PlacesStep, StageStep, PinStep, TimeStep DEF IInv

LEMMA Invariant == MonitorSpec => []IInv
BY InitHolds, StepHolds, PTL DEF MonitorSpec

-----------------------------------------------------------------------------
\* The sweep takes no pin from a reader and keeps none after a step, for any number of
\* blocks and of targets, however the offers end (SweepOnce, SaveRemote,
\* FinishRemoteWrite, WaitForBatchWriteResult).
THEOREM SweepPinsReturnedHolds == MonitorSpec => []SweepPinsReturned
<1>1. IInv => SweepPinsReturned
  <2> SUFFICES ASSUME IInv PROVE SweepPinsReturned
    OBVIOUS
  <2>1. PinInv
    BY Zenon DEF IInv
  <2>2. \A b \in Block : AppPins(b) \in Nat /\ pins[b] >= AppPins(b)
    BY <2>1, ShareType DEF PinInv, AppPins
  <2>3. pc \in {"wait", "beat", "reregister", "sweep", "returned"} => Share = 0
    BY Zenon DEF Share
  <2>4. Share = 0 => \A b \in Block : pins[b] = AppPins(b)
    BY <2>1, <2>2 DEF PinInv
  <2> QED BY Zenon, <2>2, <2>3, <2>4 DEF SweepPinsReturned
<1> QED BY Invariant, <1>1, PTL

\* A heartbeat is late by at most one sweep step, and the record of a running store
\* expires only after as many failed heartbeats in a row as its TTL needs, for any
\* periods and any registration TTL (StoreMonitor::Loop, SweepOnce).
THEOREM LapseNeedsMissesHolds == MonitorSpec => []LapseNeedsMisses
<1>1. IInv => LapseNeedsMisses
  BY Zenon DEF IInv, TimeInv, Budget, LapseNeedsMisses
<1> QED BY Invariant, <1>1, PTL
=============================================================================
