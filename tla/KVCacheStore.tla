---------------------------- MODULE KVCacheStore ----------------------------
(***************************************************************************)
(* The store (KVCacheStore) over its backend (HostOffloadBackend), the     *)
(* block index and the pool of host blocks, for any number of concurrent   *)
(* actors: application requests, leases of peers, incoming remote writes   *)
(* and the evict sweep.  An operation that drops a mutex on the way is     *)
(* several actions of its actor; what runs under one mutex is one action.  *)
(* The in-flight marks only ever refuse a call, so clearing them under a   *)
(* second mutex at the end of an operation is folded into its last step.   *)
(*                                                                         *)
(* The index is the one PinnedCache promises: which unpinned entry is      *)
(* demoted or reclaimed is left open, so what holds here holds for every   *)
(* recency order.  An entry with no host block is in HBM only.             *)
(***************************************************************************)
EXTENDS Integers, FiniteSets

CONSTANTS Actor,     \* operations in progress at the same time
          Key,       \* block hashes
          Block,     \* host blocks
          Capacity,  \* capacity of the index
          MaxBatch,  \* bound on the hashes of one call
          None,
          Foreign    \* what a block holds once an abandoned transfer wrote into it

ASSUME SetsAssumption ==
  IsFiniteSet(Actor) /\ None \notin Key \cup Block /\ Foreign \notin Key \cup {None}
ASSUME CapacityAssumption == Capacity \in Nat /\ MaxBatch \in Nat

VARIABLES
  loc,      \* where an entry is: absent, active, candidate
  pins,     \* its pin count
  host,     \* its host block, None while it is in HBM only
  data,     \* the hash whose bytes a host block holds, None for garbage
  stray,    \* host blocks an abandoned transfer may still write
  free,     \* free blocks of the block manager
  saving,   \* saving_hashes_
  loading,  \* loading_hashes_
  reading,  \* reading_hashes_
  holders,  \* history: who holds each pin
  kind,     \* the operation an actor is in
  pc,       \* and how far it is
  keys,     \* its batch
  own,      \* the host blocks it has allocated, by hash
  snap,     \* the host blocks it reads, by hash
  victims,  \* the hashes it is about to evict
  limbo,    \* the blocks it evicted and did not return yet
  outcome   \* how its transfer ended

index == <<loc, pins, host, holders>>
pool == <<data, free, stray>>
marks == <<saving, loading, reading>>
ops == <<kind, pc, keys, own, snap, victims, limbo, outcome>>
vars == <<index, pool, marks, ops>>

NoBlocks == [k \in Key |-> None]

\* A pin is the caller's, or the operation's own.
Holder == Actor \X {"caller", "internal"}

TypeOK ==
  /\ loc \in [Key -> {"absent", "active", "candidate"}]
  /\ pins \in [Key -> Nat]
  /\ host \in [Key -> Block \cup {None}]
  /\ \A k \in Key : (pins[k] > 0 => loc[k] = "active") /\ (host[k] # None => loc[k] # "absent")
  /\ data \in [Block -> Key \cup {None, Foreign}]
  /\ free \subseteq Block /\ stray \subseteq Block
  /\ saving \subseteq Key /\ loading \subseteq Key /\ reading \subseteq Key
  /\ holders \in [Key -> SUBSET Holder]
  /\ kind \in [Actor -> {"none", "lookup", "save", "read", "load", "fetch", "offer",
                         "lease", "push", "write", "evict"}]
  /\ pc \in [Actor -> {"idle", "answer", "choose", "erase", "dealloc", "grab", "mark",
                       "pin", "issue", "dma", "ready", "publish"}]
  /\ keys \in [Actor -> SUBSET Key]
  /\ own \in [Actor -> [Key -> Block \cup {None}]]
  /\ snap \in [Actor -> [Key -> Block \cup {None}]]
  /\ victims \in [Actor -> SUBSET Key]
  /\ limbo \in [Actor -> SUBSET Block]
  /\ outcome \in [Actor -> {"none", "ok", "failed"}]

Init ==
  /\ loc = [k \in Key |-> "absent"]
  /\ pins = [k \in Key |-> 0]
  /\ host = NoBlocks
  /\ data = [b \in Block |-> None]
  /\ free = Block /\ stray = {}
  /\ saving = {} /\ loading = {} /\ reading = {}
  /\ holders = [k \in Key |-> {}]
  /\ kind = [r \in Actor |-> "none"]
  /\ pc = [r \in Actor |-> "idle"]
  /\ keys = [r \in Actor |-> {}]
  /\ own = [r \in Actor |-> NoBlocks]
  /\ snap = [r \in Actor |-> NoBlocks]
  /\ victims = [r \in Actor |-> {}]
  /\ limbo = [r \in Actor |-> {}]
  /\ outcome = [r \in Actor |-> "none"]

-----------------------------------------------------------------------------
(* The index *)

Active == {k \in Key : loc[k] = "active"}

Stored == {k \in Key : loc[k] # "absent"}

Pinned == {k \in Key : pins[k] > 0}

\* HOST or HOST_AND_HBM.
Resident == {k \in Key : host[k] # None}

\* What LRUCache::Evict may demote: its list of unpinned entries.
Demotable == Active \ Pinned

Max0(n) == IF n > 0 THEN n ELSE 0

\* available_space() once the entries of P are pinned too.
RoomWith(P) == Max0(Capacity - Cardinality(Pinned \cup P))

\* The possible sets of entries demoted while K is put into the index: one for
\* every hash that is not in the map and finds the index full.  A queued
\* candidate re-enters without displacing anything, and the entries of the
\* batch, being the most recent ones, are not displaced by it.
Displaced(K) ==
  LET absent == Cardinality(K \ Stored)
      queued == Cardinality(K \cap (Stored \ Active))
      slack  == Max0(Capacity - Cardinality(Active))
  IN  {D \in SUBSET (Demotable \ K) :
         Cardinality(D) \in Max0(absent - slack) .. Max0(absent - Max0(slack - queued))}

Enter(K, D) ==
  loc' = [k \in Key |-> IF k \in K THEN "active" ELSE IF k \in D THEN "candidate" ELSE loc[k]]

\* Pins on K for holder h.
PinAll(K, h) ==
  /\ pins' = [k \in Key |-> IF k \in K THEN pins[k] + 1 ELSE pins[k]]
  /\ holders' = [k \in Key |-> IF k \in K THEN holders[k] \cup {h} ELSE holders[k]]

\* Unpin of each hash of K, clamped at zero.
Unpin(K) ==
  pins' = [k \in Key |-> IF k \in K /\ pins[k] > 0 THEN pins[k] - 1 ELSE pins[k]]

\* Release of h's pins on K.
ReleaseAll(K, h) ==
  /\ Unpin(K)
  /\ holders' = [k \in Key |-> IF k \in K THEN holders[k] \ {h} ELSE holders[k]]

\* The pins an actor was granted and did not spend: it may release them, or
\* spend them on a save or a load.
Granted(r) == {k \in Key : <<r, "caller">> \in holders[k]}

-----------------------------------------------------------------------------
(* Operations of an actor *)

Begin(r, op, at, K) ==
  /\ pc[r] = "idle"
  /\ kind' = [kind EXCEPT ![r] = op]
  /\ pc' = [pc EXCEPT ![r] = at]
  /\ keys' = [keys EXCEPT ![r] = K]
  /\ UNCHANGED outcome

Goto(r, at) == pc' = [pc EXCEPT ![r] = at] /\ UNCHANGED <<kind, keys, outcome>>

End(r) ==
  /\ kind' = [kind EXCEPT ![r] = "none"]
  /\ pc' = [pc EXCEPT ![r] = "idle"]
  /\ keys' = [keys EXCEPT ![r] = {}]
  /\ outcome' = [outcome EXCEPT ![r] = "none"]

At(r, op, at) == kind[r] = op /\ pc[r] = at

\* Nobody is inside ValidateAndPinHostBlocks, which holds the store's mutex over
\* two calls of the backend.
Unlocked == \A s \in Actor : ~At(s, "lease", "pin")

\* A poll takes the operation off its list under the store's mutex: its future is
\* ready, and the poll finishes it.
Polled(r, op) == Unlocked /\ At(r, op, "ready")

Owned(r) == {own[r][k] : k \in keys[r]} \ {None}

\* DeallocateBlockIds of the operation's blocks; the bytes in them are nobody's.
GiveBack(r) ==
  /\ free' = free \cup Owned(r)
  /\ data' = [b \in Block |-> IF b \in Owned(r) THEN None ELSE data[b]]
  /\ own' = [own EXCEPT ![r] = NoBlocks]
  /\ UNCHANGED stray

\* InsertAndLock of the backend: hashes already visible are pinned in place, the
\* others are put and pinned, candidates included, as HBM-only entries.  Refused
\* without enough unpinned space.
InsertAndLock(K, h) ==
  /\ Cardinality(K \ Active) <= RoomWith(K \cap Active)
  /\ \E D \in Displaced(K) : Enter(K, D)
  /\ PinAll(K, h)
  /\ host' = [k \in Key |-> IF k \in K \ Active THEN None ELSE host[k]]

\* Insert: with one backend, there is none to roll back when it refuses.
Insert(r, K) ==
  /\ pc[r] = "idle"
  /\ K \cap Granted(r) = {}
  /\ InsertAndLock(K, <<r, "caller">>)
  /\ UNCHANGED <<pool, marks, ops>>

\* Lookup, the sweep of the local index: every hit is pinned.
Lookup(r, K) ==
  /\ K \cap Granted(r) = {}
  /\ Begin(r, "lookup", "answer", K \cap Active)
  /\ PinAll(K \cap Active, <<r, "caller">>)
  /\ UNCHANGED <<loc, host, pool, marks, own, snap, victims, limbo>>

\* What the store's Lookup answers with: no more hits than its capacity, and none
\* after a backend's error.
Answers(hits) == {kept \in SUBSET hits : Cardinality(kept) <= Capacity}

\* Lookup, the answer after the registry call: hits past its end are unpinned.
LookupAnswer(r, kept) ==
  /\ At(r, "lookup", "answer")
  /\ kept \in Answers(keys[r])
  /\ ReleaseAll(keys[r] \ kept, <<r, "caller">>)
  /\ End(r)
  /\ UNCHANGED <<loc, host, pool, marks, own, snap, victims, limbo>>

\* The sweep pins its batch, candidates included, before it offers it.
SweepPin(r, K) ==
  /\ pc[r] = "idle"
  /\ K \subseteq Stored \ Granted(r)
  /\ loc' = [k \in Key |-> IF k \in K THEN "active" ELSE loc[k]]
  /\ PinAll(K, <<r, "caller">>)
  /\ UNCHANGED <<host, pool, marks, ops>>

Release(r, K) ==
  /\ pc[r] = "idle"
  /\ K \subseteq Granted(r)
  /\ ReleaseAll(K, <<r, "caller">>)
  /\ UNCHANGED <<loc, host, pool, marks, ops>>

-----------------------------------------------------------------------------
(* Allocation with eviction: AllocateBlockIds of the store *)

\* GetEvictableKeys(n): candidates before the unpinned active entries.
EvictableSets(n) ==
  LET queued == Stored \ Active
  IN  {V \in SUBSET (Stored \ Pinned) :
         Cardinality(V) = n /\ (V \subseteq queued \/ queued \subseteq V)}

\* What a save or a read gives up when it gets no blocks.
Unmark(r) ==
  /\ saving' = IF kind[r] = "save" THEN saving \ keys[r] ELSE saving
  /\ loading' = IF kind[r] = "fetch" THEN loading \ keys[r] ELSE loading
  /\ UNCHANGED reading

\* Under the store's mutex: how many blocks are missing and which entries
\* should go.
Choose(r) ==
  /\ pc[r] = "choose"
  /\ Unlocked
  /\ LET missing == Cardinality(keys[r]) - Cardinality(free)
     IN  \/ missing <= 0 /\ Goto(r, "grab") /\ UNCHANGED <<victims, marks>>
         \/ /\ missing > Cardinality(Stored \ Pinned)
            /\ Unmark(r)
            /\ End(r)
            /\ UNCHANGED victims
         \/ /\ missing > 0
            /\ \E V \in EvictableSets(missing) : victims' = [victims EXCEPT ![r] = V]
            /\ Goto(r, "erase")
            /\ UNCHANGED marks
  /\ UNCHANGED <<index, pool, own, snap, limbo>>

\* Evict(block_hashes), by the application or the sweep.
Evict(r, V) ==
  /\ Begin(r, "evict", "erase", {})
  /\ victims' = [victims EXCEPT ![r] = V]
  /\ UNCHANGED <<index, pool, marks, own, snap, limbo>>

\* What backend Evict takes: unpinned entries with a host block.
Evictable(V) == {k \in V : loc[k] # "absent" /\ pins[k] = 0 /\ host[k] # None}

\* HostOffloadBackend::Evict, under its mutex; the bytes are nobody's from here on.
Erase(r) ==
  /\ pc[r] = "erase"
  /\ LET E == Evictable(victims[r])
         B == {host[k] : k \in E}
     IN  /\ loc' = [k \in Key |-> IF k \in E THEN "absent" ELSE loc[k]]
         /\ host' = [k \in Key |-> IF k \in E THEN None ELSE host[k]]
         /\ limbo' = [limbo EXCEPT ![r] = B]
         /\ data' = [b \in Block |-> IF b \in B THEN None ELSE data[b]]
  /\ victims' = [victims EXCEPT ![r] = {}]
  /\ Goto(r, "dealloc")
  /\ UNCHANGED <<pins, holders, free, stray, marks, own, snap>>

\* The evicted blocks go back to the pool.
Dealloc(r) ==
  /\ pc[r] = "dealloc"
  /\ free' = free \cup limbo[r]
  /\ limbo' = [limbo EXCEPT ![r] = {}]
  /\ IF kind[r] = "evict" THEN End(r) ELSE Goto(r, "grab")
  /\ UNCHANGED <<index, data, stray, marks, own, snap, victims>>

\* Distinct free blocks for the hashes of K.
Assignments(K) ==
  {f \in [Key -> free \cup {None}] :
     /\ \A k \in Key : f[k] = None <=> k \notin K
     /\ \A j, k \in K : f[j] = f[k] => j = k}

\* AllocateBlockIds of the controller; another actor may have been faster.  From
\* here on a transfer may be writing the blocks.
Grab(r) ==
  /\ pc[r] = "grab"
  /\ IF Cardinality(free) >= Cardinality(keys[r])
     THEN /\ \E f \in Assignments(keys[r]) :
               /\ own' = [own EXCEPT ![r] = f]
               /\ free' = free \ {f[k] : k \in keys[r]}
               /\ data' = [b \in Block |-> IF \E k \in keys[r] : f[k] = b THEN None ELSE data[b]]
          /\ Goto(r, IF kind[r] = "read" THEN "mark" ELSE "dma")
          /\ UNCHANGED marks
     ELSE Unmark(r) /\ End(r) /\ UNCHANGED <<own, free, data>>
  /\ UNCHANGED <<index, stray, snap, victims, limbo>>

\* A transfer ends.  A save or a write filled its landing blocks, or left garbage
\* there; the staging bytes of a read go on to the device.  The staging blocks of a
\* fetch are returned by its callback.
Land(r, ok) ==
  /\ pc[r] = "dma"
  /\ \/ /\ kind[r] \in {"save", "write", "load"}
        /\ outcome' = [outcome EXCEPT ![r] = IF ok THEN "ok" ELSE "failed"]
        /\ data' = [b \in Block |->
                      IF b \notin Owned(r) THEN data[b]
                      ELSE IF ok THEN CHOOSE k \in keys[r] : own[r][k] = b ELSE None]
        /\ UNCHANGED <<free, own>>
     \/ kind[r] = "read" /\ UNCHANGED <<outcome, data, free, own>>
     \/ kind[r] = "fetch" /\ GiveBack(r) /\ UNCHANGED outcome
  /\ pc' = [pc EXCEPT ![r] = "ready"]
  /\ UNCHANGED <<index, stray, marks, kind, keys, snap, victims, limbo>>

\* The deadline of a remote read, or a failed Fetch call: the operation is over
\* for its owner while the peer's bytes are still on their way.
GiveUp(r) ==
  /\ pc[r] = "dma" /\ kind[r] \in {"read", "fetch"}
  /\ stray' = stray \cup Owned(r)
  /\ IF kind[r] = "fetch"
     THEN free' = free \cup Owned(r) /\ own' = [own EXCEPT ![r] = NoBlocks]
     ELSE UNCHANGED <<free, own>>
  /\ pc' = [pc EXCEPT ![r] = "ready"]
  /\ UNCHANGED <<index, data, marks, kind, keys, snap, victims, limbo, outcome>>

\* A host block with an entry, or one that a save or a write fills.
Kept(b) ==
  \E k \in Key : \/ host[k] = b
                 \/ \E r \in Actor : own[r][k] = b /\ kind[r] \in {"save", "write"}

\* Bytes of an abandoned transfer arrive, in as many pieces as it has, and nothing
\* says when it ends; what they do to other blocks does not matter.
StrayLand ==
  \E b \in stray :
    /\ Kept(b)
    /\ data' = [data EXCEPT ![b] = Foreign]
    /\ UNCHANGED <<index, free, stray, marks, ops>>

-----------------------------------------------------------------------------
(* Save to host memory *)

\* SaveLocal up to the allocation.
SaveLocal(r, K) ==
  /\ Unlocked
  /\ K \subseteq Granted(r)
  /\ K \subseteq (Active \cap Pinned) \ (Resident \cup saving)
  /\ Begin(r, "save", "choose", K)
  /\ saving' = saving \cup K
  /\ UNCHANGED <<index, pool, loading, reading, own, snap, victims, limbo>>

\* Fault: the status of the transfer is not looked at.
PollSaveAnyOutcome(r) ==
  /\ Polled(r, "save")
  /\ host' = [k \in Key |-> IF k \in keys[r] \cap Active THEN own[r][k] ELSE host[k]]
  /\ own' = [own EXCEPT ![r] = NoBlocks]
  /\ saving' = saving \ keys[r]
  /\ pc' = [pc EXCEPT ![r] = "publish"]
  /\ keys' = [keys EXCEPT ![r] = @ \cap Active]
  /\ UNCHANGED <<loc, pins, holders, pool, loading, reading, kind, snap, victims, limbo,
                 outcome>>

\* PollSavesInternal: the entries get their host blocks; the caller's pins stay
\* until the write-through has run.
PollSaveDone(r) ==
  /\ Polled(r, "save") /\ outcome[r] = "ok"
  /\ host' = [k \in Key |-> IF k \in keys[r] \cap Active THEN own[r][k] ELSE host[k]]
  /\ own' = [own EXCEPT ![r] = NoBlocks]
  /\ saving' = saving \ keys[r]
  /\ pc' = [pc EXCEPT ![r] = "publish"]
  /\ keys' = [keys EXCEPT ![r] = @ \cap Active]
  /\ UNCHANGED <<loc, pins, holders, pool, loading, reading, kind, snap, victims, limbo,
                 outcome>>

PollSaveFailed(r) ==
  /\ Polled(r, "save") /\ outcome[r] = "failed"
  /\ GiveBack(r)
  /\ saving' = saving \ keys[r]
  /\ End(r)
  /\ UNCHANGED <<index, loading, reading, snap, victims, limbo>>

\* The write-through task: registered or not, the pin of the save is spent.
WriteThrough(r) ==
  /\ At(r, "save", "publish")
  /\ ReleaseAll(keys[r], <<r, "caller">>)
  /\ End(r)
  /\ UNCHANGED <<loc, host, pool, marks, own, snap, victims, limbo>>

-----------------------------------------------------------------------------
(* Reads into device memory *)

\* ReadRemote: staging blocks first, then the reading marks, then the peers
\* are resolved and asked for leases.
ReadRemote(r, K) ==
  /\ Begin(r, "read", "choose", K)
  /\ UNCHANGED <<index, pool, marks, own, snap, victims, limbo>>

ReadRemoteIssue(r) ==
  /\ Unlocked
  /\ At(r, "read", "mark")
  /\ keys[r] \cap reading = {}
  /\ reading' = reading \cup keys[r]
  /\ Goto(r, "dma")
  /\ UNCHANGED <<index, pool, saving, loading, own, snap, victims, limbo>>

\* A hash is being read already, or a peer is unreachable: all is undone.  The
\* marks a refused call sets and clears only refuse others meanwhile.
ReadRemoteUndo(r) ==
  /\ At(r, "read", "mark")
  /\ GiveBack(r)
  /\ End(r)
  /\ UNCHANGED <<index, marks, snap, victims, limbo>>

\* PollRemoteReadsInternal: the staging blocks go back either way.
PollRemoteRead(r) ==
  /\ Polled(r, "read")
  /\ GiveBack(r)
  /\ reading' = reading \ keys[r]
  /\ End(r)
  /\ UNCHANGED <<index, saving, loading, snap, victims, limbo>>

\* Load of local blocks, the checks under the store's mutex.
Load(r, K) ==
  /\ Unlocked
  /\ K \subseteq Granted(r)
  /\ K \subseteq (Active \cap Pinned \cap Resident) \ loading
  /\ Begin(r, "load", "issue", K)
  /\ loading' = loading \cup K
  /\ UNCHANGED <<index, pool, saving, reading, own, snap, victims, limbo>>

\* LoadLocalHostBlocks, under the backend's mutex.
LoadIssue(r) ==
  /\ At(r, "load", "issue")
  /\ IF keys[r] \subseteq Active \cap Resident
     THEN /\ snap' = [snap EXCEPT ![r] = [k \in Key |-> IF k \in keys[r] THEN host[k] ELSE None]]
          /\ Goto(r, "dma")
     ELSE /\ pc' = [pc EXCEPT ![r] = "ready"]
          /\ outcome' = [outcome EXCEPT ![r] = "failed"]
          /\ UNCHANGED <<snap, kind, keys>>
  /\ UNCHANGED <<index, pool, marks, own, victims, limbo>>

\* PollLoadsInternal: a successful load spends the caller's pins.
PollLoad(r) ==
  /\ Polled(r, "load")
  /\ IF outcome[r] = "ok" THEN ReleaseAll(keys[r] \cap Active, <<r, "caller">>)
                          ELSE UNCHANGED <<pins, holders>>
  /\ loading' = loading \ keys[r]
  /\ snap' = [snap EXCEPT ![r] = NoBlocks]
  /\ End(r)
  /\ UNCHANGED <<loc, host, pool, saving, reading, own, victims, limbo>>

\* Load of a peer's blocks (LoadRemoteBlocks): staging blocks without eviction.
LoadRemote(r, K) ==
  /\ Unlocked
  /\ K \cap loading = {}
  /\ Begin(r, "fetch", "grab", K)
  /\ loading' = loading \cup K
  /\ UNCHANGED <<index, pool, saving, reading, own, snap, victims, limbo>>

PollLoadRemote(r) ==
  /\ Polled(r, "fetch")
  /\ loading' = loading \ keys[r]
  /\ End(r)
  /\ UNCHANGED <<index, pool, saving, reading, own, snap, victims, limbo>>

-----------------------------------------------------------------------------
(* Reads by peers *)

\* SaveRemote: the batch is marked and its block ids are taken under the
\* store's mutex, then pinned a second time, then offered.
SaveRemote(r, K) ==
  /\ Unlocked
  /\ K \subseteq Granted(r)
  /\ K \subseteq (Active \cap Pinned \cap Resident) \ saving
  /\ Begin(r, "offer", "pin", K)
  /\ saving' = saving \cup K
  /\ snap' = [snap EXCEPT ![r] = [k \in Key |-> IF k \in K THEN host[k] ELSE None]]
  /\ UNCHANGED <<index, pool, loading, reading, own, victims, limbo>>

SaveRemotePin(r) ==
  /\ At(r, "offer", "pin")
  /\ keys[r] \subseteq Stored
  /\ loc' = [k \in Key |-> IF k \in keys[r] THEN "active" ELSE loc[k]]
  /\ PinAll(keys[r], <<r, "internal">>)
  /\ Goto(r, "dma")
  /\ UNCHANGED <<host, pool, marks, own, snap, victims, limbo>>

\* Each hash of K loses one pin, or two.
ReleaseTwice(K, h, i) ==
  /\ pins' = [k \in Key |-> IF k \in K THEN Max0(pins[k] - 2) ELSE pins[k]]
  /\ holders' = [k \in Key |-> IF k \in K THEN holders[k] \ {h, i} ELSE holders[k]]

\* FinishRemoteWrite: the internal pin goes, and the caller's with a success.
FinishRemoteWrite(r, ok) ==
  /\ At(r, "offer", "dma")
  /\ IF ok THEN ReleaseTwice(keys[r], <<r, "caller">>, <<r, "internal">>)
           ELSE ReleaseAll(keys[r], <<r, "internal">>)
  /\ saving' = saving \ keys[r]
  /\ snap' = [snap EXCEPT ![r] = NoBlocks]
  /\ End(r)
  /\ UNCHANGED <<loc, host, pool, loading, reading, own, victims, limbo>>

\* Blocks served to a peer are looked up in one call of the backend and pinned
\* in the next: for a read lease under the store's mutex, for a Fetch under none.
LookUpToServe(r, op, K) ==
  /\ K \subseteq Active \cap Resident
  /\ Begin(r, op, "pin", K)
  /\ snap' = [snap EXCEPT ![r] = [k \in Key |-> IF k \in K THEN host[k] ELSE None]]
  /\ UNCHANGED <<index, pool, marks, own, victims, limbo>>

ValidateAndPinHostBlocks(r, K) == Unlocked /\ LookUpToServe(r, "lease", K)

Fetch(r, K) == LookUpToServe(r, "push", K)

\* Pin(block_hashes); with a hash gone, nothing is served.
PinHostBlocks(r) ==
  /\ kind[r] \in {"lease", "push"} /\ pc[r] = "pin"
  /\ IF keys[r] \subseteq Stored
     THEN /\ loc' = [k \in Key |-> IF k \in keys[r] THEN "active" ELSE loc[k]]
          /\ PinAll(keys[r], <<r, "internal">>)
          /\ Goto(r, "dma")
          /\ UNCHANGED snap
     ELSE /\ snap' = [snap EXCEPT ![r] = NoBlocks]
          /\ End(r)
          /\ UNCHANGED <<loc, pins, holders>>
  /\ UNCHANGED <<host, pool, marks, own, victims, limbo>>

\* UnpinHostBlocks, and the cleanup at the end of Fetch.
UnpinHostBlocks(r) ==
  /\ kind[r] \in {"lease", "push"} /\ pc[r] = "dma"
  /\ ReleaseAll(keys[r], <<r, "internal">>)
  /\ snap' = [snap EXCEPT ![r] = NoBlocks]
  /\ End(r)
  /\ UNCHANGED <<loc, host, pool, marks, own, victims, limbo>>

-----------------------------------------------------------------------------
(* Writes by peers *)

\* WriteRemote: landing blocks for hashes none of which is here.
WriteRemote(r, K) ==
  /\ K \cap Resident = {}
  /\ Begin(r, "write", "grab", K)
  /\ UNCHANGED <<index, pool, marks, own, snap, victims, limbo>>

\* InsertAllOrNothing: none of the hashes is in the map and there is room.
CanInsertAll(K) == K \cap Stored = {} /\ Cardinality(K) <= RoomWith({})

\* Fault: the landing blocks are returned although the index keeps them.
CompleteAndFree(r) ==
  /\ At(r, "write", "ready")
  /\ IF outcome[r] = "ok" /\ CanInsertAll(keys[r])
     THEN /\ \E D \in Displaced(keys[r]) : Enter(keys[r], D)
          /\ host' = [k \in Key |-> IF k \in keys[r] THEN own[r][k] ELSE host[k]]
     ELSE UNCHANGED <<loc, host>>
  /\ GiveBack(r)
  /\ End(r)
  /\ UNCHANGED <<pins, holders, marks, snap, victims, limbo>>

\* CompleteWriteRemote: the index takes the landing blocks, or they go back.
CompleteWriteRemote(r) ==
  /\ At(r, "write", "ready")
  /\ IF outcome[r] = "ok" /\ CanInsertAll(keys[r])
     THEN /\ \E D \in Displaced(keys[r]) : Enter(keys[r], D)
          /\ host' = [k \in Key |-> IF k \in keys[r] THEN own[r][k] ELSE host[k]]
          /\ own' = [own EXCEPT ![r] = NoBlocks]
          /\ UNCHANGED pool
     ELSE GiveBack(r) /\ UNCHANGED <<loc, host>>
  /\ End(r)
  /\ UNCHANGED <<pins, holders, marks, snap, victims, limbo>>

-----------------------------------------------------------------------------
Batches == {K \in SUBSET Key : Cardinality(K) \in 1 .. MaxBatch}

Start(r) ==
  \E K \in Batches :
    \/ Insert(r, K) \/ Lookup(r, K) \/ SweepPin(r, K) \/ Release(r, K)
    \/ SaveLocal(r, K) \/ ReadRemote(r, K) \/ Load(r, K) \/ LoadRemote(r, K)
    \/ SaveRemote(r, K) \/ ValidateAndPinHostBlocks(r, K) \/ Fetch(r, K)
    \/ WriteRemote(r, K) \/ Evict(r, K)

Continue(r) ==
  \/ \E kept \in SUBSET Key : LookupAnswer(r, kept)
  \/ Choose(r) \/ Erase(r) \/ Dealloc(r) \/ Grab(r)
  \/ \E ok \in BOOLEAN : Land(r, ok) \/ FinishRemoteWrite(r, ok)
  \/ PollSaveDone(r) \/ PollSaveFailed(r) \/ WriteThrough(r)
  \/ ReadRemoteIssue(r) \/ ReadRemoteUndo(r) \/ PollRemoteRead(r)
  \/ LoadIssue(r) \/ PollLoad(r) \/ PollLoadRemote(r)
  \/ GiveUp(r) \/ PinHostBlocks(r)
  \/ SaveRemotePin(r) \/ UnpinHostBlocks(r) \/ CompleteWriteRemote(r)

Next == StrayLand \/ \E r \in Actor : Start(r) \/ Continue(r)

Spec == Init /\ [][Next]_vars

-----------------------------------------------------------------------------
(* Properties *)

\* A block is bound to one hash, and allocated by one operation for one hash.
BoundOnce == \A j, k \in Key : host[j] = host[k] /\ host[k] # None => j = k

OwnedOnce ==
  \A r, s \in Actor : \A j, k \in Key :
    own[r][j] = own[s][k] /\ own[s][k] # None => r = s /\ j = k

OwnedUnbound ==
  \A r \in Actor : \A j, k \in Key : own[r][j] # None => own[r][j] # host[k]

\* Evicted blocks wait for one operation and are in none of the other places.
LimboApart ==
  \A r, s \in Actor : \A b \in limbo[r] :
    /\ b \notin free
    /\ b \in limbo[s] => r = s
    /\ \A k \in Key : host[k] # b /\ own[s][k] # b

FreeApart == \A k \in Key : host[k] \notin free /\ \A r \in Actor : own[r][k] \notin free

\* The host blocks bound by the index, allocated by operations, evicted but not
\* yet returned, and free: no block is in two of these places, or twice in one.
\* A free of a block somebody still uses, or an allocation that is bound and
\* freed, would show here.
BlockOwnership == BoundOnce /\ OwnedOnce /\ OwnedUnbound /\ LimboApart /\ FreeApart

\* Block b has the bytes of hash k, unless an abandoned transfer got at it.
Holds(b, k) == data[b] \in {k, Foreign}

\* The host block of an entry holds the bytes of its hash, and a transfer that
\* reads the host blocks of a pinned batch (a load, an offer to a peer) reads the
\* bytes of the hashes it was started for, as long as it runs; only a transfer
\* that outlived the call it belongs to can spoil them.
HostBytesIntact ==
  /\ \A k \in Resident : Holds(host[k], k)
  /\ \A r \in Actor, k \in Key :
       kind[r] \in {"load", "offer"} /\ snap[r][k] # None => Holds(snap[r][k], k)

=============================================================================
