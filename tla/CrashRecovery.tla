--------------------------- MODULE CrashRecovery ---------------------------
(***************************************************************************)
(* The crash-persistent mirror of the host index.  The bytes of the host   *)
(* blocks (SharedMemoryHostMemoryAllocator) and a table with one slot per  *)
(* block (KVCacheMetadata) live in two shared-memory segments, which       *)
(* survive the process; the index, the block pool and the transfers do     *)
(* not.  A crash can fall between any two stores to a slot.  At start each *)
(* segment is attached to if its header fits, and made anew otherwise.     *)
(* Then the store is created, and serves its peers' writes, before an      *)
(* attached table is read back into the index (RecoverFromLocalManifest);  *)
(* if that fails the table is formatted.                                   *)
(*                                                                         *)
(* The backend's mutex serialises the writers of the table, so there is    *)
(* one sequence of pending stores, and a crash drops the rest of it.       *)
(* Reformat alone takes no mutex: it may fall between two of them.         *)
(***************************************************************************)
EXTENDS Integers, Sequences, FiniteSets

CONSTANTS
    Hash,       \* prefix hashes
    Config,     \* how the process may be started: records of
                \*   uid     RAIDEN_SHM_MODEL_UID
                \*   slots   lru_capacity, the size of the table
                \*   blocks  the number of host blocks
                \*   layout  the size and shape of a block
    None,
    MaxSeq,     \* bound on the recency stamps
    MaxCrashes  \* bound on the crashes

PoolOf(c) == 0 .. c.blocks - 1
TableOf(c) == 0 .. c.slots - 1

HostBlock == UNION {PoolOf(c) \cup TableOf(c) : c \in Config}

\* Assumed of the deployment, and enforced nowhere: the model uid fixes the shape of
\* a block, and with the capacity of the index the number of host blocks.
ASSUME ConfigAssumption ==
    /\ MaxSeq \in Nat /\ MaxCrashes \in Nat /\ None \notin Hash \cup HostBlock
    /\ \A c \in Config : c # None /\ c.slots \in Nat /\ c.blocks \in Nat
    /\ \A c, d \in Config : c.uid = d.uid =>
          c.layout = d.layout /\ (c.slots = d.slots => c.blocks = d.blocks)

VARIABLES
    \* shared memory
    header,     \* header of the metadata segment
    slot,       \* its slots
    schema,     \* header of the data segment
    data,       \* the bytes of its blocks
    \* the process
    config,     \* how it was started; None while it is down
    phase,      \* how far the start has come
    host,       \* the index: the host block of a hash, or None
    free,       \* the block pool
    landing,    \* blocks granted to a transfer: the hash they are for
    toFree,     \* blocks of evicted entries, not yet deallocated
    nextSeq,    \* next_metadata_seq_
    todo,       \* the stores left in the current critical section
    \* history
    crashes,
    atRest,     \* config and index at the last crash, if no store was pending
    served,     \* a peer's write was granted a block before recovery was over
    early,      \* <<b, h>>: such a write overwrote b, whose slot named h
    lost        \* hashes that were bound when the table was formatted

table == <<header, slot>>
pool == <<schema, data>>
memory == <<table, pool>>
process == <<config, phase, host, free, landing, toFree, nextSeq, todo>>
history == <<crashes, atRest, served, early, lost>>
rvars == <<memory, process, history>>

\* down; created: the table was attached; checked: the index was found empty; refused:
\* recovery is not possible; up: the constructor of the wrapper is over.
Phases == {"down", "created", "checked", "refused", "up"}

EmptySlot == [valid |-> 0, hash |-> None, seq |-> 0]
Bytes == (Hash \X {c.layout : c \in Config}) \cup {None}
Stores == [at : HostBlock, do : {"invalidate", "commit"}]
          \cup [at : HostBlock, do : {"fields"}, hash : Hash, seq : 0 .. MaxSeq]

\* Every variable keeps its type.
RecTypeOK ==
    /\ slot \in [HostBlock -> [valid : {0, 1}, hash : Hash \cup {None}, seq : 0 .. MaxSeq]]
    /\ data \in [HostBlock -> Bytes]
    /\ config \in Config \cup {None} /\ phase \in Phases
    /\ host \in [Hash -> HostBlock \cup {None}]
    /\ free \subseteq HostBlock
    /\ landing \in [HostBlock -> Hash \cup {None}]
    /\ toFree \subseteq HostBlock
    /\ nextSeq \in 0 .. MaxSeq + 1
    /\ todo \in Seq(Stores)
    /\ crashes \in 0 .. MaxCrashes
    /\ served \in BOOLEAN
    /\ early \subseteq HostBlock \X Hash
    /\ lost \subseteq Hash

\* What Attach and the allocator compare in the header of their segment.
TableHeader(c) == <<c.uid, c.slots>>
PoolHeader(c) == <<c.uid, c.blocks>>

Running == phase # "down"
Idle == Running /\ todo = <<>>

-----------------------------------------------------------------------------
(* The table. *)

\* Fault: the slot is not invalidated before its fields are written.
SetInPlace(b, h, seq) ==
    <<[at |-> b, do |-> "commit"], [at |-> b, do |-> "fields", hash |-> h, seq |-> seq]>>

\* KVCacheMetadata::Set, as the stores it makes.
Set(b, h, seq) ==
    <<[at |-> b, do |-> "invalidate"],
      [at |-> b, do |-> "fields", hash |-> h, seq |-> seq],
      [at |-> b, do |-> "commit"]>>

\* KVCacheMetadata::Clear.
Clear(b) == <<[at |-> b, do |-> "invalidate"]>>

\* SetMetadataEntry: a block past the end of the table is not recorded.
SetMetadataEntry(h, b) ==
    /\ nextSeq <= MaxSeq
    /\ nextSeq' = nextSeq + 1
    /\ todo' = IF b \in TableOf(config) THEN Set(b, h, nextSeq) ELSE <<>>

\* ClearMetadataEntry.
ClearMetadataEntry(b) ==
    todo' = IF b \in TableOf(config) THEN Clear(b) ELSE <<>>

\* One store of the current critical section reaches shared memory.
Store ==
    /\ Running /\ todo # <<>>
    /\ LET w == Head(todo)
       IN  slot' = [slot EXCEPT ![w.at] =
               CASE w.do = "invalidate" -> [@ EXCEPT !.valid = 0]
                 [] w.do = "commit"     -> [@ EXCEPT !.valid = 1]
                 [] w.do = "fields"     -> [@ EXCEPT !.hash = w.hash, !.seq = w.seq]]
    /\ todo' = Tail(todo)
    /\ UNCHANGED <<header, pool, config, phase, host, free, landing, toFree, nextSeq, history>>

\* KVCacheMetadata::ValidEntries.
ValidEntries == {b \in HostBlock : slot[b].valid # 0 /\ slot[b].hash # None}

-----------------------------------------------------------------------------
(* The process. *)

\* A transfer is granted a block, and starts to overwrite it.  Until the constructor
\* is over it is a write of a peer, and the slot of the block may still be valid.
GrantBlock(h, b) ==
    /\ Running
    /\ b \in free
    /\ free' = free \ {b}
    /\ landing' = [landing EXCEPT ![b] = h]
    /\ data' = [data EXCEPT ![b] = None]
    /\ served' = (served \/ phase # "up")
    /\ early' = IF phase # "up" THEN early \cup (({b} \cap ValidEntries) \X {slot[b].hash})
                               ELSE {e \in early : e[1] # b}
    /\ UNCHANGED <<table, schema, config, phase, host, toFree, nextSeq, todo, crashes, atRest, lost>>

\* The transfer of block b is complete.
Land(b) ==
    /\ Running
    /\ landing[b] # None /\ data[b] = None
    /\ data' = [data EXCEPT ![b] = <<landing[b], config.layout>>]
    /\ UNCHANGED <<table, schema, process, history>>

\* It failed, or its hash is resident by now: the block goes back.
Discard(b) ==
    /\ Running
    /\ landing[b] # None
    /\ landing' = [landing EXCEPT ![b] = None]
    /\ free' = free \cup {b}
    /\ UNCHANGED <<memory, config, phase, host, toFree, nextSeq, todo, history>>

\* Insert of a landed block for a hash that has no host copy.
Insert(b) ==
    /\ Idle
    /\ landing[b] # None /\ data[b] # None
    /\ host[landing[b]] = None
    /\ host' = [host EXCEPT ![landing[b]] = b]
    /\ landing' = [landing EXCEPT ![b] = None]
    /\ SetMetadataEntry(landing[b], b)
    /\ lost' = lost \ {landing[b]}
    /\ UNCHANGED <<memory, config, phase, free, toFree, crashes, atRest, served, early>>

\* Insert of a hash that is resident: a local load refreshes its entry.
Reinsert(h) ==
    /\ Idle /\ phase = "up"
    /\ host[h] # None
    /\ SetMetadataEntry(h, host[h])
    /\ lost' = lost \ {h}
    /\ UNCHANGED <<memory, config, phase, host, free, landing, toFree, crashes, atRest, served, early>>

\* Evict: the slot is cleared and the entry erased under the mutex.
Evict(h) ==
    /\ Idle
    /\ host[h] # None
    /\ host' = [host EXCEPT ![h] = None]
    /\ toFree' = toFree \cup {host[h]}
    /\ ClearMetadataEntry(host[h])
    /\ lost' = lost \ {h}
    /\ UNCHANGED <<memory, config, phase, free, landing, nextSeq, crashes, atRest, served, early>>

\* KVCacheStore::Evict then deallocates the block, outside the mutex.
DeallocateBlockIds(b) ==
    /\ Running
    /\ b \in toFree
    /\ \A i \in DOMAIN todo : todo[i].at # b
    /\ toFree' = toFree \ {b}
    /\ free' = free \cup {b}
    /\ UNCHANGED <<memory, config, phase, host, landing, nextSeq, todo, history>>

\* The process dies, between any two stores.  One that dies before it has recovered
\* leaves the table as it found it, if it has served no write.
Crash ==
    /\ Running /\ crashes < MaxCrashes
    /\ crashes' = crashes + 1
    /\ atRest' = CASE todo # <<>>                  -> None
                   [] phase = "up"                -> [config |-> config, host |-> host, lost |-> lost]
                   [] phase # "up" /\ todo = <<>> -> IF served THEN None ELSE atRest
    /\ config' = None /\ phase' = "down"
    /\ host' = [h \in Hash |-> None]
    /\ free' = {}
    /\ landing' = [b \in HostBlock |-> None]
    /\ toFree' = {}
    /\ nextSeq' = 0
    /\ todo' = <<>>
    /\ served' = FALSE /\ lost' = {}
    /\ UNCHANGED <<memory, early>>

-----------------------------------------------------------------------------
(* Start and recovery. *)

\* Format: a table of invalid slots under the header of c.
Format(c) ==
    /\ header' = TableHeader(c) /\ slot' = [b \in HostBlock |-> EmptySlot]
    /\ early' = {}

\* The data segment the allocator hands out: attached if the header fits.
AttachPool(c) ==
    /\ schema' = PoolHeader(c)
    /\ data' = IF schema = PoolHeader(c) THEN data ELSE [b \in HostBlock |-> None]

\* The slot recovery keeps for a hash: the latest stamp, the lower id on a tie.
Newest(h) ==
    LET claims == {b \in ValidEntries : slot[b].hash = h}
    IN  CHOOSE b \in claims : \A a \in claims :
            slot[a].seq < slot[b].seq \/ (slot[a].seq = slot[b].seq /\ b <= a)

Recoverable == {Newest(slot[b].hash) : b \in ValidEntries}

\* The slots it clears: older claims to a hash.
Stale == ValidEntries \ Recoverable

\* next_metadata_seq_ after recovery.
SeqAfterRecovery ==
    LET stamps == {slot[b].seq : b \in Recoverable}
    IN  (CHOOSE q \in stamps : \A r \in stamps : r <= q) + 1

\* The one enumeration of a set of block ids in ascending order.
Ascending(S) ==
    {q \in [1 .. Cardinality(S) -> S] : \A i, j \in DOMAIN q : i < j => q[i] < q[j]}

\* Fault: a surviving table is never attached.
FormatAlways(c) == phase' = "up" /\ Format(c)

\* AttachOrFormat: only a table that was attached (warm) is recovered from.
AttachOrFormat(c) ==
    IF header = TableHeader(c)
    THEN phase' = "created" /\ UNCHANGED <<table, early>>
    ELSE phase' = "up" /\ Format(c)

\* The wrapper's constructor up to the end of KVCacheStore::Create: both segments are
\* attached or made anew, and the store serves.
Start(c) ==
    /\ ~Running
    /\ config' = c
    /\ AttachPool(c)
    /\ AttachOrFormat(c)
    /\ free' = PoolOf(c)
    /\ UNCHANGED <<host, landing, toFree, nextSeq, todo, crashes, atRest, served, lost>>

\* KVCacheStore::RecoverFromLocalManifest refuses an index that is not empty.
CheckEmpty ==
    /\ Idle /\ phase = "created"
    /\ phase' = IF \A h \in Hash : host[h] = None THEN "checked" ELSE "refused"
    /\ UNCHANGED <<memory, config, host, free, landing, toFree, nextSeq, todo, history>>

\* HostOffloadBackend::RecoverFromLocalManifest, under its mutex: the newest slot of
\* each hash is bound again and its block taken out of the pool, the other slots are
\* cleared.  A block that does not exist or is taken by now refuses all of it.
RecoverFromLocalManifest ==
    /\ Idle /\ phase = "checked"
    /\ IF Recoverable \subseteq free
       THEN /\ phase' = "up"
            /\ host' = [h \in Hash |-> IF \E b \in ValidEntries : slot[b].hash = h
                                       THEN Newest(h) ELSE host[h]]
            /\ free' = free \ Recoverable
            /\ nextSeq' = IF ValidEntries = {} THEN nextSeq ELSE SeqAfterRecovery
            /\ \E q \in Ascending(Stale) :
                  todo' = [i \in DOMAIN q |-> [at |-> q[i], do |-> "invalidate"]]
       ELSE phase' = "refused" /\ UNCHANGED <<host, free, nextSeq, todo>>
    /\ UNCHANGED <<memory, config, landing, toFree, history>>

\* KVCacheMetadataShmRegion::Reformat, beside whatever is being stored.
Reformat ==
    /\ phase = "refused"
    /\ phase' = "up"
    /\ Format(config)
    /\ lost' = {h \in Hash : host[h] # None}
    /\ UNCHANGED <<pool, config, host, free, landing, toFree, nextSeq, todo, crashes, atRest, served>>

RecInit ==
    /\ header = None /\ slot = [b \in HostBlock |-> EmptySlot]
    /\ schema = None /\ data = [b \in HostBlock |-> None]
    /\ config = None /\ phase = "down"
    /\ host = [h \in Hash |-> None]
    /\ free = {}
    /\ landing = [b \in HostBlock |-> None]
    /\ toFree = {}
    /\ nextSeq = 0
    /\ todo = <<>>
    /\ crashes = 0
    /\ atRest = None /\ served = FALSE /\ early = {} /\ lost = {}

RecNext ==
    \/ Store \/ Crash \/ CheckEmpty \/ RecoverFromLocalManifest \/ Reformat
    \/ \E h \in Hash, b \in HostBlock : GrantBlock(h, b)
    \/ \E b \in HostBlock : Land(b) \/ Discard(b) \/ Insert(b) \/ DeallocateBlockIds(b)
    \/ \E h \in Hash : Reinsert(h) \/ Evict(h)
    \/ \E c \in Config : Start(c)

RecSpec == RecInit /\ [][RecNext]_rvars

-----------------------------------------------------------------------------
(* Properties. *)

\* A hash is bound to a block that holds its bytes in the layout the process
\* reads, whatever crashed and was recovered before.  Excused are the blocks that a
\* peer's write overwrote before the table was read back: the slot still names the
\* hash, and if the write is given up before recovery nothing tells.
BoundBytesIntact ==
    \A h \in Hash : host[h] # None =>
        \/ data[host[h]] = <<h, config.layout>>
        \/ <<host[h], h>> \in early

\* A crash outside a critical section loses nothing: the same configuration comes
\* back with the same bindings, as far as the table can record them, if no write of
\* a peer came before the recovery.  (What was bound when a refused table was
\* formatted is not recorded any more.)
CleanCrashLosesNothing ==
    [][/\ phase # "up" /\ phase' = "up" /\ ~served
       /\ atRest # None /\ atRest.config = config'
       => \A h \in Hash \ atRest.lost :
             host'[h] = IF atRest.host[h] \in TableOf(config') THEN atRest.host[h] ELSE None]_rvars

=============================================================================
