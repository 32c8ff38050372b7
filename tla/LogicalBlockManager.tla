------------------------ MODULE LogicalBlockManager ------------------------
(***************************************************************************)
(* The host-block allocator (kv_cache/logical_block_manager.cc).  Every    *)
(* host DRAM block of a node is handed out by one instance, which the      *)
(* RaidenController guards with its mutex, so each call is one step.       *)
(* A block is free, allocated and locked, or allocated and unlocked; an    *)
(* unlocked block keeps its contents but may be taken by Allocate, least   *)
(* recently used first.                                                    *)
(*                                                                         *)
(* The clients are the callers: a client keeps the ids a locking call gave *)
(* it in held[c] until it passes them to Unlock or Deallocate.             *)
(***************************************************************************)
EXTENDS Integers, FiniteSets

CONSTANTS NumBlocks,    \* total_blocks_
          Clients,      \* callers holding block ids
          MaxAccess     \* bound on access_counter_ (uint64_t in the code)

ASSUME NumBlocksAssumption == NumBlocks \in Nat \ {0}
ASSUME MaxAccessAssumption == MaxAccess \in Nat

VARIABLES allocated,      \* {b : blocks_[b].is_allocated}
          locked,         \* {b : blocks_[b].is_locked}
          lastAccess,     \* blocks_[b].last_access_counter
          accessCounter,  \* access_counter_
          held,           \* the locked ids each caller still owns
          granted         \* history: the stamp of the call that granted a block

vars == <<allocated, locked, lastAccess, accessCounter, held, granted>>

Block == 0..(NumBlocks - 1)

Free == Block \ allocated

Evictable == allocated \ locked

\* The state is well formed: only allocated blocks carry a lock (Deallocate
\* lines 176-179 clear both bits), and no stamp is ahead of the counter.
TypeOK ==
  /\ allocated \subseteq Block
  /\ locked \subseteq allocated
  /\ lastAccess \in [Block -> Nat]
  /\ accessCounter \in Nat
  /\ held \in [Clients -> SUBSET Block]
  /\ granted \in [Block -> Nat]
  /\ \A b \in Block : granted[b] <= lastAccess[b] /\ lastAccess[b] <= accessCounter

Init ==
  /\ allocated = {}
  /\ locked = {}
  /\ lastAccess = [b \in Block |-> 0]
  /\ accessCounter = 0
  /\ held = [c \in Clients |-> {}]
  /\ granted = [b \in Block |-> 0]

\* The order of the std::sort comparator: least recently accessed first.
LessRecent(a, b) ==
  \/ lastAccess[a] < lastAccess[b]
  \/ lastAccess[a] = lastAccess[b] /\ a < b

\* Fault: the evictable list also contains locked blocks.
SelectedLockedToo(n, S) ==
  /\ S \subseteq Free \cup allocated
  /\ Cardinality(S) = n
  /\ S \cap allocated # {} => Free \subseteq S
  /\ \A a \in S \cap allocated, b \in allocated \ S : LessRecent(a, b)

\* The n blocks an allocation takes: free ones in id order, and only when
\* they run out the least recently used unlocked ones.
Selected(n, S) ==
  /\ S \subseteq Free \cup Evictable
  /\ Cardinality(S) = n
  /\ \A a \in S \cap Free, b \in Free \ S : a < b
  /\ S \cap Evictable # {} => Free \subseteq S
  /\ \A a \in S \cap Evictable, b \in Evictable \ S : LessRecent(a, b)

Touch(S) ==
  /\ accessCounter < MaxAccess
  /\ accessCounter' = accessCounter + 1
  /\ lastAccess' = [b \in Block |-> IF b \in S THEN accessCounter + 1
                                               ELSE lastAccess[b]]

\* The blocks of S start a new life under the stamp of this call.
Grant(S) ==
  /\ Touch(S)
  /\ granted' = [b \in Block |-> IF b \in S THEN accessCounter + 1 ELSE granted[b]]

Hold(c, S) == held' = [held EXCEPT ![c] = @ \cup S]

Drop(c, S) == held' = [held EXCEPT ![c] = @ \ S]

\* Allocate(n, lock).  Too few free and unlocked blocks: no S is selected
\* and the call returns RESOURCE_EXHAUSTED with nothing changed.
Allocate(c, n, lock) ==
  \E S \in SUBSET Block :
    /\ Selected(n, S)
    /\ allocated' = allocated \cup S
    /\ locked' = IF lock THEN locked \cup S ELSE locked \ S
    /\ Grant(S)
    /\ IF lock THEN Hold(c, S) ELSE UNCHANGED held

\* AllocateTarget(ids): exactly these ids, all of them free, locked.
AllocateTarget(c, S) ==
  /\ S \cap allocated = {}
  /\ allocated' = allocated \cup S
  /\ locked' = locked \cup S
  /\ Grant(S)
  /\ Hold(c, S)

\* Unlock(ids): the caller gives the blocks up but leaves their contents.
Unlock(c, S) ==
  /\ S \subseteq held[c]
  /\ S \subseteq allocated
  /\ locked' = locked \ S
  /\ Drop(c, S)
  /\ UNCHANGED <<allocated, lastAccess, accessCounter, granted>>

\* Deallocate(ids): back to the free pool, whether locked or not.
Deallocate(c, S) ==
  /\ S \subseteq held[c]
  /\ S \subseteq allocated
  /\ allocated' = allocated \ S
  /\ locked' = locked \ S
  /\ Drop(c, S)
  /\ UNCHANGED <<lastAccess, accessCounter, granted>>

\* AccessBlock(id): refresh the recency stamp.
AccessBlock(b) ==
  /\ b \in allocated
  /\ Touch({b})
  /\ UNCHANGED <<allocated, locked, held, granted>>

Next ==
  \/ \E c \in Clients, n \in 1..NumBlocks, lock \in BOOLEAN : Allocate(c, n, lock)
  \/ \E c \in Clients, S \in SUBSET Block : AllocateTarget(c, S)
  \/ \E c \in Clients, S \in SUBSET Block \ {{}} : Unlock(c, S)
  \/ \E c \in Clients, S \in SUBSET Block \ {{}} : Deallocate(c, S)
  \/ \E b \in Block : AccessBlock(b)

Spec == Init /\ [][Next]_vars

-----------------------------------------------------------------------------
(* Properties *)

\* A block locked for one caller is never handed to another: whatever mix of
\* Allocate, AllocateTarget, Unlock and Deallocate runs, two callers hold
\* disjoint sets of blocks, every block held is still allocated, and the
\* locked blocks are exactly the held ones, so no lock outlives its holder
\* (Allocate lines 44-98 may only take free and unlocked blocks, Deallocate
\* lines 176-179 clear both bits).
LockOwnership ==
  /\ \A c, d \in Clients : c # d => held[c] \cap held[d] = {}
  /\ \A c \in Clients : held[c] \subseteq allocated
  /\ locked = UNION {held[c] : c \in Clients}

\* An allocation takes over an unlocked block only when it also takes every
\* free one, and never a block used more recently than an unlocked block it
\* spares (Allocate lines 68-98): contents left addressable by Unlock survive
\* as long as the pool allows.
EvictionIsLastResort ==
  [][\A b \in Evictable : granted'[b] # granted[b] =>
        /\ \A f \in Free : granted'[f] # granted[f]
        /\ \A s \in Evictable :
             granted'[s] = granted[s] => lastAccess[b] <= lastAccess[s]]_vars
=============================================================================
