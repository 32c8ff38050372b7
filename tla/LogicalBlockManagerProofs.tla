--------------------- MODULE LogicalBlockManagerProofs ---------------------
(***************************************************************************)
(* Machine-checked proofs about the host-block allocator, for any number   *)
(* of blocks, any set of callers and any bound on the access counter.      *)
(***************************************************************************)
EXTENDS LogicalBlockManager, TLAPS

\* The step a call takes, without the bounds of the quantifiers of Next.
Call ==
  \/ \E c \in Clients, n \in Nat, lock \in BOOLEAN : Allocate(c, n, lock)
  \/ \E c \in Clients, S \in SUBSET Block : AllocateTarget(c, S)
  \/ \E c \in Clients, S \in SUBSET Block : Unlock(c, S)
  \/ \E c \in Clients, S \in SUBSET Block : Deallocate(c, S)
  \/ \E b \in Block : AccessBlock(b)

\* Every step of Next is such a call.
LEMMA NextIsCall == Next => Call
  BY NumBlocksAssumption DEF Next, Call

\* A granting call stamps the blocks of S and leaves all stamps well formed.
LEMMA GrantTypes ==
  ASSUME TypeOK, NEW S \in SUBSET Block, Grant(S)
  PROVE  /\ lastAccess' \in [Block -> Nat]
         /\ accessCounter' \in Nat
         /\ granted' \in [Block -> Nat]
         /\ \A b \in Block : granted'[b] <= lastAccess'[b] /\ lastAccess'[b] <= accessCounter'
  BY MaxAccessAssumption DEF TypeOK, Grant, Touch

\* Type correctness: no call leaves a lock on a free block or a stamp ahead
\* of access_counter_.
THEOREM TypeCorrect == Spec => []TypeOK
<1>1. Init => TypeOK
  BY DEF Init, TypeOK
<1>2. TypeOK /\ [Next]_vars => TypeOK'
  <2> SUFFICES ASSUME TypeOK, [Next]_vars PROVE TypeOK'
    OBVIOUS
  <2>1. ASSUME NEW c \in Clients, NEW n \in Nat, NEW lock \in BOOLEAN, Allocate(c, n, lock)
        PROVE  TypeOK'
    <3>1. PICK S \in SUBSET Block :
            /\ Selected(n, S)
            /\ allocated' = allocated \cup S
            /\ locked' = IF lock THEN locked \cup S ELSE locked \ S
            /\ Grant(S)
            /\ IF lock THEN Hold(c, S) ELSE UNCHANGED held
      BY ZenonT(60), <2>1 DEF Allocate
    <3>2. held' \in [Clients -> SUBSET Block]
      BY Zenon, <3>1 DEF TypeOK, Hold
    <3>3. allocated' \subseteq Block /\ locked' \subseteq allocated'
      BY Zenon, <3>1 DEF TypeOK
    <3> QED BY Zenon, <3>1, <3>2, <3>3, GrantTypes DEF TypeOK
  <2>2. ASSUME NEW c \in Clients, NEW S \in SUBSET Block, AllocateTarget(c, S)
        PROVE  TypeOK'
    <3>1. Grant(S)
      BY Zenon, <2>2 DEF AllocateTarget
    <3> QED BY Zenon, <2>2, <3>1, GrantTypes DEF TypeOK, AllocateTarget, Hold
  <2>3. ASSUME NEW c \in Clients, NEW S \in SUBSET Block, Unlock(c, S)
        PROVE  TypeOK'
    BY Zenon, <2>3 DEF TypeOK, Unlock, Drop
  <2>4. ASSUME NEW c \in Clients, NEW S \in SUBSET Block, Deallocate(c, S)
        PROVE  TypeOK'
    BY Zenon, <2>4 DEF TypeOK, Deallocate, Drop
  <2>5. ASSUME NEW b \in Block, AccessBlock(b)
        PROVE  TypeOK'
    BY <2>5, MaxAccessAssumption DEF TypeOK, AccessBlock, Touch
  <2>6. ASSUME UNCHANGED vars
        PROVE  TypeOK'
    BY <2>6 DEF TypeOK, vars
  <2> QED BY <2>1, <2>2, <2>3, <2>4, <2>5, <2>6, NextIsCall DEF Call
<1> QED BY <1>1, <1>2, PTL DEF Spec

\* Handing out blocks that are free or unlocked keeps holdings disjoint.
LEMMA GrantOwnership ==
  ASSUME TypeOK, LockOwnership, NEW c \in Clients, NEW S \in SUBSET Block,
         S \cap locked = {},
         allocated' = allocated \cup S,
         locked' = locked \cup S,
         Hold(c, S)
  PROVE  LockOwnership'
<1>1. held' = [held EXCEPT ![c] = held[c] \cup S]
  BY Zenon DEF Hold
<1>2. \A d \in Clients : held'[d] = IF d = c THEN held[d] \cup S ELSE held[d]
  BY ZenonT(60), <1>1 DEF TypeOK
<1>3. \A d \in Clients : held[d] \cap S = {}
  BY DEF LockOwnership
<1>4. \A d, e \in Clients : d # e => held'[d] \cap held'[e] = {}
  BY ZenonT(60), <1>2, <1>3 DEF LockOwnership
<1>5. \A d \in Clients : held'[d] \subseteq allocated'
  BY ZenonT(60), <1>2 DEF LockOwnership
<1>6. UNION {held'[d] : d \in Clients} = (UNION {held[d] : d \in Clients}) \cup S
  BY ZenonT(60), <1>2
<1> QED BY Zenon, <1>4, <1>5, <1>6 DEF LockOwnership

\* Giving up a part of one's own blocks removes exactly their locks.
LEMMA DropOwnership ==
  ASSUME TypeOK, LockOwnership, NEW c \in Clients, NEW S \in SUBSET Block,
         S \subseteq held[c],
         allocated' = allocated \/ allocated' = allocated \ S,
         locked' = locked \ S,
         Drop(c, S)
  PROVE  LockOwnership'
<1>1. held' = [held EXCEPT ![c] = held[c] \ S]
  BY Zenon DEF Drop
<1>2. \A d \in Clients : held'[d] = IF d = c THEN held[d] \ S ELSE held[d]
  BY Zenon, <1>1 DEF TypeOK
<1>3. \A d \in Clients : held'[d] = held[d] \ S
  BY ZenonT(60), <1>2 DEF LockOwnership
<1>4. \A d, e \in Clients : d # e => held'[d] \cap held'[e] = {}
  BY Zenon, <1>3 DEF LockOwnership
<1>5. \A d \in Clients : held'[d] \subseteq allocated'
  BY Zenon, <1>3 DEF LockOwnership
<1>6. UNION {held'[d] : d \in Clients} = (UNION {held[d] : d \in Clients}) \ S
  BY <1>3
<1> QED BY Zenon, <1>4, <1>5, <1>6 DEF LockOwnership

\* Exclusive ownership of locked blocks (LockOwnership) holds in every
\* reachable state of the allocator.
THEOREM LockOwnershipHolds == Spec => []LockOwnership
<1>1. Init => LockOwnership
  BY DEF Init, LockOwnership
<1>2. TypeOK /\ LockOwnership /\ [Next]_vars => LockOwnership'
  <2> SUFFICES ASSUME TypeOK, LockOwnership, [Next]_vars PROVE LockOwnership'
    OBVIOUS
  <2>1. ASSUME NEW c \in Clients, NEW n \in Nat, NEW lock \in BOOLEAN, Allocate(c, n, lock)
        PROVE  LockOwnership'
    <3>1. PICK S \in SUBSET Block :
            /\ Selected(n, S)
            /\ allocated' = allocated \cup S
            /\ locked' = IF lock THEN locked \cup S ELSE locked \ S
            /\ IF lock THEN Hold(c, S) ELSE UNCHANGED held
      BY ZenonT(60), <2>1 DEF Allocate
    <3>2. S \cap locked = {}
      BY Zenon, <3>1 DEF Selected, Free, Evictable, TypeOK
    <3>3. CASE lock
      BY Zenon, <3>1, <3>2, <3>3, GrantOwnership
    <3>4. CASE ~lock
      <4>1. locked' = locked /\ held' = held
        BY Zenon, <3>1, <3>2, <3>4
      <4> QED BY Zenon, <3>1, <4>1 DEF LockOwnership
    <3> QED BY Zenon, <3>3, <3>4
  <2>2. ASSUME NEW c \in Clients, NEW S \in SUBSET Block, AllocateTarget(c, S)
        PROVE  LockOwnership'
    <3>1. S \cap locked = {}
      BY Zenon, <2>2 DEF AllocateTarget, TypeOK
    <3> QED BY Zenon, <2>2, <3>1, GrantOwnership DEF AllocateTarget
  <2>3. ASSUME NEW c \in Clients, NEW S \in SUBSET Block, Unlock(c, S)
        PROVE  LockOwnership'
    BY Zenon, <2>3, DropOwnership DEF Unlock
  <2>4. ASSUME NEW c \in Clients, NEW S \in SUBSET Block, Deallocate(c, S)
        PROVE  LockOwnership'
    BY Zenon, <2>4, DropOwnership DEF Deallocate
  <2>5. ASSUME NEW b \in Block, AccessBlock(b)
        PROVE  LockOwnership'
    BY Zenon, <2>5 DEF AccessBlock, LockOwnership
  <2>6. ASSUME UNCHANGED vars
        PROVE  LockOwnership'
    BY <2>6 DEF LockOwnership, vars
  <2> QED BY <2>1, <2>2, <2>3, <2>4, <2>5, <2>6, NextIsCall DEF Call
<1> QED BY <1>1, <1>2, TypeCorrect, PTL DEF Spec

\* The body of EvictionIsLastResort.
LastResort ==
  \A b \in Evictable : granted'[b] # granted[b] =>
     /\ \A f \in Free : granted'[f] # granted[f]
     /\ \A s \in Evictable :
          granted'[s] = granted[s] => lastAccess[b] <= lastAccess[s]

\* The LRU takeover inside Allocate is a last resort and spares the more
\* recently used blocks, for every sequence of calls.
THEOREM EvictionIsLastResortHolds == Spec => EvictionIsLastResort
<1>1. TypeOK /\ [Next]_vars => [LastResort]_vars
  <2> SUFFICES ASSUME TypeOK, Next PROVE LastResort
    OBVIOUS
  <2>1. ASSUME NEW c \in Clients, NEW n \in Nat, NEW lock \in BOOLEAN, Allocate(c, n, lock)
        PROVE  LastResort
    <3>1. PICK S \in SUBSET Block : Selected(n, S) /\ Grant(S)
      BY Zenon, <2>1 DEF Allocate
    <3>2. \A b \in Block : granted'[b] # granted[b] <=> b \in S
      BY <3>1 DEF Grant, TypeOK
    <3>3. ASSUME NEW b \in Evictable, b \in S
          PROVE  /\ Free \subseteq S
                 /\ \A s \in Evictable \ S : lastAccess[b] <= lastAccess[s]
      BY <3>1, <3>3 DEF Selected, LessRecent, TypeOK, Evictable, Block
    <3> QED BY Zenon, <3>2, <3>3 DEF LastResort, TypeOK, Evictable, Free
  <2>2. ASSUME NEW c \in Clients, NEW S \in SUBSET Block, AllocateTarget(c, S)
        PROVE  LastResort
    <3>1. \A b \in Evictable : granted'[b] = granted[b]
      BY Zenon, <2>2 DEF AllocateTarget, Grant, Evictable, TypeOK
    <3> QED BY Zenon, <3>1 DEF LastResort
  <2>3. ASSUME granted' = granted PROVE LastResort
    BY Zenon, <2>3 DEF LastResort
  <2> QED
    BY ZenonT(60), <2>1, <2>2, <2>3, NextIsCall DEF Call, Unlock, Deallocate, AccessBlock
<1> QED BY <1>1, TypeCorrect, PTL DEF Spec, EvictionIsLastResort, LastResort
=============================================================================
