------------------------- MODULE KVCacheStoreProofs -------------------------
(***************************************************************************)
(* Proof that every host block has one place and every pin one holder, for *)
(* any number of actors, hashes and blocks and any capacity: the first two *)
(* layers of KVCacheStoreInv.  What makes the first inductive is when an   *)
(* operation may own blocks: only between the allocation and the step that *)
(* gives them to the index or back to the pool, and only for the hashes of *)
(* its batch, so that a step that starts or ends an operation cannot drop  *)
(* or free blocks of somebody else.  The second counts: a pin count is the *)
(* number of holders, a pinned entry is active, and an operation that will *)
(* spend pins has them.                                                    *)
(***************************************************************************)
EXTENDS KVCacheStoreInv, FiniteSetTheorems, TLAPS

-----------------------------------------------------------------------------
\* Blocks change places only with one of these variables.
LEMMA PlacesUnchanged ==
  ASSUME BlockOwnership, UNCHANGED <<host, own, limbo, free>>
  PROVE  BlockOwnership'
BY DEF BlockOwnership, BoundOnce, OwnedOnce, OwnedUnbound, LimboApart, FreeApart

\* An idle actor owns nothing.
LEMMA IdleOwnsNothing ==
  ASSUME IInv, NEW r \in Actor, ~MayOwn(r)
  PROVE  \A k \in Key : own[r][k] = None
BY Zenon DEF IInv, OwnedInBatch

LEMMA InitHolds == Init => IInv
BY SetsAssumption
   DEF Init, IInv, BlockTypes, OwnedInBatch, Allocating, BlockOwnership, BoundOnce, OwnedOnce,
       OwnedUnbound, LimboApart, FreeApart, NoBlocks, MaybeBlock

\* An operation begins: its actor was idle, so it owns nothing.
LEMMA BeginStep ==
  ASSUME IInv, NEW r \in Actor, NEW op, NEW at, NEW K \in SUBSET Key, Begin(r, op, at, K),
         op \in {"lookup", "save", "read", "load", "fetch", "offer", "lease", "push",
                 "write", "evict"},
         at \in {"answer", "choose", "erase", "grab", "pin", "issue"},
         at = "choose" => op \in {"save", "read"},
         at = "erase" => op = "evict",
         at = "grab" => op \in {"fetch", "write"},
         victims' \in [Actor -> SUBSET Key], UNCHANGED <<host, own, limbo, free>>
  PROVE  IInv'
<1>1. \A k \in Key : own[r][k] = None
  BY Zenon, IdleOwnsNothing DEF Begin, MayOwn
<1>2. BlockTypes'
  BY ZenonT(60) DEF IInv, BlockTypes, Begin
<1>3. OwnedInBatch'
  BY Zenon, <1>1 DEF IInv, BlockTypes, OwnedInBatch, MayOwn, Begin
<1>4. Allocating'
  BY Zenon DEF IInv, BlockTypes, Allocating, Begin
<1>5. BlockOwnership'
  BY Zenon, PlacesUnchanged DEF IInv
<1> QED BY Zenon, <1>2, <1>3, <1>4, <1>5 DEF IInv

\* An operation without blocks ends.
LEMMA EndStep ==
  ASSUME IInv, NEW r \in Actor, ~MayOwn(r), End(r), UNCHANGED <<host, own, limbo, free, victims>>
  PROVE  IInv'
<1>1. \A k \in Key : own[r][k] = None
  BY Zenon, IdleOwnsNothing
<1>2. BlockTypes'
  BY Zenon DEF IInv, BlockTypes, End
<1>3. OwnedInBatch'
  BY <1>1 DEF IInv, BlockTypes, OwnedInBatch, MayOwn, End
<1>4. Allocating'
  BY Zenon DEF IInv, BlockTypes, Allocating, End
<1>5. BlockOwnership'
  BY Zenon, PlacesUnchanged DEF IInv
<1> QED BY Zenon, <1>2, <1>3, <1>4, <1>5 DEF IInv

\* An operation without blocks goes from one step to another that owns none either.
LEMMA GotoStep ==
  ASSUME IInv, NEW r \in Actor, NEW at, pc' = [pc EXCEPT ![r] = at], UNCHANGED <<kind, keys>>,
         at \in {"erase", "grab", "dma", "ready"}, ~MayOwn(r),
         at \in {"erase", "grab"} => kind[r] \in {"save", "read"},
         victims' \in [Actor -> SUBSET Key], UNCHANGED <<host, own, limbo, free>>
  PROVE  IInv'
<1>1. \A k \in Key : own[r][k] = None
  BY Zenon, IdleOwnsNothing
<1>2. BlockTypes'
  BY ZenonT(60) DEF IInv, BlockTypes
<1>3. OwnedInBatch'
  BY Zenon, <1>1 DEF IInv, BlockTypes, OwnedInBatch, MayOwn
<1>4. Allocating'
  BY Zenon DEF IInv, BlockTypes, Allocating
<1>5. BlockOwnership'
  BY Zenon, PlacesUnchanged DEF IInv
<1> QED BY Zenon, <1>2, <1>3, <1>4, <1>5 DEF IInv

\* The blocks of an operation go back to the pool and it owns none any more.
LEMMA GivenBack ==
  ASSUME IInv, NEW r \in Actor, free' = free \cup Owned(r),
         own' = [own EXCEPT ![r] = NoBlocks], UNCHANGED <<host, limbo>>
  PROVE  /\ free' \subseteq Block
         /\ own' \in [Actor -> [Key -> MaybeBlock]]
         /\ \A k \in Key : own'[r][k] = None
         /\ BlockOwnership'
<1> USE SetsAssumption
<1>1. Owned(r) \subseteq Block
  BY DEF IInv, BlockTypes, Owned, MaybeBlock
<1>2. free' \subseteq Block
  BY Zenon, <1>1 DEF IInv, BlockTypes
<1>3. own' \in [Actor -> [Key -> MaybeBlock]]
  BY Zenon DEF IInv, BlockTypes, NoBlocks, MaybeBlock
<1>4. /\ \A k \in Key : own'[r][k] = None
      /\ \A s \in Actor : s # r => own'[s] = own[s]
  BY Zenon DEF IInv, BlockTypes, NoBlocks
<1>5. \A b \in Owned(r) : \E j \in Key : own[r][j] = b /\ b # None
  BY Zenon DEF IInv, BlockTypes, Owned
<1>6. BoundOnce'
  BY Zenon DEF IInv, BlockOwnership, BoundOnce
<1>7. OwnedOnce'
  <2> SUFFICES ASSUME NEW s \in Actor, NEW t \in Actor, NEW j \in Key, NEW k \in Key,
                      own'[s][j] = own'[t][k], own'[t][k] # None
               PROVE  s = t /\ j = k
    BY DEF OwnedOnce
  <2>1. s # r /\ t # r
    BY Zenon, <1>4
  <2> QED BY <2>1, <1>4 DEF IInv, BlockOwnership, OwnedOnce
<1>8. OwnedUnbound'
  BY <1>4 DEF IInv, BlockOwnership, OwnedUnbound
<1>9. LimboApart'
  <2> SUFFICES ASSUME NEW s \in Actor, NEW t \in Actor, NEW b \in limbo[s]
               PROVE  /\ b \notin free'
                      /\ b \in limbo[t] => s = t
                      /\ \A k \in Key : host[k] # b /\ own'[t][k] # b
    BY DEF LimboApart
  <2>1. b \in Block /\ b # None
    BY Zenon DEF IInv, BlockTypes
  <2>2. b \notin free'
    BY <1>5 DEF IInv, BlockOwnership, LimboApart
  <2>3. \A k \in Key : own'[t][k] # b
    BY <2>1, <1>4 DEF IInv, BlockOwnership, LimboApart
  <2> QED BY Zenon, <2>2, <2>3 DEF IInv, BlockOwnership, LimboApart
<1>10. FreeApart'
  <2> SUFFICES ASSUME NEW k \in Key
               PROVE  host[k] \notin free' /\ \A s \in Actor : own'[s][k] \notin free'
    BY Zenon DEF FreeApart
  <2>1. host[k] \notin free'
    BY <1>5 DEF IInv, BlockOwnership, OwnedUnbound, FreeApart
  <2>2. ASSUME NEW s \in Actor PROVE own'[s][k] \notin free'
    <3>1. CASE s = r
      BY Zenon, <3>1, <1>2, <1>4
    <3>2. CASE s # r
      BY <3>2, <1>4, <1>5 DEF IInv, BlockOwnership, OwnedOnce, FreeApart
    <3> QED BY Zenon, <3>1, <3>2
  <2> QED BY Zenon, <2>1, <2>2
<1>11. BlockOwnership'
  BY Zenon, <1>6, <1>7, <1>8, <1>9, <1>10 DEF BlockOwnership
<1> QED BY Zenon, <1>2, <1>3, <1>4, <1>11

\* The operation gives its blocks back and ends.
LEMMA GiveBackEnd ==
  ASSUME IInv, NEW r \in Actor, GiveBack(r), End(r), UNCHANGED <<host, limbo, victims>>
  PROVE  IInv'
<1>1. /\ free' \subseteq Block
      /\ own' \in [Actor -> [Key -> MaybeBlock]]
      /\ \A k \in Key : own'[r][k] = None
      /\ BlockOwnership'
  BY ZenonT(60), GivenBack DEF GiveBack
<1>2. \A s \in Actor : s # r => own'[s] = own[s]
  BY Zenon DEF IInv, BlockTypes, GiveBack
<1>3. BlockTypes'
  BY ZenonT(60), <1>1 DEF IInv, BlockTypes, End
<1>4. OwnedInBatch'
  BY <1>1, <1>2 DEF IInv, BlockTypes, OwnedInBatch, MayOwn, End
<1>5. Allocating'
  BY Zenon DEF IInv, BlockTypes, Allocating, End
<1> QED BY Zenon, <1>1, <1>3, <1>4, <1>5 DEF IInv

-----------------------------------------------------------------------------
(* Calls that begin *)

LEMMA InsertStep ==
  ASSUME IInv, NEW r \in Actor, NEW K \in SUBSET Key, Insert(r, K)
  PROVE  IInv'
<1> USE SetsAssumption DEF Insert, InsertAndLock, pool, ops
<1>1. \A k \in Key : host'[k] = host[k] \/ host'[k] = None
  BY Zenon DEF IInv, BlockTypes
<1>2. BlockTypes'
  BY Zenon DEF IInv, BlockTypes, MaybeBlock
<1>3. OwnedInBatch' /\ Allocating'
  BY Zenon DEF IInv, OwnedInBatch, MayOwn, Allocating
<1>4. None \notin free /\ \A s \in Actor : None \notin limbo[s]
  BY Zenon DEF IInv, BlockTypes
<1>5. BoundOnce' /\ OwnedOnce' /\ OwnedUnbound'
  BY <1>1 DEF IInv, BlockOwnership, BoundOnce, OwnedOnce, OwnedUnbound
<1>6. LimboApart' /\ FreeApart'
  BY <1>1, <1>4 DEF IInv, BlockOwnership, LimboApart, FreeApart
<1> QED BY Zenon, <1>2, <1>3, <1>5, <1>6 DEF IInv, BlockOwnership

\* SweepPin and Release leave everything but the pins alone.
LEMMA PinsStep ==
  ASSUME IInv, NEW r \in Actor, NEW K \in SUBSET Key, SweepPin(r, K) \/ Release(r, K)
  PROVE  IInv'
<1>1. UNCHANGED <<host, own, limbo, free, kind, pc, keys, victims>>
  BY Zenon DEF SweepPin, Release, pool, ops
<1>2. BlockOwnership'
  BY Zenon, <1>1, PlacesUnchanged DEF IInv
<1>3. BlockTypes' /\ OwnedInBatch' /\ Allocating'
  BY Zenon, <1>1 DEF IInv, BlockTypes, OwnedInBatch, MayOwn, Allocating
<1> QED BY Zenon, <1>2, <1>3 DEF IInv

LEMMA StartStep ==
  ASSUME IInv, NEW r \in Actor, Start(r)
  PROVE  IInv'
<1>0. PICK K \in Batches :
      \/ Insert(r, K) \/ Lookup(r, K) \/ SweepPin(r, K) \/ Release(r, K)
      \/ SaveLocal(r, K) \/ ReadRemote(r, K) \/ Load(r, K) \/ LoadRemote(r, K)
      \/ SaveRemote(r, K) \/ ValidateAndPinHostBlocks(r, K) \/ Fetch(r, K)
      \/ WriteRemote(r, K) \/ Evict(r, K)
  BY Zenon DEF Start
<1>1. K \in SUBSET Key /\ victims \in [Actor -> SUBSET Key]
  BY Zenon, <1>0 DEF Batches, IInv, BlockTypes
<1>2. CASE Insert(r, K)
  BY Zenon, <1>1, <1>2, InsertStep
<1>3. CASE SweepPin(r, K) \/ Release(r, K)
  BY Zenon, <1>1, <1>3, PinsStep
<1>4. CASE Lookup(r, K)
  <2>1. Begin(r, "lookup", "answer", K \cap Active) /\ UNCHANGED <<host, own, limbo, free, victims>>
    BY Zenon, <1>4 DEF Lookup, pool
  <2>2. K \cap Active \in SUBSET Key
    BY Zenon, <1>1
  <2> QED BY Zenon, <1>1, <2>1, <2>2, BeginStep
<1>5. CASE SaveLocal(r, K)
  <2>1. Begin(r, "save", "choose", K) /\ UNCHANGED <<host, own, limbo, free, victims>>
    BY Zenon, <1>5 DEF SaveLocal, pool, index
  <2> QED BY Zenon, <1>1, <2>1, BeginStep
<1>6. CASE ReadRemote(r, K)
  <2>1. Begin(r, "read", "choose", K) /\ UNCHANGED <<host, own, limbo, free, victims>>
    BY Zenon, <1>6 DEF ReadRemote, pool, index
  <2> QED BY Zenon, <1>1, <2>1, BeginStep
<1>7. CASE Load(r, K)
  <2>1. Begin(r, "load", "issue", K) /\ UNCHANGED <<host, own, limbo, free, victims>>
    BY Zenon, <1>7 DEF Load, pool, index
  <2> QED BY Zenon, <1>1, <2>1, BeginStep
<1>8. CASE LoadRemote(r, K)
  <2>1. Begin(r, "fetch", "grab", K) /\ UNCHANGED <<host, own, limbo, free, victims>>
    BY Zenon, <1>8 DEF LoadRemote, pool, index
  <2> QED BY Zenon, <1>1, <2>1, BeginStep
<1>9. CASE SaveRemote(r, K)
  <2>1. Begin(r, "offer", "pin", K) /\ UNCHANGED <<host, own, limbo, free, victims>>
    BY Zenon, <1>9 DEF SaveRemote, pool, index
  <2> QED BY Zenon, <1>1, <2>1, BeginStep
<1>10. CASE ValidateAndPinHostBlocks(r, K)
  <2>1. Begin(r, "lease", "pin", K) /\ UNCHANGED <<host, own, limbo, free, victims>>
    BY Zenon, <1>10 DEF ValidateAndPinHostBlocks, LookUpToServe, pool, index
  <2> QED BY Zenon, <1>1, <2>1, BeginStep
<1>11. CASE Fetch(r, K)
  <2>1. Begin(r, "push", "pin", K) /\ UNCHANGED <<host, own, limbo, free, victims>>
    BY Zenon, <1>11 DEF Fetch, LookUpToServe, pool, index
  <2> QED BY Zenon, <1>1, <2>1, BeginStep
<1>12. CASE WriteRemote(r, K)
  <2>1. Begin(r, "write", "grab", K) /\ UNCHANGED <<host, own, limbo, free, victims>>
    BY Zenon, <1>12 DEF WriteRemote, pool, index
  <2> QED BY Zenon, <1>1, <2>1, BeginStep
<1>13. CASE Evict(r, K)
  <2>1. Begin(r, "evict", "erase", {}) /\ UNCHANGED <<host, own, limbo, free>>
    BY Zenon, <1>13 DEF Evict, pool, index
  <2>2. victims' \in [Actor -> SUBSET Key]
    BY Zenon, <1>1, <1>13 DEF Evict, IInv, BlockTypes
  <2> QED BY <2>1, <2>2, BeginStep
<1> QED BY Zenon, <1>0, <1>2, <1>3, <1>4, <1>5, <1>6, <1>7, <1>8, <1>9, <1>10, <1>11, <1>12, <1>13

-----------------------------------------------------------------------------
(* Allocation *)

LEMMA ChooseStep ==
  ASSUME IInv, NEW r \in Actor, Choose(r)
  PROVE  IInv'
<1>1. UNCHANGED <<host, own, limbo, free>> /\ ~MayOwn(r) /\ kind[r] \in {"save", "read"}
  BY Zenon DEF Choose, index, pool, MayOwn, IInv, Allocating
<1>2. \/ Goto(r, "grab") /\ UNCHANGED victims
      \/ End(r) /\ UNCHANGED victims
      \/ /\ Goto(r, "erase")
         /\ \E n : \E V \in EvictableSets(n) : victims' = [victims EXCEPT ![r] = V]
  BY Zenon DEF Choose
<1>3. victims' \in [Actor -> SUBSET Key]
  BY Zenon, <1>2 DEF EvictableSets, Stored, IInv, BlockTypes
<1>4. CASE End(r) /\ UNCHANGED victims
  BY Zenon, <1>1, <1>4, EndStep
<1>5. CASE Goto(r, "grab")
  BY ZenonT(60), <1>1, <1>3, <1>5, GotoStep DEF Goto
<1>6. CASE Goto(r, "erase")
  BY ZenonT(60), <1>1, <1>3, <1>6, GotoStep DEF Goto
<1> QED BY Zenon, <1>2, <1>4, <1>5, <1>6

\* The blocks of the erased entries leave the index together with them.
LEMMA EraseStep ==
  ASSUME IInv, NEW r \in Actor, Erase(r)
  PROVE  IInv'
<1> DEFINE E == Evictable(victims[r])
<1> USE SetsAssumption
<1>1. /\ host' = [k \in Key |-> IF k \in E THEN None ELSE host[k]]
      /\ limbo' = [limbo EXCEPT ![r] = {host[k] : k \in E}]
      /\ victims' = [victims EXCEPT ![r] = {}]
      /\ UNCHANGED <<own, free, kind, keys>>
      /\ pc[r] = "erase" /\ pc' = [pc EXCEPT ![r] = "dealloc"]
  BY Zenon DEF Erase, Goto
<1>2. E \subseteq Key /\ \A k \in E : host[k] # None
  BY Zenon DEF Evictable, IInv, BlockTypes
<1> HIDE DEF E
<1>3. \A k \in E : host[k] \in Block
  BY Zenon, <1>2 DEF IInv, BlockTypes, MaybeBlock
<1>4. /\ \A k \in E : host'[k] = None
      /\ \A k \in Key \ E : host'[k] = host[k]
  BY Zenon, <1>1, <1>2
<1>5. /\ \A s \in Actor : s # r => limbo'[s] = limbo[s]
      /\ limbo'[r] = {host[k] : k \in E}
  BY Zenon, <1>1 DEF IInv, BlockTypes
<1>6. BlockTypes'
  <2>1. {host[k] : k \in E} \subseteq Block
    BY Zenon, <1>3
  <2>2. limbo' \in [Actor -> SUBSET Block] /\ host' \in [Key -> MaybeBlock]
    BY Zenon, <1>1, <2>1 DEF IInv, BlockTypes, MaybeBlock
  <2> QED BY Zenon, <1>1, <2>2 DEF IInv, BlockTypes
<1>7. OwnedInBatch'
  BY Zenon, <1>1 DEF IInv, BlockTypes, OwnedInBatch, MayOwn
<1>8. Allocating'
  BY Zenon, <1>1 DEF IInv, BlockTypes, Allocating
<1>9. ASSUME NEW s \in Actor, NEW t \in Actor, NEW b \in limbo'[s]
      PROVE  /\ b \notin free'
             /\ b \in limbo'[t] => s = t
             /\ \A k \in Key : host'[k] # b /\ own'[t][k] # b
  <2>1. CASE s # r
    <3>1. b \in limbo[s] /\ b \in Block /\ b # None
      BY Zenon, <2>1, <1>5 DEF IInv, BlockTypes
    <3>2. /\ b \notin free /\ (b \in limbo[t] => s = t)
          /\ \A k \in Key : host[k] # b /\ own[t][k] # b
      BY Zenon, <3>1 DEF IInv, BlockOwnership, LimboApart
    <3>3. b \notin limbo'[r]
      BY Zenon, <1>5, <1>2, <3>2
    <3> QED BY Zenon, <3>1, <3>2, <3>3, <1>1, <1>4, <1>5
  <2>2. CASE s = r
    <3>1. PICK j \in E : b = host[j]
      BY Zenon, <2>2, <1>5
    <3>2. j \in Key /\ b \in Block /\ b # None
      BY Zenon, <3>1, <1>2, <1>3
    <3>3. b \notin free'
      BY Zenon, <3>1, <3>2, <1>1 DEF IInv, BlockOwnership, FreeApart
    <3>4. t # r => b \notin limbo'[t]
      BY Zenon, <3>1, <3>2, <1>5 DEF IInv, BlockOwnership, LimboApart
    <3>5. \A k \in Key : own'[t][k] # b
      BY Zenon, <3>1, <3>2, <1>1 DEF IInv, BlockOwnership, OwnedUnbound
    <3>6. \A k \in Key : host'[k] # b
      <4> SUFFICES ASSUME NEW k \in Key, host'[k] = b PROVE FALSE
        OBVIOUS
      <4>1. k \notin E /\ host[k] = b
        BY Zenon, <1>4, <3>2
      <4>2. k = j
        BY Zenon, <4>1, <3>1, <3>2 DEF IInv, BlockOwnership, BoundOnce
      <4> QED BY Zenon, <4>1, <4>2
    <3> QED BY Zenon, <2>2, <3>3, <3>4, <3>5, <3>6
  <2> QED BY Zenon, <2>1, <2>2
<1>10. BlockOwnership'
  <2>1. \A k \in Key : host'[k] = host[k] \/ host'[k] = None
    BY Zenon, <1>4
  <2>2. None \notin free
    BY Zenon DEF IInv, BlockTypes
  <2>3. BoundOnce' /\ OwnedUnbound'
    BY Zenon, <2>1, <1>1 DEF IInv, BlockOwnership, BoundOnce, OwnedUnbound
  <2>4. OwnedOnce' /\ FreeApart'
    BY <2>1, <2>2, <1>1 DEF IInv, BlockOwnership, OwnedOnce, FreeApart
  <2>5. LimboApart'
    BY Zenon, <1>9 DEF LimboApart
  <2> QED BY Zenon, <2>3, <2>4, <2>5 DEF BlockOwnership
<1> QED BY Zenon, <1>6, <1>7, <1>8, <1>10 DEF IInv

LEMMA DeallocStep ==
  ASSUME IInv, NEW r \in Actor, Dealloc(r)
  PROVE  IInv'
<1> USE SetsAssumption
<1>1. /\ pc[r] = "dealloc" /\ kind[r] \in {"save", "read", "evict"}
      /\ free' = free \cup limbo[r]
      /\ limbo' = [limbo EXCEPT ![r] = {}]
      /\ UNCHANGED <<host, own, victims>>
      /\ IF kind[r] = "evict" THEN End(r) ELSE Goto(r, "grab")
  BY Zenon DEF Dealloc, index, IInv, Allocating
<1>2. \A k \in Key : own[r][k] = None
  BY Zenon, <1>1, IdleOwnsNothing DEF MayOwn
<1>3. /\ limbo[r] \subseteq Block /\ limbo'[r] = {}
      /\ \A s \in Actor : s # r => limbo'[s] = limbo[s]
  BY Zenon, <1>1 DEF IInv, BlockTypes
<1>4. BlockTypes'
  <2>1. /\ limbo' \in [Actor -> SUBSET Block] /\ free' \subseteq Block
        /\ UNCHANGED <<host, own, victims>>
    BY Zenon, <1>1, <1>3 DEF IInv, BlockTypes
  <2>2. CASE End(r)
    BY Zenon, <2>1, <2>2 DEF IInv, BlockTypes, End
  <2>3. CASE Goto(r, "grab")
    BY Zenon, <2>1, <2>3 DEF IInv, BlockTypes, Goto
  <2> QED BY Zenon, <1>1, <2>2, <2>3
<1>5. OwnedInBatch'
  BY <1>1, <1>2 DEF IInv, BlockTypes, OwnedInBatch, MayOwn, End, Goto
<1>6. Allocating'
  BY ZenonT(60), <1>1 DEF IInv, BlockTypes, Allocating, End, Goto
<1>7. ASSUME NEW s \in Actor, NEW t \in Actor, NEW b \in limbo'[s]
      PROVE  /\ b \notin free'
             /\ b \in limbo'[t] => s = t
             /\ \A k \in Key : host'[k] # b /\ own'[t][k] # b
  <2>1. s # r /\ b \in limbo[s]
    BY Zenon, <1>3
  <2>2. /\ b \notin free /\ b \notin limbo[r] /\ (b \in limbo[t] => s = t)
        /\ \A k \in Key : host[k] # b /\ own[t][k] # b
    BY Zenon, <2>1 DEF IInv, BlockOwnership, LimboApart
  <2> QED BY Zenon, <2>1, <2>2, <1>1, <1>3
<1>8. FreeApart' /\ LimboApart'
  <2>1. LimboApart'
    BY Zenon, <1>7 DEF LimboApart
  <2>2. \A k \in Key : host[k] \notin limbo[r] /\ \A s \in Actor : own[s][k] \notin limbo[r]
    BY DEF IInv, BlockOwnership, LimboApart
  <2> QED BY Zenon, <1>1, <2>1, <2>2 DEF IInv, BlockOwnership, FreeApart
<1>9. BoundOnce' /\ OwnedOnce' /\ OwnedUnbound'
  BY <1>1 DEF IInv, BlockOwnership, BoundOnce, OwnedOnce, OwnedUnbound
<1> QED BY Zenon, <1>4, <1>5, <1>6, <1>8, <1>9 DEF IInv, BlockOwnership

\* The blocks an operation gets were free, so nobody else has them.
LEMMA GrabStep ==
  ASSUME IInv, NEW r \in Actor, Grab(r)
  PROVE  IInv'
<1> USE SetsAssumption
<1>1. /\ pc[r] = "grab" /\ kind[r] \in {"save", "read", "fetch", "write"} /\ ~MayOwn(r)
      /\ UNCHANGED <<host, limbo, victims>>
  BY Zenon DEF Grab, index, IInv, Allocating, MayOwn
<1>2. CASE End(r) /\ UNCHANGED <<own, free>>
  BY Zenon, <1>1, <1>2, EndStep
<1>3. ASSUME NEW f \in Assignments(keys[r]),
             own' = [own EXCEPT ![r] = f], free' = free \ {f[k] : k \in keys[r]},
             Goto(r, IF kind[r] = "read" THEN "mark" ELSE "dma")
      PROVE  IInv'
  <2>1. /\ f \in [Key -> free \cup {None}] /\ keys[r] \subseteq Key
        /\ \A k \in Key : f[k] = None <=> k \notin keys[r]
        /\ \A j, k \in keys[r] : f[j] = f[k] => j = k
    BY Zenon, <1>3 DEF Assignments, IInv, BlockTypes
  <2>2. /\ own'[r] = f
        /\ \A s \in Actor : s # r => own'[s] = own[s]
        /\ free \subseteq Block
    BY Zenon, <1>3 DEF IInv, BlockTypes
  <2>3. /\ \A k \in Key : f[k] # None => f[k] \in free /\ f[k] \notin free'
        /\ \A j, k \in Key : f[j] = f[k] /\ f[k] # None => j = k
        /\ free' \subseteq free
    BY Zenon, <1>3, <2>1
  <2>4. f \in [Key -> MaybeBlock]
    BY Zenon, <2>1, <2>2 DEF MaybeBlock
  <2>5. BlockTypes'
    BY Zenon, <1>1, <1>3, <2>2, <2>3, <2>4 DEF IInv, BlockTypes, Goto
  <2>6. OwnedInBatch'
    <3> SUFFICES ASSUME NEW s \in Actor, NEW k \in Key, own'[s][k] # None
                 PROVE  k \in keys'[s] /\ MayOwn(s)'
      BY Zenon DEF OwnedInBatch
    <3>1. CASE s = r
      BY Zenon, <3>1, <1>1, <1>3, <2>1, <2>2 DEF IInv, BlockTypes, Goto, MayOwn
    <3>2. CASE s # r
      BY <3>2, <1>3, <2>2 DEF IInv, BlockTypes, OwnedInBatch, Goto, MayOwn
    <3> QED BY Zenon, <3>1, <3>2
  <2>7. Allocating'
    BY Zenon, <1>1, <1>3 DEF IInv, BlockTypes, Allocating, Goto
  <2>8. OwnedOnce'
    <3> SUFFICES ASSUME NEW s \in Actor, NEW t \in Actor, NEW j \in Key, NEW k \in Key,
                        own'[s][j] = own'[t][k], own'[t][k] # None
                 PROVE  s = t /\ j = k
      BY DEF OwnedOnce
    <3>1. CASE s = r /\ t = r
      BY Zenon, <3>1, <2>2, <2>3
    <3>2. CASE s # r /\ t # r
      BY <3>2, <2>2 DEF IInv, BlockOwnership, OwnedOnce
    <3>3. CASE s = r /\ t # r
      BY <3>3, <2>2, <2>3 DEF IInv, BlockOwnership, FreeApart
    <3>4. CASE s # r /\ t = r
      BY <3>4, <2>2, <2>3 DEF IInv, BlockOwnership, FreeApart
    <3> QED BY Zenon, <3>1, <3>2, <3>3, <3>4
  <2>9. ASSUME NEW s \in Actor, NEW k \in Key
        PROVE  /\ own'[s][k] \notin free'
               /\ \A j \in Key : own'[s][k] # None => own'[s][k] # host'[j]
               /\ \A t \in Actor : own'[s][k] \notin limbo'[t]
    <3>1. CASE s = r
      <4>1. own'[s][k] \notin free'
        BY Zenon, <3>1, <2>2, <2>3
      <4>2. \A j \in Key : own'[s][k] # None => own'[s][k] # host'[j]
        BY Zenon, <3>1, <1>1, <2>2, <2>3 DEF IInv, BlockOwnership, FreeApart
      <4>3. \A t \in Actor : own'[s][k] \notin limbo'[t]
        <5>1. \A t \in Actor : \A b \in limbo[t] : b \in Block /\ b \notin free
          BY Zenon DEF IInv, BlockTypes, BlockOwnership, LimboApart
        <5> QED BY Zenon, <3>1, <5>1, <1>1, <2>2, <2>3
      <4> QED BY Zenon, <4>1, <4>2, <4>3
    <3>2. CASE s # r
      <4>1. own'[s][k] \notin free'
        BY Zenon, <3>2, <2>2, <2>3 DEF IInv, BlockOwnership, FreeApart
      <4>2. \A j \in Key : own'[s][k] # None => own'[s][k] # host'[j]
        BY <3>2, <1>1, <2>2 DEF IInv, BlockOwnership, OwnedUnbound
      <4>3. \A t \in Actor : own'[s][k] \notin limbo'[t]
        BY <3>2, <1>1, <2>2 DEF IInv, BlockOwnership, LimboApart
      <4> QED BY Zenon, <4>1, <4>2, <4>3
    <3> QED BY Zenon, <3>1, <3>2
  <2>10. BoundOnce' /\ OwnedUnbound'
    BY Zenon, <1>1, <2>9 DEF IInv, BlockOwnership, BoundOnce, OwnedUnbound
  <2>11. LimboApart' /\ FreeApart'
    BY <1>1, <2>3, <2>9 DEF IInv, BlockOwnership, LimboApart, FreeApart
  <2> QED BY Zenon, <2>5, <2>6, <2>7, <2>8, <2>10, <2>11 DEF IInv, BlockOwnership
<1> QED BY Zenon, <1>2, <1>3 DEF Grab

-----------------------------------------------------------------------------
(* Transfers *)

LEMMA LandStep ==
  ASSUME IInv, NEW r \in Actor, NEW ok \in BOOLEAN, Land(r, ok)
  PROVE  IInv'
<1>1. /\ pc[r] = "dma" /\ pc' = [pc EXCEPT ![r] = "ready"]
      /\ UNCHANGED <<host, limbo, kind, keys, victims>>
  BY Zenon DEF Land, index
<1>2. CASE kind[r] # "fetch"
  <2>1. UNCHANGED <<free, own>>
    BY Zenon, <1>2 DEF Land
  <2>2. BlockTypes'
    BY Zenon, <1>1, <2>1 DEF IInv, BlockTypes
  <2>3. OwnedInBatch'
    BY Zenon, <1>1, <1>2, <2>1 DEF IInv, BlockTypes, OwnedInBatch, MayOwn
  <2>4. Allocating'
    BY Zenon, <1>1 DEF IInv, BlockTypes, Allocating
  <2>5. BlockOwnership'
    BY Zenon, <1>1, <2>1, PlacesUnchanged DEF IInv
  <2> QED BY Zenon, <2>2, <2>3, <2>4, <2>5 DEF IInv
<1>3. CASE kind[r] = "fetch"
  <2>1. free' = free \cup Owned(r) /\ own' = [own EXCEPT ![r] = NoBlocks]
    BY Zenon, <1>3 DEF Land, GiveBack
  <2>2. /\ free' \subseteq Block
        /\ own' \in [Actor -> [Key -> MaybeBlock]]
        /\ \A k \in Key : own'[r][k] = None
        /\ BlockOwnership'
    BY ZenonT(60), <1>1, <2>1, GivenBack
  <2>3. \A s \in Actor : s # r => own'[s] = own[s]
    BY Zenon, <2>1 DEF IInv, BlockTypes
  <2>4. BlockTypes'
    BY ZenonT(60), <1>1, <2>2 DEF IInv, BlockTypes
  <2>5. OwnedInBatch'
    BY <1>1, <2>2, <2>3 DEF IInv, BlockTypes, OwnedInBatch, MayOwn
  <2>6. Allocating'
    BY Zenon, <1>1 DEF IInv, BlockTypes, Allocating
  <2> QED BY Zenon, <2>2, <2>4, <2>5, <2>6 DEF IInv
<1> QED BY Zenon, <1>2, <1>3

LEMMA GiveUpStep ==
  ASSUME IInv, NEW r \in Actor, GiveUp(r)
  PROVE  IInv'
<1>1. /\ pc[r] = "dma" /\ kind[r] \in {"read", "fetch"} /\ pc' = [pc EXCEPT ![r] = "ready"]
      /\ UNCHANGED <<host, limbo, kind, keys, victims>>
  BY Zenon DEF GiveUp, index
<1>2. BlockTypes' /\ Allocating' /\ BlockOwnership' /\ (kind[r] = "fetch" => \A k \in Key : own'[r][k] = None)
  <2>1. CASE kind[r] = "fetch"
    <3>1. free' = free \cup Owned(r) /\ own' = [own EXCEPT ![r] = NoBlocks]
      BY Zenon, <2>1 DEF GiveUp
    <3>2. /\ free' \subseteq Block
          /\ own' \in [Actor -> [Key -> MaybeBlock]]
          /\ \A k \in Key : own'[r][k] = None
          /\ BlockOwnership'
      BY ZenonT(60), <1>1, <3>1, GivenBack
    <3> QED BY ZenonT(60), <1>1, <3>2 DEF IInv, BlockTypes, Allocating
  <2>2. CASE kind[r] # "fetch"
    <3>1. UNCHANGED <<free, own>>
      BY Zenon, <2>2 DEF GiveUp
    <3>2. BlockOwnership'
      BY Zenon, <1>1, <3>1, PlacesUnchanged DEF IInv
    <3> QED BY Zenon, <1>1, <2>2, <3>1, <3>2 DEF IInv, BlockTypes, Allocating
  <2> QED BY Zenon, <2>1, <2>2
<1>3. \A s \in Actor : s # r => own'[s] = own[s]
  BY Zenon DEF GiveUp, IInv, BlockTypes
<1>4. kind[r] = "read" => own' = own
  BY Zenon DEF GiveUp
<1>5. OwnedInBatch'
  BY <1>1, <1>2, <1>3, <1>4 DEF IInv, BlockTypes, OwnedInBatch, MayOwn
<1> QED BY Zenon, <1>2, <1>5 DEF IInv

LEMMA StrayLandStep ==
  ASSUME IInv, StrayLand
  PROVE  IInv'
<1>1. UNCHANGED <<host, own, limbo, free, kind, pc, keys, victims>>
  BY Zenon DEF StrayLand, index, ops
<1>2. BlockOwnership'
  BY Zenon, <1>1, PlacesUnchanged DEF IInv
<1> QED BY Zenon, <1>1, <1>2 DEF IInv, BlockTypes, OwnedInBatch, MayOwn, Allocating

\* The index takes blocks an operation owns, for hashes of its batch, and the
\* operation owns none any more: a save that is done, a write that is committed.
LEMMA TakenByIndex ==
  ASSUME IInv, NEW r \in Actor, NEW K \in SUBSET Key,
         host' = [k \in Key |-> IF k \in K THEN own[r][k] ELSE host[k]],
         own' = [own EXCEPT ![r] = NoBlocks], UNCHANGED <<limbo, free>>
  PROVE  /\ host' \in [Key -> MaybeBlock]
         /\ own' \in [Actor -> [Key -> MaybeBlock]]
         /\ \A k \in Key : own'[r][k] = None
         /\ \A s \in Actor : s # r => own'[s] = own[s]
         /\ BlockOwnership'
<1> USE SetsAssumption
<1>1. host' \in [Key -> MaybeBlock]
  BY DEF IInv, BlockTypes
<1>2. own' \in [Actor -> [Key -> MaybeBlock]]
  BY Zenon DEF IInv, BlockTypes, NoBlocks, MaybeBlock
<1>3. /\ \A k \in Key : own'[r][k] = None
      /\ \A s \in Actor : s # r => own'[s] = own[s]
  BY Zenon DEF IInv, BlockTypes, NoBlocks
<1>4. \A k \in Key : host'[k] = IF k \in K THEN own[r][k] ELSE host[k]
  OBVIOUS
<1>5. BoundOnce'
  BY <1>4 DEF IInv, BlockOwnership, BoundOnce, OwnedOnce, OwnedUnbound
<1>6. ASSUME NEW s \in Actor, NEW j \in Key, own'[s][j] # None
      PROVE  /\ own'[s][j] = own[s][j] /\ s # r
             /\ \A k \in Key : own'[s][j] # host'[k]
  <2>1. s # r /\ own'[s][j] = own[s][j]
    BY Zenon, <1>3, <1>6
  <2>2. \A k \in Key : own[s][j] # host[k] /\ own[s][j] # own[r][k]
    BY <2>1, <1>6 DEF IInv, BlockOwnership, OwnedOnce, OwnedUnbound
  <2> QED BY Zenon, <2>1, <2>2, <1>4
<1>7. OwnedOnce' /\ OwnedUnbound'
  BY <1>6 DEF IInv, BlockOwnership, OwnedOnce, OwnedUnbound
<1>8. ASSUME NEW s \in Actor, NEW t \in Actor, NEW b \in limbo'[s]
      PROVE  /\ b \notin free'
             /\ b \in limbo'[t] => s = t
             /\ \A k \in Key : host'[k] # b /\ own'[t][k] # b
  <2>1. b \in Block /\ b # None
    BY Zenon DEF IInv, BlockTypes
  <2>2. \A k \in Key : host'[k] # b
    BY <1>4 DEF IInv, BlockOwnership, LimboApart
  <2>3. \A k \in Key : own'[t][k] # b
    BY <2>1, <1>3 DEF IInv, BlockOwnership, LimboApart
  <2> QED BY Zenon, <2>2, <2>3 DEF IInv, BlockOwnership, LimboApart
<1>9. FreeApart'
  <2>1. None \notin free
    BY Zenon DEF IInv, BlockTypes
  <2>2. \A k \in Key : host'[k] \notin free
    BY Zenon, <1>4 DEF IInv, BlockOwnership, FreeApart
  <2>3. \A s \in Actor, k \in Key : own'[s][k] \notin free
    BY Zenon, <2>1, <1>3 DEF IInv, BlockOwnership, FreeApart
  <2> QED BY Zenon, <2>2, <2>3 DEF FreeApart
<1>10. LimboApart'
  BY Zenon, <1>8 DEF LimboApart
<1> QED BY Zenon, <1>1, <1>2, <1>3, <1>5, <1>7, <1>9, <1>10 DEF BlockOwnership

-----------------------------------------------------------------------------
(* The ends of operations *)

LEMMA PollSaveDoneStep ==
  ASSUME IInv, NEW r \in Actor, PollSaveDone(r)
  PROVE  IInv'
<1> DEFINE K == keys[r] \cap Active
<1>1. /\ pc' = [pc EXCEPT ![r] = "publish"] /\ keys' = [keys EXCEPT ![r] = K]
      /\ host' = [k \in Key |-> IF k \in K THEN own[r][k] ELSE host[k]]
      /\ own' = [own EXCEPT ![r] = NoBlocks]
      /\ UNCHANGED <<limbo, free, kind, victims>>
  BY Zenon DEF PollSaveDone, pool, IInv, BlockTypes
<1>2. K \in SUBSET Key
  BY Zenon DEF Active
<1> HIDE DEF K
<1>3. /\ host' \in [Key -> MaybeBlock]
      /\ own' \in [Actor -> [Key -> MaybeBlock]]
      /\ \A k \in Key : own'[r][k] = None
      /\ \A s \in Actor : s # r => own'[s] = own[s]
      /\ BlockOwnership'
  BY ZenonT(60), <1>1, <1>2, TakenByIndex
<1>4. BlockTypes'
  BY Zenon, <1>1, <1>2, <1>3 DEF IInv, BlockTypes
<1>5. OwnedInBatch'
  BY <1>1, <1>3 DEF IInv, BlockTypes, OwnedInBatch, MayOwn
<1>6. Allocating'
  BY Zenon, <1>1 DEF IInv, BlockTypes, Allocating
<1> QED BY Zenon, <1>3, <1>4, <1>5, <1>6 DEF IInv

LEMMA CompleteWriteRemoteStep ==
  ASSUME IInv, NEW r \in Actor, CompleteWriteRemote(r)
  PROVE  IInv'
<1>1. End(r) /\ UNCHANGED <<limbo, victims>>
  BY Zenon DEF CompleteWriteRemote
<1>2. CASE outcome[r] = "ok" /\ CanInsertAll(keys[r])
  <2>1. /\ host' = [k \in Key |-> IF k \in keys[r] THEN own[r][k] ELSE host[k]]
        /\ own' = [own EXCEPT ![r] = NoBlocks]
        /\ UNCHANGED free
    BY Zenon, <1>2 DEF CompleteWriteRemote, pool
  <2>2. keys[r] \in SUBSET Key
    BY Zenon DEF IInv, BlockTypes
  <2>3. /\ host' \in [Key -> MaybeBlock]
        /\ own' \in [Actor -> [Key -> MaybeBlock]]
        /\ \A k \in Key : own'[r][k] = None
        /\ \A s \in Actor : s # r => own'[s] = own[s]
        /\ BlockOwnership'
    BY ZenonT(60), <1>1, <2>1, <2>2, TakenByIndex
  <2>4. BlockTypes'
    BY Zenon, <1>1, <2>1, <2>3 DEF IInv, BlockTypes, End
  <2>5. OwnedInBatch'
    BY <1>1, <2>3 DEF IInv, BlockTypes, OwnedInBatch, MayOwn, End
  <2>6. Allocating'
    BY Zenon, <1>1 DEF IInv, BlockTypes, Allocating, End
  <2> QED BY Zenon, <2>3, <2>4, <2>5, <2>6 DEF IInv
<1>3. CASE ~(outcome[r] = "ok" /\ CanInsertAll(keys[r]))
  <2>1. GiveBack(r) /\ UNCHANGED host
    BY Zenon, <1>3 DEF CompleteWriteRemote
  <2> QED BY Zenon, <1>1, <2>1, GiveBackEnd
<1> QED BY Zenon, <1>2, <1>3

\* PollSaveFailed, ReadRemoteUndo and PollRemoteRead.
LEMMA ReturnStep ==
  ASSUME IInv, NEW r \in Actor, PollSaveFailed(r) \/ ReadRemoteUndo(r) \/ PollRemoteRead(r)
  PROVE  IInv'
<1>1. GiveBack(r) /\ End(r) /\ UNCHANGED <<host, limbo, victims>>
  BY Zenon DEF PollSaveFailed, ReadRemoteUndo, PollRemoteRead, index
<1> QED BY Zenon, <1>1, GiveBackEnd

\* The operations that end without blocks of their own.
LEMMA PlainEndStep ==
  ASSUME IInv, NEW r \in Actor,
         \/ \E kept \in SUBSET Key : LookupAnswer(r, kept)
         \/ \E ok \in BOOLEAN : FinishRemoteWrite(r, ok)
         \/ WriteThrough(r) \/ PollLoad(r) \/ PollLoadRemote(r) \/ UnpinHostBlocks(r)
  PROVE  IInv'
<1>1. End(r) /\ UNCHANGED <<host, own, limbo, free, victims>>
  BY ZenonT(60) DEF LookupAnswer, FinishRemoteWrite, WriteThrough, PollLoad, PollLoadRemote,
         UnpinHostBlocks, index, pool
<1>2. ~MayOwn(r)
  BY ZenonT(60) DEF LookupAnswer, FinishRemoteWrite, WriteThrough, PollLoad, PollLoadRemote,
         UnpinHostBlocks, Polled, At, MayOwn
<1> QED BY Zenon, <1>1, <1>2, EndStep

LEMMA LoadIssueStep ==
  ASSUME IInv, NEW r \in Actor, LoadIssue(r)
  PROVE  IInv'
<1>1. /\ ~MayOwn(r) /\ UNCHANGED <<host, own, limbo, free, victims, kind, keys>>
      /\ victims \in [Actor -> SUBSET Key]
  BY Zenon DEF LoadIssue, At, MayOwn, Goto, index, pool, IInv, BlockTypes
<1>2. pc' = [pc EXCEPT ![r] = "dma"] \/ pc' = [pc EXCEPT ![r] = "ready"]
  BY ZenonT(60) DEF LoadIssue, Goto
<1> QED BY Zenon, <1>1, <1>2, GotoStep

\* The pins of an offer, a lease or a push are taken, or nothing is served.
LEMMA PinStep ==
  ASSUME IInv, NEW r \in Actor, SaveRemotePin(r) \/ PinHostBlocks(r)
  PROVE  IInv'
<1>1. /\ ~MayOwn(r) /\ UNCHANGED <<host, own, limbo, free, victims>>
      /\ victims \in [Actor -> SUBSET Key]
  BY Zenon DEF SaveRemotePin, PinHostBlocks, At, MayOwn, pool, IInv, BlockTypes
<1>2. Goto(r, "dma") \/ End(r)
  BY ZenonT(60) DEF SaveRemotePin, PinHostBlocks
<1>3. CASE Goto(r, "dma")
  BY ZenonT(60), <1>1, <1>3, GotoStep DEF Goto
<1>4. CASE End(r)
  BY Zenon, <1>1, <1>4, EndStep
<1> QED BY Zenon, <1>2, <1>3, <1>4

LEMMA ReadRemoteIssueStep ==
  ASSUME IInv, NEW r \in Actor, ReadRemoteIssue(r)
  PROVE  IInv'
<1>1. /\ kind[r] = "read" /\ pc[r] = "mark" /\ pc' = [pc EXCEPT ![r] = "dma"]
      /\ UNCHANGED <<host, own, limbo, free, kind, keys, victims>>
  BY Zenon DEF ReadRemoteIssue, At, Goto, index, pool
<1>2. BlockTypes' /\ Allocating'
  BY Zenon, <1>1 DEF IInv, BlockTypes, Allocating
<1>3. OwnedInBatch'
  BY Zenon, <1>1 DEF IInv, BlockTypes, OwnedInBatch, MayOwn
<1>4. BlockOwnership'
  BY Zenon, <1>1, PlacesUnchanged DEF IInv
<1> QED BY Zenon, <1>2, <1>3, <1>4 DEF IInv

LEMMA ContinueStep ==
  ASSUME IInv, NEW r \in Actor, Continue(r)
  PROVE  IInv'
BY Zenon, ChooseStep, EraseStep, DeallocStep, GrabStep, LandStep, GiveUpStep, PollSaveDoneStep,
   CompleteWriteRemoteStep, ReturnStep, PlainEndStep, LoadIssueStep, PinStep,
   ReadRemoteIssueStep
   DEF Continue

LEMMA StepHolds == IInv /\ [Next]_vars => IInv'
<1> SUFFICES ASSUME IInv, [Next]_vars PROVE IInv'
  OBVIOUS
<1>1. CASE Next
  BY Zenon, <1>1, StrayLandStep, StartStep, ContinueStep DEF Next
<1>2. CASE UNCHANGED vars
  <2>1. UNCHANGED <<host, own, limbo, free, kind, pc, keys, victims>>
    BY Zenon, <1>2 DEF vars, index, pool, ops
  <2>2. BlockOwnership'
    BY Zenon, <2>1, PlacesUnchanged DEF IInv
  <2> QED BY Zenon, <2>1, <2>2 DEF IInv, BlockTypes, OwnedInBatch, MayOwn, Allocating
<1> QED BY Zenon, <1>1, <1>2

\* For any number of concurrent operations, hashes and host blocks: a block is bound
\* by at most one entry of the index, or allocated by one operation for one hash, or
\* evicted and on its way back, or free, and never two of these (KVCacheStore's
\* allocation, polling and eviction, which drop the mutex between their steps).
THEOREM BlockOwnershipHolds == Spec => []BlockOwnership
<1>1. IInv => BlockOwnership
  BY DEF IInv
<1> QED BY InitHolds, StepHolds, <1>1, PTL DEF Spec

-----------------------------------------------------------------------------
(* Pins *)

LEMMA PinInit == Init => PinInv
BY FS_EmptySet
   DEF Init, PinInv, PinTypes, PinsCounted, PinnedActive, CallerPinned, Spending,
       InternallyPinned, Serving, AtRest, Holder

LEMMA FiniteHolders ==
  ASSUME PinTypes
  PROVE  \A k \in Key : IsFiniteSet(holders[k])
<1>1. IsFiniteSet({"caller", "internal"})
  <2>1. IsFiniteSet({"caller"})
    BY ZenonT(60), FS_Singleton
  <2>2. IsFiniteSet({"caller"} \cup {"internal"})
    BY Zenon, <2>1, FS_AddElement
  <2>3. {"caller"} \cup {"internal"} = {"caller", "internal"}
    OBVIOUS
  <2> QED BY Zenon, <2>2, <2>3
<1>2. IsFiniteSet(Holder)
  BY Zenon, <1>1, SetsAssumption, FS_Product DEF Holder
<1> QED BY Zenon, <1>2, FS_Subset DEF PinTypes

LEMMA HeldIsActive == PinInv => HeldActive
<1> SUFFICES ASSUME PinInv, NEW k \in Key, NEW h \in holders[k]
             PROVE  pins[k] > 0 /\ loc[k] = "active"
  BY Zenon DEF HeldActive
<1>1. IsFiniteSet(holders[k])
  BY Zenon, FiniteHolders DEF PinInv
<1>2. pins[k] # 0
  BY Zenon, <1>1, FS_EmptySet DEF PinInv, PinsCounted
<1> QED BY <1>2 DEF PinInv, PinTypes, PinnedActive

\* Pinning for a holder that has no pin on the batch yet.
LEMMA PinAllCounts ==
  ASSUME PinTypes, PinsCounted, NEW K \in SUBSET Key, NEW h \in Holder,
         \A k \in K : h \notin holders[k], PinAll(K, h)
  PROVE  /\ pins' \in [Key -> Nat]
         /\ holders' \in [Key -> SUBSET Holder]
         /\ PinsCounted'
<1>1. pins' \in [Key -> Nat] /\ holders' \in [Key -> SUBSET Holder]
  BY DEF PinTypes, PinAll
<1>2. ASSUME NEW k \in Key PROVE pins'[k] = Cardinality(holders'[k])
  <2>1. IsFiniteSet(holders[k])
    BY Zenon, FiniteHolders
  <2>2. CASE k \in K
    <3>1. holders'[k] = holders[k] \cup {h} /\ pins'[k] = pins[k] + 1
      BY Zenon, <2>2 DEF PinAll
    <3>2. Cardinality(holders[k] \cup {h}) = Cardinality(holders[k]) + 1
      BY ZenonT(60), <2>1, <2>2, FS_AddElement
    <3> QED BY Zenon, <3>1, <3>2 DEF PinsCounted
  <2>3. CASE k \notin K
    BY Zenon, <2>3 DEF PinAll, PinsCounted
  <2> QED BY Zenon, <2>2, <2>3
<1> QED BY Zenon, <1>1, <1>2 DEF PinsCounted

\* Releasing pins that are held.
LEMMA ReleaseAllCounts ==
  ASSUME PinTypes, PinsCounted, NEW K \in SUBSET Key, NEW h \in Holder,
         \A k \in K : h \in holders[k], ReleaseAll(K, h)
  PROVE  /\ pins' \in [Key -> Nat]
         /\ holders' \in [Key -> SUBSET Holder]
         /\ PinsCounted'
         /\ \A k \in Key : pins'[k] <= pins[k]
<1>1. holders' \in [Key -> SUBSET Holder]
  BY Zenon DEF PinTypes, ReleaseAll
<1>2. pins' \in [Key -> Nat] /\ \A k \in Key : pins'[k] <= pins[k]
  BY DEF PinTypes, ReleaseAll, Unpin
<1>3. ASSUME NEW k \in Key PROVE pins'[k] = Cardinality(holders'[k])
  <2>1. IsFiniteSet(holders[k])
    BY Zenon, FiniteHolders
  <2>2. CASE k \in K
    <3>1. holders'[k] = holders[k] \ {h}
      BY Zenon, <2>2 DEF ReleaseAll
    <3>2. Cardinality(holders[k] \ {h}) = Cardinality(holders[k]) - 1
      BY ZenonT(60), <2>1, <2>2, FS_RemoveElement
    <3>3. pins[k] # 0
      BY Zenon, <2>1, <2>2, FS_EmptySet DEF PinsCounted
    <3>4. pins'[k] = pins[k] - 1
      BY <2>2, <3>3 DEF ReleaseAll, Unpin, PinTypes
    <3> QED BY Zenon, <3>1, <3>2, <3>4 DEF PinsCounted
  <2>3. CASE k \notin K
    BY Zenon, <2>3 DEF ReleaseAll, Unpin, PinsCounted
  <2> QED BY Zenon, <2>2, <2>3
<1> QED BY Zenon, <1>1, <1>2, <1>3 DEF PinsCounted

\* Both pins of an offer are released at once.
LEMMA ReleaseTwiceCounts ==
  ASSUME PinTypes, PinsCounted, NEW K \in SUBSET Key, NEW h \in Holder, NEW i \in Holder, h # i,
         \A k \in K : h \in holders[k] /\ i \in holders[k], ReleaseTwice(K, h, i)
  PROVE  /\ pins' \in [Key -> Nat]
         /\ holders' \in [Key -> SUBSET Holder]
         /\ PinsCounted'
         /\ \A k \in Key : pins'[k] <= pins[k]
<1>1. holders' \in [Key -> SUBSET Holder]
  BY Zenon DEF PinTypes, ReleaseTwice
<1>2. pins' \in [Key -> Nat] /\ \A k \in Key : pins'[k] <= pins[k]
  BY DEF PinTypes, ReleaseTwice, Max0
<1>3. ASSUME NEW k \in Key PROVE pins'[k] = Cardinality(holders'[k])
  <2>1. IsFiniteSet(holders[k])
    BY Zenon, FiniteHolders
  <2>2. CASE k \in K
    <3>1. holders'[k] = (holders[k] \ {h}) \ {i}
      BY Zenon, <2>2 DEF ReleaseTwice
    <3>2. /\ IsFiniteSet(holders[k] \ {h})
          /\ Cardinality(holders[k] \ {h}) = Cardinality(holders[k]) - 1
      BY ZenonT(60), <2>1, <2>2, FS_RemoveElement
    <3>3. /\ IsFiniteSet((holders[k] \ {h}) \ {i})
          /\ Cardinality((holders[k] \ {h}) \ {i}) = Cardinality(holders[k] \ {h}) - 1
      BY ZenonT(60), <2>2, <3>2, FS_RemoveElement
    <3>4. Cardinality((holders[k] \ {h}) \ {i}) \in Nat
      BY Zenon, <3>3, FS_CardinalityType
    <3>5. pins'[k] = Max0(pins[k] - 2) /\ pins[k] = Cardinality(holders[k]) /\ pins[k] \in Nat
      BY Zenon, <2>2 DEF ReleaseTwice, PinsCounted, PinTypes
    <3> QED BY <3>1, <3>2, <3>3, <3>4, <3>5 DEF Max0
  <2>3. CASE k \notin K
    BY Zenon, <2>3 DEF ReleaseTwice, PinsCounted
  <2> QED BY Zenon, <2>2, <2>3
<1> QED BY Zenon, <1>1, <1>2, <1>3 DEF PinsCounted

\* A step of actor r touches only its own pins: what is left to show is about r.
LEMMA ActorStep ==
  ASSUME IInv, IInv', PinInv, NEW r \in Actor, OthersStay(r),
         PinTypes', PinsCounted', PinnedActive',
         \A s \in Actor, k \in Key, w \in {"caller", "internal"} :
           s # r => (<<s, w>> \in holders'[k] <=> <<s, w>> \in holders[k]),
         Spending(r)' => \A k \in keys'[r] : <<r, "caller">> \in holders'[k],
         \A k \in Key : <<r, "internal">> \in holders'[k] <=> Serving(r)' /\ k \in keys'[r],
         pc'[r] = "idle" <=> kind'[r] = "none"
  PROVE  PinInv'
<1>1. CallerPinned'
  <2> SUFFICES ASSUME NEW s \in Actor, Spending(s)', NEW k \in keys'[s]
               PROVE  <<s, "caller">> \in holders'[k]
    BY Zenon DEF CallerPinned
  <2>1. k \in Key
    BY Zenon DEF IInv, BlockTypes
  <2>2. CASE s = r
    BY Zenon, <2>2
  <2>3. CASE s # r
    BY ZenonT(60), <2>1, <2>3 DEF PinInv, CallerPinned, Spending, OthersStay
  <2> QED BY Zenon, <2>2, <2>3
<1>2. InternallyPinned'
  <2> SUFFICES ASSUME NEW s \in Actor, NEW k \in Key
               PROVE  <<s, "internal">> \in holders'[k] <=> Serving(s)' /\ k \in keys'[s]
    BY ZenonT(60) DEF InternallyPinned
  <2>1. CASE s = r
    BY Zenon, <2>1
  <2>2. CASE s # r
    BY ZenonT(60), <2>2 DEF PinInv, InternallyPinned, Serving, OthersStay
  <2> QED BY Zenon, <2>1, <2>2
<1>3. AtRest'
  BY Zenon DEF PinInv, AtRest, OthersStay
<1> QED BY Zenon, <1>1, <1>2, <1>3 DEF PinInv

\* A step that leaves the pins alone.
LEMMA QuietStep ==
  ASSUME IInv, IInv', PinInv, NEW r \in Actor, OthersStay(r), UNCHANGED <<pins, holders>>,
         loc' \in [Key -> {"absent", "active", "candidate"}],
         \A k \in Key : pins[k] > 0 => loc'[k] = "active",
         Spending(r)' => \A k \in keys'[r] : <<r, "caller">> \in holders[k],
         ~Serving(r), ~Serving(r)', pc'[r] = "idle" <=> kind'[r] = "none"
  PROVE  PinInv'
<1>1. PinTypes' /\ PinsCounted' /\ PinnedActive'
  BY Zenon DEF PinInv, PinTypes, PinsCounted, PinnedActive
<1>2. \A k \in Key : <<r, "internal">> \in holders'[k] <=> Serving(r)' /\ k \in keys'[r]
  BY Zenon DEF PinInv, InternallyPinned
<1> QED BY Zenon, <1>1, <1>2, ActorStep

LEMMA BeginQuiet ==
  ASSUME IInv, IInv', PinInv, NEW r \in Actor, NEW op, NEW at, NEW K \in SUBSET Key,
         Begin(r, op, at, K), at \notin {"idle", "dma"}, op # "none",
         op \in {"lookup", "save", "load", "offer"} => K \subseteq Granted(r),
         UNCHANGED <<loc, pins, holders>>
  PROVE  PinInv'
<1>1. OthersStay(r) /\ kind'[r] = op /\ pc'[r] = at /\ keys'[r] = K /\ pc[r] = "idle"
  BY DEF Begin, OthersStay, IInv, BlockTypes
<1>2. ~Serving(r) /\ ~Serving(r)'
  BY Zenon, <1>1 DEF Serving
<1>3. /\ loc' \in [Key -> {"absent", "active", "candidate"}]
      /\ \A k \in Key : pins[k] > 0 => loc'[k] = "active"
  BY Zenon DEF PinInv, PinTypes, PinnedActive
<1>4. Spending(r)' => \A k \in keys'[r] : <<r, "caller">> \in holders[k]
  BY Zenon, <1>1 DEF Spending, Granted
<1> QED BY Zenon, <1>1, <1>2, <1>3, <1>4, QuietStep

LEMMA EndQuiet ==
  ASSUME IInv, IInv', PinInv, NEW r \in Actor, End(r), ~Serving(r), UNCHANGED <<pins, holders>>,
         loc' \in [Key -> {"absent", "active", "candidate"}],
         \A k \in Key : pins[k] > 0 => loc'[k] = "active"
  PROVE  PinInv'
<1>1. OthersStay(r) /\ kind'[r] = "none" /\ pc'[r] = "idle" /\ keys'[r] = {}
  BY DEF End, OthersStay, IInv, BlockTypes
<1>2. ~Serving(r)' /\ ~Spending(r)'
  BY Zenon, <1>1 DEF Serving, Spending
<1> QED BY ZenonT(60), <1>1, <1>2, QuietStep

\* The operation goes on, with the same batch or less of it.
LEMMA MoveQuiet ==
  ASSUME IInv, IInv', PinInv, NEW r \in Actor, NEW at, pc' = [pc EXCEPT ![r] = at],
         UNCHANGED <<kind, pins, holders>>, OthersStay(r), keys'[r] \subseteq keys[r],
         pc[r] # "idle", at # "idle", ~Serving(r),
         at = "dma" => kind[r] \notin {"offer", "lease", "push"},
         loc' \in [Key -> {"absent", "active", "candidate"}],
         \A k \in Key : pins[k] > 0 => loc'[k] = "active"
  PROVE  PinInv'
<1>1. pc'[r] = at
  BY Zenon DEF IInv, BlockTypes
<1>2. ~Serving(r)'
  BY Zenon, <1>1 DEF Serving
<1>3. Spending(r)' => \A k \in keys'[r] : <<r, "caller">> \in holders[k]
  BY Zenon DEF Spending, PinInv, CallerPinned
<1>4. pc'[r] = "idle" <=> kind'[r] = "none"
  BY Zenon, <1>1 DEF PinInv, AtRest
<1> QED BY Zenon, <1>2, <1>3, <1>4, QuietStep

-----------------------------------------------------------------------------
(* The actions that leave the pins alone *)

LEMMA StartQuiet ==
  ASSUME IInv, IInv', PinInv, NEW r \in Actor, NEW K \in SUBSET Key, StartsUnpinned(r, K)
  PROVE  PinInv'
<1>1. CASE SaveLocal(r, K)
  BY <1>1, BeginQuiet DEF SaveLocal, index
<1>2. CASE ReadRemote(r, K)
  BY <1>2, BeginQuiet DEF ReadRemote, index
<1>3. CASE Load(r, K)
  BY <1>3, BeginQuiet DEF Load, index
<1>4. CASE LoadRemote(r, K)
  BY <1>4, BeginQuiet DEF LoadRemote, index
<1>5. CASE SaveRemote(r, K)
  BY <1>5, BeginQuiet DEF SaveRemote, index
<1>6. CASE ValidateAndPinHostBlocks(r, K)
  BY <1>6, BeginQuiet DEF ValidateAndPinHostBlocks, LookUpToServe, index
<1>7. CASE Fetch(r, K)
  BY <1>7, BeginQuiet DEF Fetch, LookUpToServe, index
<1>8. CASE WriteRemote(r, K)
  BY <1>8, BeginQuiet DEF WriteRemote, index
<1>9. CASE Evict(r, K)
  BY <1>9, BeginQuiet DEF Evict, index
<1> QED BY Zenon, <1>1, <1>2, <1>3, <1>4, <1>5, <1>6, <1>7, <1>8, <1>9 DEF StartsUnpinned

LEMMA RunQuiet ==
  ASSUME IInv, IInv', PinInv, NEW r \in Actor, KeepsPins(r)
  PROVE  PinInv'
<1>1. UNCHANGED <<loc, pins, holders>>
  BY Zenon DEF KeepsPins, Choose, Dealloc, Grab, GiveUp, PollSaveDone, PollSaveFailed,
         ReadRemoteIssue, ReadRemoteUndo, PollRemoteRead, LoadIssue, PollLoadRemote, Land, index
<1>2. /\ loc' \in [Key -> {"absent", "active", "candidate"}]
      /\ \A k \in Key : pins[k] > 0 => loc'[k] = "active"
  BY Zenon, <1>1 DEF PinInv, PinTypes, PinnedActive
<1>3. ~Serving(r) /\ pc[r] # "idle"
  BY Zenon DEF KeepsPins, Choose, Dealloc, Grab, GiveUp, PollSaveDone, PollSaveFailed,
         ReadRemoteIssue, ReadRemoteUndo, PollRemoteRead, LoadIssue, PollLoadRemote, Land,
         Polled, At, Serving
<1>4. \/ End(r)
      \/ /\ UNCHANGED kind
         /\ keys' = keys \/ keys' = [keys EXCEPT ![r] = @ \cap Active]
         /\ \E at : pc' = [pc EXCEPT ![r] = at] /\ at # "idle"
                    /\ (at = "dma" => kind[r] \notin {"offer", "lease", "push"})
  <2>1. CASE Choose(r) \/ Dealloc(r)
    BY <2>1 DEF Choose, Dealloc, Goto
  <2>2. CASE Grab(r)
    <3>1. kind[r] \in {"save", "read", "fetch", "write"}
      BY Zenon, <2>2 DEF Grab, IInv, Allocating
    <3> QED BY Zenon, <2>2, <3>1 DEF Grab, Goto
  <2>3. CASE GiveUp(r) \/ PollSaveDone(r) \/ \E ok \in BOOLEAN : Land(r, ok)
    BY Zenon, <2>3 DEF GiveUp, PollSaveDone, Land, GiveBack
  <2>4. CASE PollSaveFailed(r) \/ ReadRemoteUndo(r) \/ PollRemoteRead(r) \/ PollLoadRemote(r)
    BY ZenonT(60), <2>4 DEF PollSaveFailed, ReadRemoteUndo, PollRemoteRead, PollLoadRemote
  <2>5. CASE ReadRemoteIssue(r) \/ LoadIssue(r)
    BY Zenon, <2>5 DEF ReadRemoteIssue, LoadIssue, Goto, At
  <2> QED BY Zenon, <2>1, <2>2, <2>3, <2>4, <2>5 DEF KeepsPins
<1>5. CASE End(r)
  BY Zenon, <1>1, <1>2, <1>3, <1>5, EndQuiet
<1>6. ASSUME UNCHANGED kind, keys' = keys \/ keys' = [keys EXCEPT ![r] = @ \cap Active],
             NEW at, pc' = [pc EXCEPT ![r] = at], at # "idle",
             at = "dma" => kind[r] \notin {"offer", "lease", "push"}
      PROVE  PinInv'
  <2>1. OthersStay(r) /\ keys'[r] \subseteq keys[r]
    BY <1>6 DEF OthersStay, IInv, BlockTypes
  <2> QED BY ZenonT(60), <1>1, <1>2, <1>3, <1>6, <2>1, MoveQuiet
<1> QED BY Zenon, <1>4, <1>5, <1>6

\* Eviction takes unpinned entries only.
LEMMA EraseQuiet ==
  ASSUME IInv, IInv', PinInv, NEW r \in Actor, Erase(r)
  PROVE  PinInv'
<1>1. /\ loc' = [k \in Key |-> IF k \in Evictable(victims[r]) THEN "absent" ELSE loc[k]]
      /\ UNCHANGED <<pins, holders, kind, keys>>
      /\ pc[r] = "erase" /\ pc' = [pc EXCEPT ![r] = "dealloc"]
  BY Zenon DEF Erase, Goto
<1>2. loc' \in [Key -> {"absent", "active", "candidate"}]
  BY Zenon, <1>1 DEF PinInv, PinTypes
<1>3. \A k \in Key : pins[k] > 0 => loc'[k] = "active"
  BY <1>1 DEF PinInv, PinTypes, PinnedActive, Evictable
<1>4. OthersStay(r) /\ ~Serving(r)
  BY Zenon, <1>1 DEF OthersStay, Serving, IInv, BlockTypes
<1> QED BY ZenonT(60), <1>1, <1>2, <1>3, <1>4, MoveQuiet

\* What is displaced is unpinned.
LEMMA EnterKeepsPinned ==
  ASSUME PinInv, NEW K \in SUBSET Key, NEW D \in Displaced(K), Enter(K, D)
  PROVE  /\ loc' \in [Key -> {"absent", "active", "candidate"}]
         /\ \A k \in Key : pins[k] > 0 => loc'[k] = "active"
         /\ \A k \in K : loc'[k] = "active"
<1>1. \A k \in D : ~(pins[k] > 0)
  BY Zenon DEF Displaced, Demotable, Pinned, Active
<1> QED BY Zenon, <1>1 DEF Enter, PinInv, PinTypes, PinnedActive

LEMMA CompleteQuiet ==
  ASSUME IInv, IInv', PinInv, NEW r \in Actor, CompleteWriteRemote(r)
  PROVE  PinInv'
<1>1. End(r) /\ ~Serving(r) /\ UNCHANGED <<pins, holders>> /\ keys[r] \in SUBSET Key
  BY Zenon DEF CompleteWriteRemote, At, Serving, IInv, BlockTypes
<1>2. (\E D \in Displaced(keys[r]) : Enter(keys[r], D)) \/ UNCHANGED loc
  BY Zenon DEF CompleteWriteRemote
<1>3. /\ loc' \in [Key -> {"absent", "active", "candidate"}]
      /\ \A k \in Key : pins[k] > 0 => loc'[k] = "active"
  BY Zenon, <1>1, <1>2, EnterKeepsPinned DEF PinInv, PinTypes, PinnedActive
<1> QED BY Zenon, <1>1, <1>3, EndQuiet

-----------------------------------------------------------------------------
(* The actions that pin *)

LEMMA PinningStep ==
  ASSUME IInv, IInv', PinInv, NEW r \in Actor, NEW w \in {"caller", "internal"},
         NEW K \in SUBSET Key, \A k \in K : <<r, w>> \notin holders[k],
         PinAll(K, <<r, w>>), OthersStay(r),
         loc' \in [Key -> {"absent", "active", "candidate"}],
         \A k \in Key : pins[k] > 0 => loc'[k] = "active",
         \A k \in K : loc'[k] = "active",
         Spending(r)' => \A k \in keys'[r] : <<r, "caller">> \in holders'[k],
         \A k \in Key : <<r, "internal">> \in holders'[k] <=> Serving(r)' /\ k \in keys'[r],
         pc'[r] = "idle" <=> kind'[r] = "none"
  PROVE  PinInv'
<1>1. <<r, w>> \in Holder
  BY Zenon DEF Holder
<1>2. /\ pins' \in [Key -> Nat]
      /\ holders' \in [Key -> SUBSET Holder]
      /\ PinsCounted'
  BY Zenon, <1>1, PinAllCounts DEF PinInv
<1>3. PinTypes'
  BY Zenon, <1>2 DEF PinTypes
<1>4. PinnedActive'
  <2> SUFFICES ASSUME NEW k \in Key, pins'[k] > 0 PROVE loc'[k] = "active"
    BY Zenon DEF PinnedActive
  <2>1. k \in K \/ pins'[k] = pins[k]
    BY Zenon DEF PinAll
  <2> QED BY Zenon, <2>1
<1>5. \A s \in Actor, k \in Key, v \in {"caller", "internal"} :
        s # r => (<<s, v>> \in holders'[k] <=> <<s, v>> \in holders[k])
  BY Zenon DEF PinAll
<1> QED BY Zenon, <1>2, <1>3, <1>4, <1>5, ActorStep

LEMMA InsertPins ==
  ASSUME IInv, IInv', PinInv, NEW r \in Actor, NEW K \in SUBSET Key, Insert(r, K)
  PROVE  PinInv'
<1>1. /\ pc[r] = "idle" /\ UNCHANGED <<kind, pc, keys>>
      /\ PinAll(K, <<r, "caller">>)
      /\ \A k \in K : <<r, "caller">> \notin holders[k]
  BY Zenon DEF Insert, InsertAndLock, Granted, ops
<1>2. PICK D \in Displaced(K) : Enter(K, D)
  BY Zenon DEF Insert, InsertAndLock
<1>3. kind[r] = "none"
  BY Zenon, <1>1 DEF PinInv, AtRest
<1>4. ~Spending(r)' /\ ~Serving(r)' /\ ~Serving(r) /\ OthersStay(r)
  BY Zenon, <1>1, <1>3 DEF Spending, Serving, OthersStay
<1>5. \A k \in Key : <<r, "internal">> \notin holders'[k]
  BY Zenon, <1>1, <1>4 DEF PinAll, PinInv, InternallyPinned
<1> QED BY Zenon, <1>1, <1>2, <1>3, <1>4, <1>5, EnterKeepsPinned, PinningStep

LEMMA SweepPins ==
  ASSUME IInv, IInv', PinInv, NEW r \in Actor, NEW K \in SUBSET Key, SweepPin(r, K)
  PROVE  PinInv'
<1>1. /\ pc[r] = "idle" /\ UNCHANGED <<kind, pc, keys>>
      /\ PinAll(K, <<r, "caller">>)
      /\ loc' = [k \in Key |-> IF k \in K THEN "active" ELSE loc[k]]
      /\ \A k \in K : <<r, "caller">> \notin holders[k]
  BY Zenon DEF SweepPin, Granted, Stored, ops
<1>2. kind[r] = "none"
  BY Zenon, <1>1 DEF PinInv, AtRest
<1>3. ~Spending(r)' /\ ~Serving(r)' /\ ~Serving(r) /\ OthersStay(r)
  BY Zenon, <1>1, <1>2 DEF Spending, Serving, OthersStay
<1>4. \A k \in Key : <<r, "internal">> \notin holders'[k]
  BY Zenon, <1>1, <1>3 DEF PinAll, PinInv, InternallyPinned
<1>5. /\ loc' \in [Key -> {"absent", "active", "candidate"}]
      /\ \A k \in Key : pins[k] > 0 => loc'[k] = "active"
      /\ \A k \in K : loc'[k] = "active"
  BY Zenon, <1>1 DEF PinInv, PinTypes, PinnedActive
<1> QED BY Zenon, <1>1, <1>2, <1>3, <1>4, <1>5, PinningStep

LEMMA LookupPins ==
  ASSUME IInv, IInv', PinInv, NEW r \in Actor, NEW K \in SUBSET Key, Lookup(r, K)
  PROVE  PinInv'
<1> DEFINE H == K \cap Active
<1>1. /\ Begin(r, "lookup", "answer", H) /\ UNCHANGED loc
      /\ PinAll(H, <<r, "caller">>)
      /\ \A k \in H : <<r, "caller">> \notin holders[k] /\ loc[k] = "active"
      /\ H \in SUBSET Key
  BY Zenon DEF Lookup, Granted, Active
<1> HIDE DEF H
<1>2. /\ OthersStay(r) /\ pc[r] = "idle"
      /\ kind'[r] = "lookup" /\ pc'[r] = "answer" /\ keys'[r] = H
  BY <1>1 DEF Begin, OthersStay, IInv, BlockTypes
<1>3. ~Serving(r)' /\ ~Serving(r)
  BY Zenon, <1>2 DEF Serving
<1>4. \A k \in Key : <<r, "internal">> \notin holders'[k]
  BY Zenon, <1>1, <1>3 DEF PinAll, PinInv, InternallyPinned
<1>5. \A k \in keys'[r] : <<r, "caller">> \in holders'[k]
  BY Zenon, <1>1, <1>2 DEF PinAll
<1>6. /\ loc' \in [Key -> {"absent", "active", "candidate"}]
      /\ \A k \in Key : pins[k] > 0 => loc'[k] = "active"
  BY Zenon, <1>1 DEF PinInv, PinTypes, PinnedActive
<1> QED BY ZenonT(60), <1>1, <1>2, <1>3, <1>4, <1>5, <1>6, PinningStep

\* The second pin of an offer, a lease or a push.
LEMMA ServePins ==
  ASSUME IInv, IInv', PinInv, NEW r \in Actor, SaveRemotePin(r) \/ PinHostBlocks(r)
  PROVE  PinInv'
<1>1. kind[r] \in {"offer", "lease", "push"} /\ pc[r] = "pin" /\ keys[r] \in SUBSET Key
  BY Zenon DEF SaveRemotePin, PinHostBlocks, At, IInv, BlockTypes
<1>2. ~Serving(r)
  BY Zenon, <1>1 DEF Serving
<1>3. \A k \in Key : <<r, "internal">> \notin holders[k]
  BY Zenon, <1>2 DEF PinInv, InternallyPinned
<1>4. \/ /\ loc' = [k \in Key |-> IF k \in keys[r] THEN "active" ELSE loc[k]]
         /\ PinAll(keys[r], <<r, "internal">>)
         /\ Goto(r, "dma")
      \/ End(r) /\ UNCHANGED <<loc, pins, holders>>
  BY Zenon DEF SaveRemotePin, PinHostBlocks
<1>5. CASE End(r) /\ UNCHANGED <<loc, pins, holders>>
  BY Zenon, <1>2, <1>5, EndQuiet DEF PinInv, PinTypes, PinnedActive
<1>6. CASE /\ loc' = [k \in Key |-> IF k \in keys[r] THEN "active" ELSE loc[k]]
           /\ PinAll(keys[r], <<r, "internal">>)
           /\ Goto(r, "dma")
  <2>1. /\ OthersStay(r) /\ Serving(r)' /\ keys'[r] = keys[r] /\ kind'[r] = kind[r]
        /\ pc'[r] = "dma"
    BY Zenon, <1>1, <1>6 DEF Goto, OthersStay, Serving, IInv, BlockTypes
  <2>2. \A k \in Key : <<r, "internal">> \in holders'[k] <=> k \in keys[r]
    BY Zenon, <1>3, <1>6 DEF PinAll
  <2>3. Spending(r)' => \A k \in keys'[r] : <<r, "caller">> \in holders'[k]
    <3> SUFFICES ASSUME Spending(r)', NEW k \in keys[r] PROVE <<r, "caller">> \in holders'[k]
      BY Zenon, <2>1
    <3>1. <<r, "caller">> \in holders[k]
      BY Zenon, <2>1 DEF Spending, PinInv, CallerPinned
    <3> QED BY Zenon, <1>1, <1>6, <3>1 DEF PinAll
  <2>4. /\ loc' \in [Key -> {"absent", "active", "candidate"}]
        /\ \A k \in Key : pins[k] > 0 => loc'[k] = "active"
        /\ \A k \in keys[r] : loc'[k] = "active"
    BY Zenon, <1>1, <1>6 DEF PinInv, PinTypes, PinnedActive
  <2> QED BY ZenonT(60), <1>1, <1>3, <1>6, <2>1, <2>2, <2>3, <2>4, PinningStep
<1> QED BY Zenon, <1>4, <1>5, <1>6

-----------------------------------------------------------------------------
(* The actions that unpin *)

\* Pins of r on K are gone; it ends, or keeps none it needs.
LEMMA ReleasingStep ==
  ASSUME IInv, IInv', PinInv, NEW r \in Actor, NEW w \in {"caller", "internal"},
         NEW K \in SUBSET Key, \A k \in K : <<r, w>> \in holders[k],
         ReleaseAll(K, <<r, w>>), OthersStay(r), UNCHANGED loc,
         kind'[r] = "none", pc'[r] = "idle",
         \A k \in Key : <<r, "internal">> \notin holders'[k]
  PROVE  PinInv'
<1>1. <<r, w>> \in Holder
  BY Zenon DEF Holder
<1>2. /\ pins' \in [Key -> Nat]
      /\ holders' \in [Key -> SUBSET Holder]
      /\ PinsCounted'
      /\ \A k \in Key : pins'[k] <= pins[k]
  BY Zenon, <1>1, ReleaseAllCounts DEF PinInv
<1>3. PinTypes'
  BY Zenon, <1>2 DEF PinInv, PinTypes
<1>4. PinnedActive'
  <2> SUFFICES ASSUME NEW k \in Key, pins'[k] > 0 PROVE loc'[k] = "active"
    BY Zenon DEF PinnedActive
  <2>1. pins[k] > 0
    BY <1>2 DEF PinInv, PinTypes
  <2> QED BY Zenon, <2>1 DEF PinInv, PinnedActive
<1>5. \A s \in Actor, k \in Key, v \in {"caller", "internal"} :
        s # r => (<<s, v>> \in holders'[k] <=> <<s, v>> \in holders[k])
  BY Zenon DEF ReleaseAll, PinInv, PinTypes
<1>6. ~Spending(r)' /\ ~Serving(r)'
  BY Zenon DEF Spending, Serving
<1> QED BY ZenonT(60), <1>2, <1>3, <1>4, <1>5, <1>6, ActorStep

LEMMA CallerReleases ==
  ASSUME IInv, IInv', PinInv, NEW r \in Actor, SpendsCallerPins(r)
  PROVE  PinInv'
<1>1. ~Serving(r)
  BY ZenonT(60) DEF SpendsCallerPins, Release, LookupAnswer, WriteThrough, PollLoad, Polled,
     At, Serving
<1>2. \A k \in Key : <<r, "internal">> \notin holders[k]
  BY Zenon, <1>1 DEF PinInv, InternallyPinned
<1>3. ASSUME NEW K \in SUBSET Key, ReleaseAll(K, <<r, "caller">>)
      PROVE  \A k \in Key : <<r, "internal">> \notin holders'[k]
  BY Zenon, <1>2, <1>3 DEF ReleaseAll
<1>4. ASSUME NEW K \in SUBSET Key, Release(r, K) PROVE PinInv'
  <2>1. /\ pc[r] = "idle" /\ UNCHANGED <<loc, kind, pc, keys>>
        /\ ReleaseAll(K, <<r, "caller">>)
        /\ \A k \in K : <<r, "caller">> \in holders[k]
    BY Zenon, <1>4 DEF Release, Granted, ops
  <2>2. OthersStay(r) /\ kind'[r] = "none" /\ pc'[r] = "idle"
    BY Zenon, <2>1 DEF OthersStay, PinInv, AtRest
  <2> QED BY ZenonT(60), <1>3, <2>1, <2>2, ReleasingStep
<1>5. ASSUME Spending(r), End(r), UNCHANGED loc, NEW K \in SUBSET keys[r],
             ReleaseAll(K, <<r, "caller">>)
      PROVE  PinInv'
  <2>1. K \in SUBSET Key
    BY Zenon DEF IInv, BlockTypes
  <2>2. \A k \in K : <<r, "caller">> \in holders[k]
    BY Zenon, <1>5 DEF PinInv, CallerPinned
  <2>3. OthersStay(r) /\ kind'[r] = "none" /\ pc'[r] = "idle"
    BY <1>5 DEF End, OthersStay, IInv, BlockTypes
  <2> QED BY Zenon, <1>3, <1>5, <2>1, <2>2, <2>3, ReleasingStep
<1>6. ASSUME NEW kept \in SUBSET Key, LookupAnswer(r, kept) PROVE PinInv'
  <2>1. /\ Spending(r) /\ End(r) /\ UNCHANGED loc
        /\ ReleaseAll(keys[r] \ kept, <<r, "caller">>)
    BY Zenon, <1>6 DEF LookupAnswer, At, Spending
  <2> QED BY Zenon, <1>5, <2>1
<1>7. CASE WriteThrough(r)
  <2>1. Spending(r) /\ End(r) /\ UNCHANGED loc /\ ReleaseAll(keys[r], <<r, "caller">>)
    BY Zenon, <1>7 DEF WriteThrough, At, Spending
  <2> QED BY Zenon, <1>5, <2>1
<1>8. CASE PollLoad(r)
  <2>1. Spending(r) /\ End(r) /\ UNCHANGED loc
    BY ZenonT(60), <1>8 DEF PollLoad, Polled, At, Spending
  <2>2. ReleaseAll(keys[r] \cap Active, <<r, "caller">>) \/ UNCHANGED <<pins, holders>>
    BY Zenon, <1>8 DEF PollLoad
  <2>3. CASE ReleaseAll(keys[r] \cap Active, <<r, "caller">>)
    BY Zenon, <1>5, <2>1, <2>3
  <2>4. CASE UNCHANGED <<pins, holders>>
    BY Zenon, <1>1, <2>1, <2>4, EndQuiet DEF PinInv, PinTypes, PinnedActive
  <2> QED BY Zenon, <2>2, <2>3, <2>4
<1> QED BY Zenon, <1>4, <1>6, <1>7, <1>8 DEF SpendsCallerPins

\* The end of a lease or a push, and of an offer that was declined or failed.
LEMMA ServeReleases ==
  ASSUME IInv, IInv', PinInv, NEW r \in Actor,
         UnpinHostBlocks(r) \/ FinishRemoteWrite(r, FALSE)
  PROVE  PinInv'
<1>1. /\ Serving(r) /\ End(r) /\ UNCHANGED loc
      /\ ReleaseAll(keys[r], <<r, "internal">>)
  BY Zenon DEF UnpinHostBlocks, FinishRemoteWrite, At, Serving
<1>2. keys[r] \in SUBSET Key
  BY Zenon DEF IInv, BlockTypes
<1>3. \A k \in Key : <<r, "internal">> \in holders[k] <=> k \in keys[r]
  BY Zenon, <1>1 DEF PinInv, InternallyPinned
<1>4. \A k \in Key : <<r, "internal">> \notin holders'[k]
  BY Zenon, <1>1, <1>3 DEF ReleaseAll
<1>5. OthersStay(r) /\ kind'[r] = "none" /\ pc'[r] = "idle"
  BY <1>1 DEF End, OthersStay, IInv, BlockTypes
<1>6. \A k \in keys[r] : <<r, "internal">> \in holders[k]
  BY Zenon, <1>2, <1>3
<1> QED BY ZenonT(60), <1>1, <1>2, <1>4, <1>5, <1>6, ReleasingStep

\* An offer that was accepted takes both pins away.
LEMMA OfferReleases ==
  ASSUME IInv, IInv', PinInv, NEW r \in Actor, FinishRemoteWrite(r, TRUE)
  PROVE  PinInv'
<1>1. /\ Serving(r) /\ Spending(r) /\ End(r) /\ UNCHANGED loc
      /\ ReleaseTwice(keys[r], <<r, "caller">>, <<r, "internal">>)
  BY ZenonT(60) DEF FinishRemoteWrite, At, Serving, Spending
<1>2. keys[r] \in SUBSET Key
  BY Zenon DEF IInv, BlockTypes
<1>3. \A k \in Key : <<r, "internal">> \in holders[k] <=> k \in keys[r]
  BY Zenon, <1>1 DEF PinInv, InternallyPinned
<1>4. \A k \in keys[r] : <<r, "caller">> \in holders[k] /\ <<r, "internal">> \in holders[k]
  BY Zenon, <1>1, <1>2, <1>3 DEF PinInv, CallerPinned
<1>5. /\ <<r, "caller">> \in Holder /\ <<r, "internal">> \in Holder
      /\ <<r, "caller">> # <<r, "internal">>
  BY Zenon DEF Holder
<1>6. /\ pins' \in [Key -> Nat]
      /\ holders' \in [Key -> SUBSET Holder]
      /\ PinsCounted'
      /\ \A k \in Key : pins'[k] <= pins[k]
  BY ZenonT(60), <1>1, <1>2, <1>4, <1>5, ReleaseTwiceCounts DEF PinInv
<1>7. PinTypes'
  BY Zenon, <1>1, <1>6 DEF PinInv, PinTypes
<1>8. PinnedActive'
  <2> SUFFICES ASSUME NEW k \in Key, pins'[k] > 0 PROVE loc'[k] = "active"
    BY Zenon DEF PinnedActive
  <2>1. pins[k] > 0
    BY <1>6 DEF PinInv, PinTypes
  <2> QED BY Zenon, <1>1, <2>1 DEF PinInv, PinnedActive
<1>9. \A s \in Actor, k \in Key, v \in {"caller", "internal"} :
        s # r => (<<s, v>> \in holders'[k] <=> <<s, v>> \in holders[k])
  BY Zenon, <1>1 DEF ReleaseTwice, PinInv, PinTypes
<1>10. \A k \in Key : <<r, "internal">> \notin holders'[k]
  BY Zenon, <1>1, <1>3 DEF ReleaseTwice
<1>11. OthersStay(r) /\ kind'[r] = "none" /\ pc'[r] = "idle"
  BY <1>1 DEF End, OthersStay, IInv, BlockTypes
<1>12. ~Spending(r)' /\ ~Serving(r)'
  BY Zenon, <1>11 DEF Spending, Serving
<1> QED BY ZenonT(60), <1>6, <1>7, <1>8, <1>9, <1>10, <1>11, <1>12, ActorStep

LEMMA PinStepHolds == IInv /\ IInv' /\ PinInv /\ [Next]_vars => PinInv'
<1> SUFFICES ASSUME IInv, IInv', PinInv, [Next]_vars PROVE PinInv'
  OBVIOUS
<1>1. CASE UNCHANGED vars \/ StrayLand
  <2>1. UNCHANGED <<loc, pins, holders, kind, pc, keys>>
    BY Zenon, <1>1 DEF vars, index, ops, StrayLand
  <2> QED BY Zenon, <2>1 DEF PinInv, PinTypes, PinsCounted, PinnedActive, CallerPinned, Spending,
                      InternallyPinned, Serving, AtRest
<1>2. ASSUME NEW r \in Actor, Start(r) PROVE PinInv'
  <2>1. Batches \subseteq SUBSET Key
    BY Zenon DEF Batches
  <2> QED BY Zenon, <1>2, <2>1, InsertPins, LookupPins, SweepPins, CallerReleases, StartQuiet
          DEF Start, StartsUnpinned, SpendsCallerPins
<1>3. ASSUME NEW r \in Actor, Continue(r) PROVE PinInv'
  BY ZenonT(60), <1>3, CallerReleases, RunQuiet, EraseQuiet, ServePins, ServeReleases, OfferReleases,
     CompleteQuiet
     DEF Continue, KeepsPins, SpendsCallerPins
<1> QED BY Zenon, <1>1, <1>2, <1>3 DEF Next

\* Every pin of the index has exactly one holder, an application call that was
\* granted it or an operation of the store that took it: a release never takes the
\* pin of somebody else, and a pinned entry is active (Lookup, Insert, Release and
\* the polls that spend the pins of a save, a load or an offer).
THEOREM PinsHaveHolders == Spec => [](PinsCounted /\ PinnedActive)
<1>1. PinInv => PinsCounted /\ PinnedActive
  BY DEF PinInv
<1> QED BY InitHolds, StepHolds, PinInit, PinStepHolds, <1>1, PTL DEF Spec
=============================================================================
