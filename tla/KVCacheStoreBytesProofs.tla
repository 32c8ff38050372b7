---------------------- MODULE KVCacheStoreBytesProofs ----------------------
(***************************************************************************)
(* Proof that the host block of an entry holds the bytes of its hash, and  *)
(* that loads and offers to a peer read the right bytes to the end, for    *)
(* any number of actors, hashes and blocks: the marks of the store keep    *)
(* saves apart, the host block of an entry does not change under a save or *)
(* under a running read of a pinned batch, and a block is filled before it *)
(* is bound.  The last layers of KVCacheStoreInv.                          *)
(***************************************************************************)
EXTENDS KVCacheStoreProofs

-----------------------------------------------------------------------------
(* The shapes of a step *)

LEMMA OnwardStays ==
  ASSUME IInv, NEW r \in Actor, Onward(r)
  PROVE  /\ OthersStay(r)
         /\ kind'[r] = kind[r] /\ keys'[r] = keys[r]
         /\ pc'[r] \in {"erase", "dealloc", "grab", "mark", "dma", "ready"}
BY Zenon DEF Onward, OthersStay, IInv, BlockTypes

LEMMA EndStays ==
  ASSUME IInv, NEW r \in Actor, End(r)
  PROVE  OthersStay(r) /\ kind'[r] = "none" /\ pc'[r] = "idle" /\ keys'[r] = {}
BY Zenon DEF End, OthersStay, IInv, BlockTypes

LEMMA BeginStays ==
  ASSUME IInv, NEW r \in Actor, NEW op, NEW at, NEW K, Begin(r, op, at, K)
  PROVE  /\ OthersStay(r) /\ pc[r] = "idle"
         /\ kind'[r] = op /\ pc'[r] = at /\ keys'[r] = K
BY Zenon DEF Begin, OthersStay, IInv, BlockTypes

\* What an operation does next keeps its batch, or ends it; PollSaveDone is apart.
LEMMA ContinueShape ==
  ASSUME IInv, NEW r \in Actor, Continue(r), ~PollSaveDone(r)
  PROVE  End(r) \/ Onward(r)
<1> USE DEF Onward, Goto, At, Polled
<1>1. CASE \/ \E kept \in SUBSET Key : LookupAnswer(r, kept)
           \/ \E ok \in BOOLEAN : FinishRemoteWrite(r, ok)
           \/ PollSaveFailed(r) \/ WriteThrough(r) \/ ReadRemoteUndo(r) \/ PollRemoteRead(r)
           \/ PollLoad(r) \/ PollLoadRemote(r) \/ UnpinHostBlocks(r) \/ CompleteWriteRemote(r)
  BY ZenonT(60), <1>1 DEF LookupAnswer, FinishRemoteWrite, PollSaveFailed, WriteThrough, ReadRemoteUndo,
              PollRemoteRead, PollLoad, PollLoadRemote, UnpinHostBlocks, CompleteWriteRemote
<1>2. CASE Choose(r) \/ Erase(r) \/ Dealloc(r)
  BY Zenon, <1>2 DEF Choose, Erase, Dealloc
<1>3. CASE Grab(r)
  BY Zenon, <1>3 DEF Grab
<1>4. CASE (\E ok \in BOOLEAN : Land(r, ok)) \/ GiveUp(r)
  BY Zenon, <1>4 DEF Land, GiveUp
<1>5. CASE ReadRemoteIssue(r) \/ LoadIssue(r) \/ SaveRemotePin(r) \/ PinHostBlocks(r)
  BY Zenon, <1>5 DEF ReadRemoteIssue, LoadIssue, SaveRemotePin, PinHostBlocks
<1> QED BY Zenon, <1>1, <1>2, <1>3, <1>4, <1>5 DEF Continue

-----------------------------------------------------------------------------
(* Marks *)

LEMMA MarkInit == Init => MarkInv
BY Zenon DEF Init, MarkInv, Marked

\* Only marks of r may go, and r marks only what nobody had marked.
LEMMA MarkStep ==
  ASSUME MarkInv, NEW r \in Actor, OthersStay(r), saving' \subseteq Key,
         \A k \in saving : k \in saving' \/ (Marked(r) /\ k \in keys[r]),
         Marked(r)' => /\ keys'[r] \subseteq saving'
                       /\ \/ Marked(r) /\ keys'[r] \subseteq keys[r]
                          \/ keys'[r] \cap saving = {}
  PROVE  MarkInv'
<1>1. \A s \in Actor : s # r => (Marked(s)' <=> Marked(s)) /\ keys'[s] = keys[s]
  BY Zenon DEF OthersStay, Marked
<1>2. ASSUME NEW s \in Actor, Marked(s)' PROVE keys'[s] \subseteq saving'
  <2>1. CASE s = r
    BY Zenon, <1>2, <2>1
  <2>2. CASE s # r
    BY Zenon, <1>1, <1>2, <2>2 DEF MarkInv
  <2> QED BY Zenon, <2>1, <2>2
<1>3. ASSUME NEW s \in Actor, s # r, Marked(r)', Marked(s)'
      PROVE  keys'[r] \cap keys'[s] = {}
  <2>1. Marked(s) /\ keys'[s] = keys[s] /\ keys[s] \subseteq saving
    BY Zenon, <1>1, <1>3 DEF MarkInv
  <2>2. CASE Marked(r) /\ keys'[r] \subseteq keys[r]
    BY Zenon, <1>3, <2>1, <2>2 DEF MarkInv
  <2>3. CASE keys'[r] \cap saving = {}
    BY Zenon, <2>1, <2>3
  <2> QED BY Zenon, <1>3, <2>2, <2>3
<1>4. ASSUME NEW s \in Actor, NEW t \in Actor, s # t, Marked(s)', Marked(t)'
      PROVE  keys'[s] \cap keys'[t] = {}
  <2>1. CASE s = r \/ t = r
    BY Zenon, <1>3, <1>4, <2>1
  <2>2. CASE s # r /\ t # r
    BY Zenon, <1>1, <1>4, <2>2 DEF MarkInv
  <2> QED BY Zenon, <2>1, <2>2
<1> QED BY Zenon, <1>2, <1>4 DEF MarkInv

LEMMA MarkStart ==
  ASSUME IInv, MarkInv, NEW r \in Actor, Start(r)
  PROVE  MarkInv'
<1>0. PICK K \in Batches :
      \/ Insert(r, K) \/ Lookup(r, K) \/ SweepPin(r, K) \/ Release(r, K)
      \/ SaveLocal(r, K) \/ ReadRemote(r, K) \/ Load(r, K) \/ LoadRemote(r, K)
      \/ SaveRemote(r, K) \/ ValidateAndPinHostBlocks(r, K) \/ Fetch(r, K)
      \/ WriteRemote(r, K) \/ Evict(r, K)
  BY Zenon DEF Start
<1>1. K \in SUBSET Key
  BY Zenon, <1>0 DEF Batches
<1>2. CASE Insert(r, K) \/ SweepPin(r, K) \/ Release(r, K)
  BY Zenon, <1>2 DEF Insert, SweepPin, Release, marks, ops, MarkInv, Marked
<1>3. CASE SaveLocal(r, K) \/ SaveRemote(r, K)
  <2>1. saving' = saving \cup K /\ K \cap saving = {}
    BY Zenon, <1>3 DEF SaveLocal, SaveRemote
  <2>2. OthersStay(r) /\ keys'[r] = K
    BY Zenon, <1>3, BeginStays DEF SaveLocal, SaveRemote
  <2>3. saving' \subseteq Key
    BY Zenon, <1>1, <2>1 DEF MarkInv
  <2> QED BY Zenon, <2>1, <2>2, <2>3, MarkStep
<1>4. ASSUME NEW op \in {"lookup", "read", "load", "fetch", "lease", "push", "write", "evict"},
             NEW at, NEW B, Begin(r, op, at, B), UNCHANGED saving
      PROVE  MarkInv'
  <2>1. OthersStay(r) /\ kind'[r] = op
    BY Zenon, <1>4, BeginStays
  <2>2. ~Marked(r)'
    BY Zenon, <2>1 DEF Marked
  <2> QED BY Zenon, <1>4, <2>1, <2>2, MarkStep DEF MarkInv
<1>5. CASE Lookup(r, K) \/ ReadRemote(r, K) \/ Load(r, K) \/ LoadRemote(r, K)
  BY Zenon, <1>4, <1>5 DEF Lookup, ReadRemote, Load, LoadRemote, marks
<1>6. CASE ValidateAndPinHostBlocks(r, K) \/ Fetch(r, K) \/ WriteRemote(r, K) \/ Evict(r, K)
  BY Zenon, <1>4, <1>6 DEF ValidateAndPinHostBlocks, Fetch, LookUpToServe, WriteRemote, Evict, marks
<1> QED BY Zenon, <1>0, <1>2, <1>3, <1>5, <1>6

LEMMA MarkContinue ==
  ASSUME IInv, MarkInv, NEW r \in Actor, Continue(r)
  PROVE  MarkInv'
<1>1. CASE PollSaveDone(r)
  <2>1. /\ kind[r] = "save" /\ pc[r] = "ready" /\ saving' = saving \ keys[r]
        /\ kind' = kind /\ pc' = [pc EXCEPT ![r] = "publish"]
        /\ keys' = [keys EXCEPT ![r] = @ \cap Active]
    BY Zenon, <1>1 DEF PollSaveDone, Polled, At
  <2>2. OthersStay(r) /\ Marked(r) /\ ~Marked(r)'
    BY Zenon, <2>1 DEF OthersStay, Marked, IInv, BlockTypes
  <2> QED BY Zenon, <2>1, <2>2, MarkStep DEF MarkInv
<1>2. CASE ~PollSaveDone(r)
  <2>1. \/ UNCHANGED saving
        \/ Marked(r) /\ saving' = saving \ keys[r] /\ End(r)
    <3>1. CASE Choose(r) \/ Grab(r)
      BY Zenon, <3>1 DEF Choose, Grab, Unmark, marks, Marked
    <3>2. CASE \E ok \in BOOLEAN : FinishRemoteWrite(r, ok)
      BY Zenon, <3>2 DEF FinishRemoteWrite, At, Marked
    <3>3. CASE PollSaveFailed(r)
      BY Zenon, <3>3 DEF PollSaveFailed, Polled, At, Marked
    <3>4. CASE \/ \E kept \in SUBSET Key : LookupAnswer(r, kept)
               \/ \E ok \in BOOLEAN : Land(r, ok)
               \/ Erase(r) \/ Dealloc(r) \/ GiveUp(r) \/ WriteThrough(r)
      BY ZenonT(60), <3>4 DEF LookupAnswer, Land, Erase, Dealloc, GiveUp, WriteThrough, marks
    <3>5. CASE \/ ReadRemoteIssue(r) \/ ReadRemoteUndo(r) \/ PollRemoteRead(r)
               \/ LoadIssue(r) \/ PollLoad(r) \/ PollLoadRemote(r)
      BY Zenon, <3>5 DEF ReadRemoteIssue, ReadRemoteUndo, PollRemoteRead, LoadIssue, PollLoad,
                  PollLoadRemote, marks
    <3>6. CASE PinHostBlocks(r) \/ SaveRemotePin(r) \/ UnpinHostBlocks(r) \/ CompleteWriteRemote(r)
      BY Zenon, <3>6 DEF PinHostBlocks, SaveRemotePin, UnpinHostBlocks, CompleteWriteRemote, marks
    <3> QED BY Zenon, <1>2, <3>1, <3>2, <3>3, <3>4, <3>5, <3>6 DEF Continue
  <2>2. OthersStay(r) /\ (Marked(r)' => Marked(r) /\ keys'[r] = keys[r] /\ ~End(r))
    <3>1. CASE End(r)
      BY Zenon, <3>1, EndStays DEF Marked
    <3>2. CASE Onward(r) /\ ~End(r)
      BY ZenonT(60), <3>2, OnwardStays DEF Marked, Onward
    <3> QED BY Zenon, <1>2, <3>1, <3>2, ContinueShape
  <2>3. saving' \subseteq Key
    BY Zenon, <2>1 DEF MarkInv
  <2>4. Marked(r)' => keys'[r] \subseteq saving'
    BY Zenon, <2>1, <2>2 DEF MarkInv
  <2> QED BY Zenon, <2>1, <2>2, <2>3, <2>4, MarkStep
<1> QED BY Zenon, <1>1, <1>2

LEMMA MarkStepHolds == IInv /\ MarkInv /\ [Next]_vars => MarkInv'
<1> SUFFICES ASSUME IInv, MarkInv, [Next]_vars PROVE MarkInv'
  OBVIOUS
<1>1. CASE UNCHANGED vars \/ StrayLand
  BY Zenon, <1>1 DEF vars, marks, ops, StrayLand, MarkInv, Marked
<1> QED BY Zenon, <1>1, MarkStart, MarkContinue DEF Next

-----------------------------------------------------------------------------
(* Bindings *)

LEMMA BindInit == Init => BindInv
BY DEF Init, BindInv, Filling, Snapped, NoBlocks, MaybeBlock

\* The batch of a running save, load or offer is pinned by it.
LEMMA BatchPinned ==
  ASSUME IInv, PinInv, HeldActive, NEW r \in Actor, Spending(r), NEW k \in keys[r]
  PROVE  k \in Key /\ pins[k] > 0 /\ loc[k] = "active"
<1>1. k \in Key /\ <<r, "caller">> \in holders[k]
  BY Zenon DEF IInv, BlockTypes, PinInv, CallerPinned
<1> QED BY Zenon, <1>1 DEF HeldActive

\* An entry changes its host block only while unpinned, or when r's save ends.
LEMMA BindStep ==
  ASSUME IInv, PinInv, HeldActive, MarkInv, BindInv, NEW r \in Actor, OthersStay(r),
         snap' \in [Actor -> [Key -> MaybeBlock]],
         \A s \in Actor : s # r => snap'[s] = snap[s],
         \A k \in Key : \/ host'[k] = host[k] \/ ~(pins[k] > 0)
                        \/ Filling(r) /\ k \in keys[r],
         Filling(r)' => \A k \in keys'[r] : host'[k] = None,
         \A k \in Key : snap'[r][k] # None => Snapped(r, k)'
  PROVE  BindInv'
<1>1. ASSUME NEW s \in Actor, Filling(s)', NEW k \in keys'[s] PROVE host'[k] = None
  <2>1. CASE s = r
    BY Zenon, <1>1, <2>1
  <2>2. CASE s # r
    <3>1. Filling(s) /\ k \in keys[s]
      BY Zenon, <1>1, <2>2 DEF OthersStay, Filling
    <3>2. k \in Key /\ pins[k] > 0
      BY Zenon, <3>1, BatchPinned DEF Filling, Spending
    <3>3. ~(Filling(r) /\ k \in keys[r])
      BY Zenon, <2>2, <3>1 DEF MarkInv, Marked, Filling
    <3>4. host[k] = None
      BY Zenon, <3>1 DEF BindInv
    <3> QED BY Zenon, <3>2, <3>3, <3>4
  <2> QED BY Zenon, <2>1, <2>2
<1>2. ASSUME NEW s \in Actor, NEW k \in Key, snap'[s][k] # None PROVE Snapped(s, k)'
  <2>1. CASE s = r
    BY Zenon, <1>2, <2>1
  <2>2. CASE s # r
    <3>1. snap[s][k] # None /\ Snapped(s, k)
      BY Zenon, <1>2, <2>2 DEF BindInv
    <3>2. ASSUME kind[s] \in {"load", "offer"} PROVE host'[k] = host[k]
      <4>1. pins[k] > 0 /\ host[k] # None
        BY Zenon, <3>1, <3>2, BatchPinned DEF Snapped, Spending
      <4>2. ~(Filling(r) /\ k \in keys[r])
        BY Zenon, <4>1 DEF BindInv
      <4> QED BY Zenon, <4>1, <4>2
    <3> QED BY Zenon, <2>2, <3>1, <3>2 DEF Snapped, OthersStay
  <2> QED BY Zenon, <2>1, <2>2
<1> QED BY Zenon, <1>1, <1>2 DEF BindInv

\* An actor outside a load, an offer, a lease or a push reads nothing.
LEMMA ReadsNothing ==
  ASSUME BindInv, NEW r \in Actor, kind[r] \notin {"load", "offer", "lease", "push"}
  PROVE  \A k \in Key : snap[r][k] = None
BY Zenon DEF BindInv, Snapped

LEMMA BindStart ==
  ASSUME IInv, PinInv, HeldActive, MarkInv, BindInv, NEW r \in Actor, Start(r)
  PROVE  BindInv'
<1>0. PICK K \in Batches :
      \/ Insert(r, K) \/ Lookup(r, K) \/ SweepPin(r, K) \/ Release(r, K)
      \/ SaveLocal(r, K) \/ ReadRemote(r, K) \/ Load(r, K) \/ LoadRemote(r, K)
      \/ SaveRemote(r, K) \/ ValidateAndPinHostBlocks(r, K) \/ Fetch(r, K)
      \/ WriteRemote(r, K) \/ Evict(r, K)
  BY Zenon DEF Start
<1>1. K \in SUBSET Key
  BY Zenon, <1>0 DEF Batches
<1>2. pc[r] = "idle"
  BY Zenon, <1>0 DEF Insert, Lookup, SweepPin, Release, SaveLocal, ReadRemote, Load, LoadRemote, SaveRemote,
         ValidateAndPinHostBlocks, Fetch, LookUpToServe, WriteRemote, Evict, Begin
<1>3. kind[r] = "none"
  BY ZenonT(60), <1>2 DEF PinInv, AtRest
<1>4. \A k \in Key : snap[r][k] = None
  BY Zenon, <1>3, ReadsNothing
<1>5. CASE SweepPin(r, K) \/ Release(r, K)
  <2>1. UNCHANGED <<host, kind, pc, keys, snap>>
    BY Zenon, <1>5 DEF SweepPin, Release, ops
  <2> QED BY Zenon, <2>1 DEF BindInv, Filling, Snapped
<1>6. CASE Insert(r, K)
  <2>1. UNCHANGED <<kind, pc, keys, snap>>
    BY Zenon, <1>6 DEF Insert, ops
  <2>2. \A k \in Key : host'[k] = host[k] \/ ~(pins[k] > 0)
    BY Zenon, <1>6 DEF Insert, InsertAndLock, Active, PinInv, PinnedActive
  <2>3. OthersStay(r) /\ ~Filling(r)'
    BY Zenon, <1>3, <2>1 DEF OthersStay, Filling
  <2> QED BY ZenonT(60), <1>4, <2>1, <2>2, <2>3, BindStep DEF BindInv
<1>7. ASSUME NEW op \in {"lookup", "read", "load", "fetch", "write", "evict"}, NEW at, NEW B,
             Begin(r, op, at, B), UNCHANGED <<host, snap>>
      PROVE  BindInv'
  <2>1. OthersStay(r) /\ ~Filling(r)'
    BY Zenon, <1>7, BeginStays DEF Filling
  <2> QED BY ZenonT(60), <1>4, <1>7, <2>1, BindStep DEF BindInv
<1>8. CASE Lookup(r, K) \/ ReadRemote(r, K) \/ Load(r, K) \/ LoadRemote(r, K)
  BY Zenon, <1>7, <1>8 DEF Lookup, ReadRemote, Load, LoadRemote, index
<1>9. CASE WriteRemote(r, K) \/ Evict(r, K)
  BY Zenon, <1>7, <1>9 DEF WriteRemote, Evict, index
<1>10. CASE SaveLocal(r, K)
  <2>1. OthersStay(r) /\ keys'[r] = K /\ UNCHANGED <<host, snap>>
    BY Zenon, <1>10, BeginStays DEF SaveLocal, index
  <2>2. \A k \in K : host[k] = None
    BY Zenon, <1>1, <1>10 DEF SaveLocal, Resident, Active
  <2> QED BY ZenonT(60), <1>4, <2>1, <2>2, BindStep DEF BindInv
<1>11. ASSUME NEW op \in {"offer", "lease", "push"}, Begin(r, op, "pin", K), UNCHANGED host,
              snap' = [snap EXCEPT ![r] = [k \in Key |-> IF k \in K THEN host[k] ELSE None]]
       PROVE  BindInv'
  <2>1. OthersStay(r) /\ keys'[r] = K /\ kind'[r] = op
    BY ZenonT(60), <1>11, BeginStays
  <2>2. /\ snap' \in [Actor -> [Key -> MaybeBlock]]
        /\ \A s \in Actor : s # r => snap'[s] = snap[s]
        /\ \A k \in Key : snap'[r][k] = IF k \in K THEN host[k] ELSE None
    BY Zenon, <1>11 DEF BindInv, IInv, BlockTypes, MaybeBlock
  <2>3. \A k \in Key : snap'[r][k] # None => Snapped(r, k)'
    BY Zenon, <1>11, <2>1, <2>2 DEF Snapped
  <2>4. ~Filling(r)'
    BY Zenon, <2>1 DEF Filling
  <2> QED BY Zenon, <1>11, <2>1, <2>2, <2>3, <2>4, BindStep
<1>12. CASE SaveRemote(r, K) \/ ValidateAndPinHostBlocks(r, K) \/ Fetch(r, K)
  BY Zenon, <1>11, <1>12 DEF SaveRemote, ValidateAndPinHostBlocks, Fetch, LookUpToServe, index
<1> QED BY Zenon, <1>0, <1>5, <1>6, <1>8, <1>9, <1>10, <1>12

LEMMA BindContinue ==
  ASSUME IInv, PinInv, HeldActive, MarkInv, BindInv, NEW r \in Actor, Continue(r)
  PROVE  BindInv'
<1>1. CASE PollSaveDone(r)
  <2>1. /\ kind[r] = "save" /\ pc[r] = "ready" /\ UNCHANGED <<kind, snap>>
        /\ pc' = [pc EXCEPT ![r] = "publish"] /\ keys' = [keys EXCEPT ![r] = @ \cap Active]
        /\ \A k \in Key : host'[k] = host[k] \/ k \in keys[r]
    BY Zenon, <1>1 DEF PollSaveDone, Polled, At
  <2>2. OthersStay(r) /\ Filling(r) /\ ~Filling(r)'
    BY Zenon, <2>1 DEF OthersStay, Filling, IInv, BlockTypes
  <2>3. \A k \in Key : snap[r][k] = None
    BY Zenon, <2>1, ReadsNothing
  <2> QED BY Zenon, <2>1, <2>2, <2>3, BindStep DEF BindInv
<1>2. CASE Erase(r)
  <2>1. /\ Onward(r) /\ UNCHANGED snap /\ kind[r] \in {"save", "read", "evict"}
        /\ host' = [k \in Key |-> IF k \in Evictable(victims[r]) THEN None ELSE host[k]]
    BY Zenon, <1>2 DEF Erase, Goto, Onward, IInv, Allocating
  <2>2. \A k \in Key : host'[k] = host[k] \/ (~(pins[k] > 0) /\ host'[k] = None)
    <3> TAKE k \in Key
    <3>1. CASE k \in Evictable(victims[r])
      <4>1. pins[k] = 0
        BY Zenon, <3>1 DEF Evictable
      <4> QED BY <2>1, <3>1, <4>1
    <3> QED BY Zenon, <2>1, <3>1
  <2>3. \A k \in Key : snap[r][k] = None
    BY Zenon, <2>1, ReadsNothing
  <2>4. Filling(r)' => \A k \in keys'[r] : host'[k] = None
    BY Zenon, <2>1, <2>2, OnwardStays DEF Filling, Onward, BindInv, IInv, BlockTypes
  <2> QED BY Zenon, <2>1, <2>2, <2>3, <2>4, OnwardStays, BindStep DEF BindInv
<1>3. CASE CompleteWriteRemote(r)
  <2>1. End(r) /\ UNCHANGED snap /\ kind[r] = "write"
    BY ZenonT(60), <1>3 DEF CompleteWriteRemote, At
  <2>2. \A k \in Key : host'[k] = host[k] \/ ~(pins[k] > 0)
    BY Zenon, <1>3 DEF CompleteWriteRemote, CanInsertAll, Stored, PinInv, PinnedActive
  <2>3. \A k \in Key : snap[r][k] = None
    BY Zenon, <2>1, ReadsNothing
  <2>4. OthersStay(r) /\ ~Filling(r)'
    BY Zenon, <2>1, EndStays DEF Filling
  <2> QED BY Zenon, <2>1, <2>2, <2>3, <2>4, BindStep DEF BindInv
<1>4. CASE LoadIssue(r)
  <2>1. kind[r] = "load" /\ Onward(r) /\ UNCHANGED host
    BY Zenon, <1>4 DEF LoadIssue, At, Goto, Onward, index
  <2>2. OthersStay(r) /\ ~Filling(r)' /\ kind'[r] = "load" /\ keys'[r] = keys[r]
    BY Zenon, <2>1, OnwardStays DEF Filling
  <2>3. CASE UNCHANGED snap
    BY Zenon, <2>1, <2>2, <2>3, BindStep DEF BindInv, Snapped
  <2>4. CASE snap' = [snap EXCEPT ![r] = [k \in Key |-> IF k \in keys[r] THEN host[k] ELSE None]]
    <3>1. /\ snap' \in [Actor -> [Key -> MaybeBlock]]
          /\ \A s \in Actor : s # r => snap'[s] = snap[s]
          /\ \A k \in Key : snap'[r][k] = IF k \in keys[r] THEN host[k] ELSE None
      BY Zenon, <2>4 DEF BindInv, IInv, BlockTypes, MaybeBlock
    <3>2. \A k \in Key : snap'[r][k] # None => Snapped(r, k)'
      BY Zenon, <2>1, <2>2, <3>1 DEF Snapped
    <3> QED BY ZenonT(60), <2>1, <2>2, <3>1, <3>2, BindStep
  <2> QED BY Zenon, <1>4, <2>3, <2>4 DEF LoadIssue
<1>5. ASSUME End(r), UNCHANGED host, snap' = [snap EXCEPT ![r] = NoBlocks] PROVE BindInv'
  <2>1. /\ snap' \in [Actor -> [Key -> MaybeBlock]]
        /\ \A s \in Actor : s # r => snap'[s] = snap[s]
        /\ \A k \in Key : snap'[r][k] = None
    BY Zenon, <1>5 DEF BindInv, NoBlocks, MaybeBlock
  <2>2. OthersStay(r) /\ ~Filling(r)'
    BY Zenon, <1>5, EndStays DEF Filling
  <2> QED BY Zenon, <1>5, <2>1, <2>2, BindStep
<1>6. CASE PollLoad(r) \/ UnpinHostBlocks(r) \/ \E ok \in BOOLEAN : FinishRemoteWrite(r, ok)
  BY Zenon, <1>5, <1>6 DEF PollLoad, UnpinHostBlocks, FinishRemoteWrite
<1>7. ASSUME Onward(r), UNCHANGED <<host, snap>> PROVE BindInv'
  <2>1. /\ OthersStay(r) /\ kind'[r] = kind[r] /\ keys'[r] = keys[r]
        /\ Filling(r)' => Filling(r)
    BY ZenonT(60), <1>7, OnwardStays DEF Filling, Onward
  <2>2. \A k \in Key : snap'[r][k] # None => Snapped(r, k)'
    BY Zenon, <1>7, <2>1 DEF Snapped, BindInv
  <2> QED BY Zenon, <1>7, <2>1, <2>2, BindStep DEF BindInv
<1>8. ASSUME End(r), UNCHANGED <<host, snap>>, kind[r] \notin {"load", "offer", "lease", "push"}
      PROVE  BindInv'
  <2>1. OthersStay(r) /\ ~Filling(r)'
    BY Zenon, <1>8, EndStays DEF Filling
  <2>2. \A k \in Key : snap[r][k] = None
    BY Zenon, <1>8, ReadsNothing
  <2> QED BY Zenon, <1>8, <2>1, <2>2, BindStep DEF BindInv
<1>9. CASE PinHostBlocks(r) \/ SaveRemotePin(r)
  <2>1. UNCHANGED host
    BY Zenon, <1>9 DEF PinHostBlocks, SaveRemotePin
  <2>2. (Onward(r) /\ UNCHANGED snap) \/ (End(r) /\ snap' = [snap EXCEPT ![r] = NoBlocks])
    BY Zenon, <1>9 DEF PinHostBlocks, SaveRemotePin, Onward, Goto, At
  <2> QED BY Zenon, <1>5, <1>7, <2>1, <2>2
<1>10. CASE /\ ~PollSaveDone(r)
            /\ \/ \E kept \in SUBSET Key : LookupAnswer(r, kept)
               \/ \E ok \in BOOLEAN : Land(r, ok)
               \/ Choose(r) \/ Dealloc(r) \/ Grab(r) \/ GiveUp(r) \/ PollSaveFailed(r)
               \/ WriteThrough(r) \/ ReadRemoteIssue(r) \/ ReadRemoteUndo(r)
               \/ PollRemoteRead(r) \/ PollLoadRemote(r)
  <2>1. UNCHANGED <<host, snap>>
    BY ZenonT(60), <1>10 DEF LookupAnswer, Land, Choose, Dealloc, Grab, GiveUp, PollSaveFailed, WriteThrough,
                 ReadRemoteIssue, ReadRemoteUndo, PollRemoteRead, PollLoadRemote, index
  <2>2. Onward(r) \/ kind[r] \notin {"load", "offer", "lease", "push"}
    <3>1. CASE (\E ok \in BOOLEAN : Land(r, ok)) \/ GiveUp(r)
      BY Zenon, <3>1 DEF Land, GiveUp, Onward
    <3>2. CASE Choose(r) \/ Dealloc(r) \/ Grab(r)
      BY Zenon, <3>2 DEF Choose, Dealloc, Grab, IInv, Allocating
    <3>3. CASE \/ \E kept \in SUBSET Key : LookupAnswer(r, kept)
               \/ PollSaveFailed(r) \/ WriteThrough(r) \/ ReadRemoteIssue(r)
               \/ ReadRemoteUndo(r) \/ PollRemoteRead(r) \/ PollLoadRemote(r)
      BY ZenonT(60), <3>3 DEF LookupAnswer, PollSaveFailed, WriteThrough, ReadRemoteIssue, ReadRemoteUndo,
                  PollRemoteRead, PollLoadRemote, Polled, At
    <3> QED BY Zenon, <1>10, <3>1, <3>2, <3>3
  <2>3. Onward(r) \/ End(r)
    BY Zenon, <1>10, ContinueShape
  <2> QED BY Zenon, <1>7, <1>8, <2>1, <2>2, <2>3
<1> QED BY Zenon, <1>1, <1>2, <1>3, <1>4, <1>6, <1>9, <1>10 DEF Continue

LEMMA BindStepHolds == IInv /\ PinInv /\ HeldActive /\ MarkInv /\ BindInv /\ [Next]_vars => BindInv'
<1> SUFFICES ASSUME IInv, PinInv, HeldActive, MarkInv, BindInv, [Next]_vars PROVE BindInv'
  OBVIOUS
<1>1. CASE UNCHANGED vars \/ StrayLand
  BY <1>1 DEF vars, index, ops, StrayLand, BindInv, Filling, Snapped
<1> QED BY Zenon, <1>1, BindStart, BindContinue DEF Next

-----------------------------------------------------------------------------
(* Bytes *)

LEMMA ByteInit == Init => ByteInv
BY DEF Init, ByteInv, Filled, NoBlocks

\* BlockOwnership, seen from a block that is bound and from one that is allocated.
LEMMA BoundApart ==
  ASSUME IInv, NEW k \in Key, host[k] # None
  PROVE  /\ host[k] \in Block /\ host[k] \notin free
         /\ \A r \in Actor : host[k] \notin Owned(r)
<1>1. BlockOwnership /\ host[k] \in MaybeBlock /\ \A r \in Actor : keys[r] \subseteq Key
  BY Zenon DEF IInv, BlockTypes
<1>2. host[k] \in Block
  BY Zenon, <1>1 DEF MaybeBlock
<1>3. host[k] \notin free
  BY Zenon, <1>1 DEF BlockOwnership, FreeApart
<1>4. ASSUME NEW r \in Actor, NEW j \in keys[r], own[r][j] # None PROVE own[r][j] # host[k]
  BY Zenon, <1>1, <1>4 DEF BlockOwnership, OwnedUnbound
<1> QED BY Zenon, <1>2, <1>3, <1>4 DEF Owned

LEMMA OwnedApart ==
  ASSUME IInv, NEW s \in Actor, NEW k \in Key, own[s][k] # None
  PROVE  /\ own[s][k] \in Block /\ own[s][k] \notin free
         /\ \A r \in Actor : r # s => own[s][k] \notin Owned(r)
         /\ \A j \in Key : own[s][j] = own[s][k] => j = k
<1>1. BlockOwnership /\ own[s][k] \in MaybeBlock /\ \A r \in Actor : keys[r] \subseteq Key
  BY Zenon DEF IInv, BlockTypes
<1>2. own[s][k] \in Block
  BY Zenon, <1>1 DEF MaybeBlock
<1>3. own[s][k] \notin free
  BY Zenon, <1>1 DEF BlockOwnership, FreeApart
<1>4. ASSUME NEW r \in Actor, NEW j \in Key, own[r][j] = own[s][k] PROVE r = s /\ j = k
  BY <1>1, <1>4 DEF BlockOwnership, OwnedOnce
<1>5. ASSUME NEW r \in Actor, r # s PROVE own[s][k] \notin Owned(r)
  BY Zenon, <1>1, <1>4, <1>5 DEF Owned
<1> QED BY Zenon, <1>2, <1>3, <1>4, <1>5

\* Actor r writes only its own blocks and free ones, and binds only filled ones.
LEMMA ByteStep ==
  ASSUME IInv, ByteInv, NEW r \in Actor, OthersStay(r), OthersKeep(r),
         data' \in [Block -> Key \cup {None, Foreign}],
         outcome' \in [Actor -> {"none", "ok", "failed"}],
         \A b \in Block : data'[b] = data[b] \/ b \in Owned(r) \/ b \in free,
         \A k \in Key : \/ host'[k] = host[k] \/ host'[k] = None
                        \/ data'[host'[k]] \in {k, Foreign},
         \A k \in Key : Filled(r)' /\ own'[r][k] # None => data'[own'[r][k]] \in {k, Foreign}
  PROVE  ByteInv'
<1> USE SetsAssumption
<1>1. ASSUME NEW k \in Key, host'[k] # None PROVE data'[host'[k]] \in {k, Foreign}
  <2>1. CASE host'[k] = host[k]
    <3>1. host[k] \in Block /\ host[k] \notin free /\ host[k] \notin Owned(r)
      BY Zenon, <1>1, <2>1, BoundApart
    <3> QED BY Zenon, <1>1, <2>1, <3>1 DEF ByteInv
  <2> QED BY Zenon, <1>1, <2>1
<1>2. ASSUME NEW s \in Actor, NEW k \in Key, Filled(s)', own'[s][k] # None
      PROVE  data'[own'[s][k]] \in {k, Foreign}
  <2>1. CASE s = r
    BY Zenon, <1>2, <2>1
  <2>2. CASE s # r
    <3>1. Filled(s) /\ own'[s] = own[s]
      BY Zenon, <1>2, <2>2 DEF OthersStay, OthersKeep, Filled
    <3>2. own[s][k] \in Block /\ own[s][k] \notin free /\ own[s][k] \notin Owned(r)
      BY Zenon, <1>2, <2>2, <3>1, OwnedApart
    <3> QED BY Zenon, <1>2, <3>1, <3>2 DEF ByteInv
  <2> QED BY Zenon, <2>1, <2>2
<1> QED BY Zenon, <1>1, <1>2 DEF ByteInv

\* A step that writes nothing and binds nothing, and does not end a save or a write.
LEMMA ByteQuiet ==
  ASSUME IInv, ByteInv, NEW r \in Actor, OthersStay(r), OthersKeep(r), UNCHANGED data,
         outcome' \in [Actor -> {"none", "ok", "failed"}],
         \A k \in Key : host'[k] = host[k] \/ host'[k] = None,
         ~Filled(r)'
  PROVE  ByteInv'
BY Zenon, ByteStep DEF ByteInv

LEMMA ByteStart ==
  ASSUME IInv, PinInv, ByteInv, NEW r \in Actor, Start(r)
  PROVE  ByteInv'
<1>0. PICK K \in Batches :
      \/ Insert(r, K) \/ Lookup(r, K) \/ SweepPin(r, K) \/ Release(r, K)
      \/ SaveLocal(r, K) \/ ReadRemote(r, K) \/ Load(r, K) \/ LoadRemote(r, K)
      \/ SaveRemote(r, K) \/ ValidateAndPinHostBlocks(r, K) \/ Fetch(r, K)
      \/ WriteRemote(r, K) \/ Evict(r, K)
  BY Zenon DEF Start
<1>1. CASE Insert(r, K) \/ SweepPin(r, K) \/ Release(r, K)
  <2>1. UNCHANGED <<data, kind, pc, keys, own, outcome>> /\ pc[r] = "idle"
    BY Zenon, <1>1 DEF Insert, SweepPin, Release, pool, ops
  <2>2. \A k \in Key : host'[k] = host[k] \/ host'[k] = None
    BY Zenon, <1>1 DEF Insert, InsertAndLock, SweepPin, Release
  <2>3. OthersStay(r) /\ OthersKeep(r) /\ ~Filled(r)'
    BY Zenon, <2>1 DEF OthersStay, OthersKeep, Filled
  <2> QED BY Zenon, <2>1, <2>2, <2>3, ByteQuiet DEF ByteInv
<1>2. ASSUME NEW op, NEW at \in {"answer", "choose", "issue", "grab", "pin", "erase"}, NEW B,
             Begin(r, op, at, B), UNCHANGED <<host, data, own>>
      PROVE  ByteInv'
  <2>1. OthersStay(r) /\ pc'[r] = at
    BY Zenon, <1>2, BeginStays
  <2>2. OthersKeep(r) /\ ~Filled(r)' /\ UNCHANGED outcome
    BY Zenon, <1>2, <2>1 DEF OthersKeep, Filled, Begin
  <2> QED BY Zenon, <1>2, <2>1, <2>2, ByteQuiet DEF ByteInv
<1>3. CASE Lookup(r, K) \/ SaveLocal(r, K) \/ ReadRemote(r, K) \/ Load(r, K) \/ LoadRemote(r, K)
  BY Zenon, <1>2, <1>3 DEF Lookup, SaveLocal, ReadRemote, Load, LoadRemote, index, pool
<1>4. CASE \/ SaveRemote(r, K) \/ ValidateAndPinHostBlocks(r, K) \/ Fetch(r, K)
           \/ WriteRemote(r, K) \/ Evict(r, K)
  BY Zenon, <1>2, <1>4 DEF SaveRemote, ValidateAndPinHostBlocks, Fetch, LookUpToServe, WriteRemote,
                    Evict, index, pool
<1> QED BY Zenon, <1>0, <1>1, <1>3, <1>4

\* The transfer of a save or a write puts the bytes of a hash into its block.
LEMMA LandBytes ==
  ASSUME IInv, ByteInv, NEW r \in Actor, NEW ok \in BOOLEAN, Land(r, ok),
         kind[r] \in {"save", "write", "load"}
  PROVE  ByteInv'
<1> USE SetsAssumption
<1>1. /\ Onward(r) /\ UNCHANGED <<host, own>>
      /\ outcome' = [outcome EXCEPT ![r] = IF ok THEN "ok" ELSE "failed"]
      /\ data' = [b \in Block |->
                    IF b \notin Owned(r) THEN data[b]
                    ELSE IF ok THEN CHOOSE k \in keys[r] : own[r][k] = b ELSE None]
  BY Zenon DEF Land, Onward, index
<1>2. ASSUME NEW k \in Key, own[r][k] # None
      PROVE  /\ own[r][k] \in Owned(r) /\ own[r][k] \in Block
             /\ (CHOOSE j \in keys[r] : own[r][j] = own[r][k]) = k
  <2>1. k \in keys[r] /\ own[r][k] \in Block
    BY <1>2 DEF IInv, OwnedInBatch, BlockTypes, MaybeBlock
  <2>2. \A j \in keys[r] : own[r][j] = own[r][k] => j = k
    BY Zenon, <1>2, OwnedApart DEF IInv, BlockTypes
  <2> QED BY Zenon, <1>2, <2>1, <2>2 DEF Owned
<1>3. ASSUME NEW b \in Owned(r)
      PROVE  (CHOOSE j \in keys[r] : own[r][j] = b) \in Key
  <2>1. PICK j \in keys[r] : own[r][j] = b
    BY Zenon DEF Owned
  <2> QED BY Zenon, <2>1 DEF IInv, BlockTypes
<1>4. data' \in [Block -> Key \cup {None, Foreign}]
  BY Zenon, <1>1, <1>3 DEF ByteInv
<1>5. outcome' \in [Actor -> {"none", "ok", "failed"}]
  BY Zenon, <1>1 DEF ByteInv
<1>6. \A b \in Block : data'[b] = data[b] \/ b \in Owned(r) \/ b \in free
  BY Zenon, <1>1
<1>7. ASSUME NEW k \in Key, Filled(r)', own'[r][k] # None
      PROVE  data'[own'[r][k]] \in {k, Foreign}
  <2>1. ok
    BY Zenon, <1>1, <1>7 DEF Filled, ByteInv
  <2>2. own[r][k] # None
    BY Zenon, <1>1, <1>7
  <2> QED BY <1>1, <1>2, <2>1, <2>2
<1>8. OthersStay(r) /\ OthersKeep(r)
  BY Zenon, <1>1, OnwardStays DEF OthersKeep, ByteInv
<1> QED BY Zenon, <1>1, <1>4, <1>5, <1>6, <1>7, <1>8, ByteStep

\* Blocks that are given back lose their bytes.
LEMMA GiveBackBytes ==
  ASSUME IInv, ByteInv, NEW r \in Actor, GiveBack(r), UNCHANGED host, OthersStay(r),
         outcome' \in [Actor -> {"none", "ok", "failed"}],
         \A s \in Actor : s # r => outcome'[s] = outcome[s]
  PROVE  ByteInv'
<1>1. /\ data' = [b \in Block |-> IF b \in Owned(r) THEN None ELSE data[b]]
      /\ own' = [own EXCEPT ![r] = NoBlocks]
  BY Zenon DEF GiveBack
<1>2. data' \in [Block -> Key \cup {None, Foreign}]
  BY Zenon, <1>1 DEF ByteInv
<1>3. OthersKeep(r) /\ \A k \in Key : own'[r][k] = None
  BY Zenon, <1>1 DEF OthersKeep, IInv, BlockTypes, NoBlocks
<1>4. \A b \in Block : data'[b] = data[b] \/ b \in Owned(r) \/ b \in free
  BY Zenon, <1>1
<1> QED BY Zenon, <1>2, <1>3, <1>4, ByteStep

LEMMA GiveBackEndBytes ==
  ASSUME IInv, ByteInv, NEW r \in Actor, GiveBack(r), UNCHANGED host, End(r)
  PROVE  ByteInv'
<1>1. /\ outcome' \in [Actor -> {"none", "ok", "failed"}]
      /\ \A s \in Actor : s # r => outcome'[s] = outcome[s]
  BY Zenon DEF End, ByteInv
<1> QED BY Zenon, <1>1, EndStays, GiveBackBytes

\* Fresh blocks come from the pool.
LEMMA GrabBytes ==
  ASSUME IInv, ByteInv, NEW r \in Actor, Grab(r)
  PROVE  ByteInv'
<1> USE SetsAssumption
<1>1. UNCHANGED host
  BY Zenon DEF Grab, index
<1>2. CASE End(r) /\ UNCHANGED <<own, data>>
  <2>1. OthersStay(r) /\ OthersKeep(r) /\ ~Filled(r)'
    BY ZenonT(60), <1>2, EndStays DEF OthersKeep, Filled, End, ByteInv
  <2>2. outcome' \in [Actor -> {"none", "ok", "failed"}]
    BY Zenon, <1>2 DEF End, ByteInv
  <2> QED BY Zenon, <1>1, <1>2, <2>1, <2>2, ByteQuiet
<1>3. ASSUME NEW f \in Assignments(keys[r]), own' = [own EXCEPT ![r] = f],
             data' = [b \in Block |-> IF \E k \in keys[r] : f[k] = b THEN None ELSE data[b]],
             Goto(r, IF kind[r] = "read" THEN "mark" ELSE "dma")
      PROVE  ByteInv'
  <2>1. data' \in [Block -> Key \cup {None, Foreign}]
    BY Zenon, <1>3 DEF ByteInv
  <2>2. \A k \in keys[r] : f[k] \in free
    BY Zenon, <1>3 DEF Assignments, IInv, BlockTypes
  <2>3. \A b \in Block : data'[b] = data[b] \/ b \in free
    BY Zenon, <1>3, <2>2
  <2>4. OthersStay(r) /\ OthersKeep(r) /\ UNCHANGED outcome /\ ~Filled(r)'
    BY Zenon, <1>3 DEF Goto, OthersStay, OthersKeep, Filled, IInv, BlockTypes
  <2> QED BY Zenon, <1>1, <2>1, <2>3, <2>4, ByteStep DEF ByteInv
<1> QED BY Zenon, <1>2, <1>3 DEF Grab

\* The index takes over blocks that are filled.
LEMMA BoundBytes ==
  ASSUME IInv, ByteInv, NEW r \in Actor, NEW K \in SUBSET Key, Filled(r), OthersStay(r),
         host' = [k \in Key |-> IF k \in K THEN own[r][k] ELSE host[k]],
         own' = [own EXCEPT ![r] = NoBlocks], UNCHANGED data,
         outcome' \in [Actor -> {"none", "ok", "failed"}],
         \A s \in Actor : s # r => outcome'[s] = outcome[s]
  PROVE  ByteInv'
<1>1. \A k \in Key : \/ host'[k] = host[k] \/ host'[k] = None
                     \/ data'[host'[k]] \in {k, Foreign}
  BY Zenon DEF ByteInv
<1>2. OthersKeep(r) /\ \A k \in Key : own'[r][k] = None
  BY Zenon DEF OthersKeep, IInv, BlockTypes, NoBlocks
<1> QED BY Zenon, <1>1, <1>2, ByteStep DEF ByteInv

\* The blocks an eviction takes away are bound to the entries it erases alone.
LEMMA EraseBytes ==
  ASSUME IInv, ByteInv, NEW r \in Actor, Erase(r)
  PROVE  ByteInv'
<1> DEFINE E == Evictable(victims[r])
           B == {host[k] : k \in E}
<1> USE SetsAssumption
<1>1. /\ Onward(r) /\ UNCHANGED <<outcome, own>> /\ pc' = [pc EXCEPT ![r] = "dealloc"]
      /\ host' = [k \in Key |-> IF k \in E THEN None ELSE host[k]]
      /\ data' = [b \in Block |-> IF b \in B THEN None ELSE data[b]]
  BY Zenon DEF Erase, Goto, Onward
<1>2. /\ E \subseteq Key /\ \A k \in E : host[k] # None
      /\ BoundOnce /\ OwnedUnbound
  BY Zenon DEF Evictable, IInv, BlockTypes, BlockOwnership
<1> HIDE DEF E
<1>3. data' \in [Block -> Key \cup {None, Foreign}]
  BY Zenon, <1>1 DEF ByteInv
<1>4. ASSUME NEW k \in Key, host'[k] # None PROVE data'[host'[k]] \in {k, Foreign}
  <2>1. k \notin E /\ host'[k] = host[k] /\ host[k] # None
    BY Zenon, <1>1, <1>4
  <2>2. host[k] \in Block /\ host[k] \notin B
    BY Zenon, <1>2, <2>1, BoundApart DEF BoundOnce
  <2> QED BY Zenon, <1>1, <2>1, <2>2 DEF ByteInv
<1>5. OthersStay(r) /\ ~Filled(r)'
  BY Zenon, <1>1, OnwardStays DEF Filled, IInv, BlockTypes
<1>6. ASSUME NEW s \in Actor, NEW k \in Key, Filled(s)', own'[s][k] # None
      PROVE  data'[own'[s][k]] \in {k, Foreign}
  <2>1. s # r /\ Filled(s) /\ own'[s][k] = own[s][k] /\ own[s][k] # None
    BY Zenon, <1>1, <1>5, <1>6 DEF OthersStay, Filled
  <2>2. own[s][k] \in Block /\ own[s][k] \notin B
    BY Zenon, <1>2, <2>1, OwnedApart DEF OwnedUnbound
  <2> QED BY Zenon, <1>1, <2>1, <2>2 DEF ByteInv
<1> QED BY Zenon, <1>1, <1>3, <1>4, <1>6 DEF ByteInv

LEMMA ByteContinue ==
  ASSUME IInv, ByteInv, NEW r \in Actor, Continue(r)
  PROVE  ByteInv'
<1>1. CASE PollSaveDone(r)
  <2>1. /\ Filled(r) /\ UNCHANGED <<data, kind, outcome>>
        /\ host' = [k \in Key |-> IF k \in keys[r] \cap Active THEN own[r][k] ELSE host[k]]
        /\ own' = [own EXCEPT ![r] = NoBlocks]
        /\ pc' = [pc EXCEPT ![r] = "publish"] /\ keys' = [keys EXCEPT ![r] = @ \cap Active]
    BY Zenon, <1>1 DEF PollSaveDone, Polled, At, Filled, pool
  <2>2. OthersStay(r) /\ keys[r] \cap Active \in SUBSET Key
    BY Zenon, <2>1 DEF OthersStay, IInv, BlockTypes
  <2> QED BY ZenonT(60), <2>1, <2>2, BoundBytes DEF ByteInv
<1>2. CASE CompleteWriteRemote(r)
  <2>1. CASE outcome[r] = "ok" /\ CanInsertAll(keys[r])
    <3>1. /\ Filled(r) /\ End(r) /\ UNCHANGED data
          /\ host' = [k \in Key |-> IF k \in keys[r] THEN own[r][k] ELSE host[k]]
          /\ own' = [own EXCEPT ![r] = NoBlocks]
      BY Zenon, <1>2, <2>1 DEF CompleteWriteRemote, At, Filled, pool
    <3>2. keys[r] \in SUBSET Key
      BY Zenon DEF IInv, BlockTypes
    <3>3. /\ outcome' \in [Actor -> {"none", "ok", "failed"}]
          /\ \A s \in Actor : s # r => outcome'[s] = outcome[s]
      BY Zenon, <3>1 DEF End, ByteInv
    <3> QED BY ZenonT(60), <3>1, <3>2, <3>3, EndStays, BoundBytes
  <2>2. CASE ~(outcome[r] = "ok" /\ CanInsertAll(keys[r]))
    BY Zenon, <1>2, <2>2, GiveBackEndBytes DEF CompleteWriteRemote
  <2> QED BY Zenon, <2>1, <2>2
<1>3. CASE PollSaveFailed(r) \/ ReadRemoteUndo(r) \/ PollRemoteRead(r)
  BY Zenon, <1>3, GiveBackEndBytes DEF PollSaveFailed, ReadRemoteUndo, PollRemoteRead, index
<1>4. ASSUME NEW ok \in BOOLEAN, Land(r, ok) PROVE ByteInv'
  <2>1. CASE kind[r] \in {"save", "write", "load"}
    BY Zenon, <1>4, <2>1, LandBytes
  <2>2. CASE kind[r] = "read"
    <3>1. Onward(r) /\ UNCHANGED <<host, outcome, data, own>>
      BY Zenon, <1>4, <2>2 DEF Land, Onward, index
    <3>2. OthersStay(r) /\ OthersKeep(r) /\ ~Filled(r)'
      BY Zenon, <2>2, <3>1, OnwardStays DEF OthersKeep, Filled
    <3> QED BY Zenon, <3>1, <3>2, ByteQuiet DEF ByteInv
  <2>3. CASE kind[r] = "fetch"
    <3>1. Onward(r) /\ UNCHANGED <<host, outcome>> /\ GiveBack(r)
      BY Zenon, <1>4, <2>3 DEF Land, Onward, index
    <3> QED BY Zenon, <3>1, OnwardStays, GiveBackBytes DEF ByteInv
  <2> QED BY Zenon, <1>4, <2>1, <2>2, <2>3 DEF Land
<1>5. CASE GiveUp(r)
  <2>1. /\ Onward(r) /\ UNCHANGED <<host, outcome, data>> /\ kind[r] \in {"read", "fetch"}
        /\ own' = own \/ own' = [own EXCEPT ![r] = NoBlocks]
    BY Zenon, <1>5 DEF GiveUp, Onward, index
  <2>2. OthersStay(r) /\ OthersKeep(r) /\ ~Filled(r)'
    BY Zenon, <2>1, OnwardStays DEF OthersKeep, Filled, IInv, BlockTypes
  <2> QED BY Zenon, <2>1, <2>2, ByteQuiet DEF ByteInv
<1>6. CASE Erase(r)
  BY Zenon, <1>6, EraseBytes
<1>7. CASE /\ ~PollSaveDone(r)
           /\ \/ \E kept \in SUBSET Key : LookupAnswer(r, kept)
              \/ \E ok \in BOOLEAN : FinishRemoteWrite(r, ok)
              \/ Choose(r) \/ Dealloc(r) \/ WriteThrough(r) \/ ReadRemoteIssue(r)
              \/ LoadIssue(r) \/ PollLoad(r) \/ PollLoadRemote(r) \/ PinHostBlocks(r)
              \/ SaveRemotePin(r) \/ UnpinHostBlocks(r)
  <2>1. UNCHANGED <<host, data, own>>
    BY ZenonT(60), <1>7 DEF LookupAnswer, FinishRemoteWrite, Choose, Dealloc, WriteThrough, ReadRemoteIssue,
                LoadIssue, PollLoad, PollLoadRemote, PinHostBlocks, SaveRemotePin,
                UnpinHostBlocks, index, pool
  <2>2. CASE End(r)
    <3>1. OthersStay(r) /\ OthersKeep(r) /\ ~Filled(r)'
      BY ZenonT(60), <2>1, <2>2, EndStays DEF OthersKeep, Filled, End, ByteInv
    <3>2. outcome' \in [Actor -> {"none", "ok", "failed"}]
      BY Zenon, <2>2 DEF End, ByteInv
    <3> QED BY Zenon, <2>1, <3>1, <3>2, ByteQuiet
  <2>3. CASE Onward(r) /\ ~End(r)
    <3>1. pc'[r] # "ready" \/ kind'[r] = "load"
      <4>1. CASE LoadIssue(r)
        BY Zenon, <2>3, <4>1, OnwardStays DEF LoadIssue, At
      <4>2. CASE ~LoadIssue(r)
        <5>1. \E at \in {"erase", "grab", "dma"} : pc' = [pc EXCEPT ![r] = at]
          BY ZenonT(60), <1>7, <2>3, <4>2
             DEF LookupAnswer, FinishRemoteWrite, Choose, Dealloc, WriteThrough,
                 ReadRemoteIssue, PollLoad, PollLoadRemote, PinHostBlocks, SaveRemotePin,
                 UnpinHostBlocks, Goto
        <5> QED BY Zenon, <5>1 DEF IInv, BlockTypes
      <4> QED BY Zenon, <4>1, <4>2
    <3>2. outcome' = outcome \/ outcome' = [outcome EXCEPT ![r] = "failed"]
      BY ZenonT(60), <1>7, <2>3
         DEF LookupAnswer, FinishRemoteWrite, Choose, Dealloc, WriteThrough, ReadRemoteIssue,
             LoadIssue, PollLoad, PollLoadRemote, PinHostBlocks, SaveRemotePin,
             UnpinHostBlocks, Goto
    <3>3. OthersStay(r) /\ OthersKeep(r) /\ ~Filled(r)'
      BY Zenon, <2>1, <2>3, <3>1, <3>2, OnwardStays DEF OthersKeep, Filled, ByteInv
    <3>4. outcome' \in [Actor -> {"none", "ok", "failed"}]
      BY Zenon, <3>2 DEF ByteInv
    <3> QED BY Zenon, <2>1, <3>3, <3>4, ByteQuiet
  <2> QED BY Zenon, <1>7, <2>2, <2>3, ContinueShape
<1> QED BY Zenon, <1>1, <1>2, <1>3, <1>4, <1>5, <1>6, <1>7, GrabBytes DEF Continue

\* Late bytes spoil a block visibly.
LEMMA StrayBytes ==
  ASSUME IInv, ByteInv, StrayLand
  PROVE  ByteInv'
<1>1. PICK b \in stray : data' = [data EXCEPT ![b] = Foreign]
  BY ZenonT(60) DEF StrayLand
<1>2. UNCHANGED <<host, kind, pc, own, outcome>>
  BY Zenon DEF StrayLand, index, ops
<1>3. data' \in [Block -> Key \cup {None, Foreign}]
  BY ZenonT(60), <1>1 DEF ByteInv
<1>4. \A c \in Block : data'[c] = data[c] \/ data'[c] = Foreign
  BY Zenon, <1>1 DEF ByteInv
<1>5. \A k \in Key : host[k] # None => host[k] \in Block
  BY Zenon DEF IInv, BlockTypes, MaybeBlock
<1>6. \A r \in Actor, k \in Key : own[r][k] # None => own[r][k] \in Block
  BY DEF IInv, BlockTypes, MaybeBlock
<1> QED BY Zenon, <1>2, <1>3, <1>4, <1>5, <1>6 DEF ByteInv, Filled

LEMMA ByteStepHolds == IInv /\ PinInv /\ ByteInv /\ [Next]_vars => ByteInv'
<1> SUFFICES ASSUME IInv, PinInv, ByteInv, [Next]_vars PROVE ByteInv'
  OBVIOUS
<1>1. CASE UNCHANGED vars
  BY Zenon, <1>1 DEF vars, index, pool, ops, ByteInv, Filled
<1> QED BY Zenon, <1>1, StrayBytes, ByteStart, ByteContinue DEF Next

\* The host block of an entry holds the bytes of its hash, and a load or an offer
\* reads the bytes of the hashes it was started for as long as it runs, unless a
\* transfer that was given up wrote late: polls bind only filled blocks, eviction
\* and insertion leave pinned entries alone, and no two saves share a hash.
THEOREM HostBytesIntactHolds == Spec => []HostBytesIntact
<1>1. IInv /\ BindInv /\ ByteInv => HostBytesIntact
  <2> SUFFICES ASSUME IInv, BindInv, ByteInv PROVE HostBytesIntact
    OBVIOUS
  <2>1. \A k \in Resident : Holds(host[k], k)
    BY DEF Resident, Holds, ByteInv
  <2>2. ASSUME NEW r \in Actor, NEW k \in Key, kind[r] \in {"load", "offer"}, snap[r][k] # None
        PROVE  Holds(snap[r][k], k)
    BY <2>2 DEF BindInv, Snapped, Holds, ByteInv
  <2> QED BY <2>1, <2>2 DEF HostBytesIntact
<1> QED BY InitHolds, StepHolds, PinInit, PinStepHolds, HeldIsActive, MarkInit, MarkStepHolds, BindInit,
           BindStepHolds, ByteInit, ByteStepHolds, <1>1, PTL DEF Spec
=============================================================================
