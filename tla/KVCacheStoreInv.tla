-------------------------- MODULE KVCacheStoreInv --------------------------
(***************************************************************************)
(* The inductive invariants of the store, in layers.  Each layer is        *)
(* inductive given the ones before it.  The first two are proved in        *)
(* KVCacheStoreProofs, the last two in KVCacheStoreBytesProofs.            *)
(*                                                                         *)
(* 1. Blocks: an operation owns blocks only between the allocation and the *)
(*    step that gives them to the index or back to the pool, and only for  *)
(*    the hashes of its batch.                                             *)
(* 2. Pins: a pin count is the number of holders, a pinned entry is        *)
(*    active, and an operation that will spend pins has them.              *)
(* 3. Marks and bindings: two saves never have a hash in common, no entry  *)
(*    gets a second host block under a save, and a running read of a       *)
(*    pinned batch still reads what the index says.                        *)
(* 4. Bytes: a landing block has its bytes before the index binds it, and  *)
(*    by BlockOwnership nobody else writes a block that is bound.          *)
(***************************************************************************)
EXTENDS KVCacheStore

-----------------------------------------------------------------------------
(* Blocks *)

MaybeBlock == Block \cup {None}

BlockTypes ==
  /\ host \in [Key -> MaybeBlock]
  /\ free \subseteq Block
  /\ kind \in [Actor -> {"none", "lookup", "save", "read", "load", "fetch", "offer",
                         "lease", "push", "write", "evict"}]
  /\ pc \in [Actor -> {"idle", "answer", "choose", "erase", "dealloc", "grab", "mark",
                       "pin", "issue", "dma", "ready", "publish"}]
  /\ keys \in [Actor -> SUBSET Key]
  /\ own \in [Actor -> [Key -> MaybeBlock]]
  /\ limbo \in [Actor -> SUBSET Block]
  /\ victims \in [Actor -> SUBSET Key]

\* Operation r is past its allocation and has not given its blocks away.
MayOwn(r) ==
  \/ kind[r] \in {"save", "write"} /\ pc[r] \in {"dma", "ready"}
  \/ kind[r] = "read" /\ pc[r] \in {"mark", "dma", "ready"}
  \/ kind[r] = "fetch" /\ pc[r] = "dma"

OwnedInBatch == \A r \in Actor, k \in Key : own[r][k] # None => k \in keys[r] /\ MayOwn(r)

\* Which operations go through the steps of an allocation.
Allocating ==
  \A r \in Actor :
    /\ pc[r] = "choose" => kind[r] \in {"save", "read"}
    /\ pc[r] \in {"erase", "dealloc"} => kind[r] \in {"save", "read", "evict"}
    /\ pc[r] = "grab" => kind[r] \in {"save", "read", "fetch", "write"}

IInv == BlockTypes /\ OwnedInBatch /\ Allocating /\ BlockOwnership

-----------------------------------------------------------------------------
(* Pins *)

PinTypes ==
  /\ loc \in [Key -> {"absent", "active", "candidate"}]
  /\ pins \in [Key -> Nat]
  /\ holders \in [Key -> SUBSET Holder]

\* Every pin has one holder.
PinsCounted == \A k \in Key : pins[k] = Cardinality(holders[k])

PinnedActive == \A k \in Key : pins[k] > 0 => loc[k] = "active"

\* Operations that were given their caller's pins, to spend or to return.
Spending(r) == kind[r] \in {"lookup", "save", "load", "offer"}

CallerPinned ==
  \A r \in Actor : Spending(r) => \A k \in keys[r] : <<r, "caller">> \in holders[k]

\* Operations that pin their batch a second time.
Serving(r) == kind[r] \in {"offer", "lease", "push"} /\ pc[r] = "dma"

InternallyPinned ==
  \A r \in Actor, k \in Key : <<r, "internal">> \in holders[k] <=> Serving(r) /\ k \in keys[r]

AtRest == \A r \in Actor : pc[r] = "idle" <=> kind[r] = "none"

PinInv == PinTypes /\ PinsCounted /\ PinnedActive /\ CallerPinned /\ InternallyPinned /\ AtRest

\* A held entry is pinned, and so in use.
HeldActive == \A k \in Key : \A h \in holders[k] : pins[k] > 0 /\ loc[k] = "active"

-----------------------------------------------------------------------------
(* Marks and bindings *)

\* Operations whose batch is marked in saving_hashes_.
Marked(r) == kind[r] = "offer" \/ (kind[r] = "save" /\ pc[r] # "publish")

MarkInv ==
  /\ saving \subseteq Key
  /\ \A r \in Actor : Marked(r) => keys[r] \subseteq saving
  /\ \A r, s \in Actor : r # s /\ Marked(r) /\ Marked(s) => keys[r] \cap keys[s] = {}

\* A save whose blocks are not in the index yet.
Filling(r) == kind[r] = "save" /\ pc[r] # "publish"

Snapped(r, k) ==
  /\ kind[r] \in {"load", "offer", "lease", "push"}
  /\ k \in keys[r]
  /\ kind[r] \in {"load", "offer"} => snap[r][k] = host[k]

BindInv ==
  /\ snap \in [Actor -> [Key -> MaybeBlock]]
  /\ \A r \in Actor : Filling(r) => \A k \in keys[r] : host[k] = None
  /\ \A r \in Actor, k \in Key : snap[r][k] # None => Snapped(r, k)

-----------------------------------------------------------------------------
(* Bytes *)

\* The transfer into the blocks of r is over and went well.
Filled(r) == kind[r] \in {"save", "write"} /\ pc[r] = "ready" /\ outcome[r] = "ok"

ByteInv ==
  /\ data \in [Block -> Key \cup {None, Foreign}]
  /\ outcome \in [Actor -> {"none", "ok", "failed"}]
  /\ \A k \in Key : host[k] # None => data[host[k]] \in {k, Foreign}
  /\ \A r \in Actor, k \in Key :
       Filled(r) /\ own[r][k] # None => data[own[r][k]] \in {k, Foreign}

-----------------------------------------------------------------------------
(* Shapes of a step *)

\* The other actors are where they were.
OthersStay(r) ==
  \A s \in Actor : s # r => kind'[s] = kind[s] /\ pc'[s] = pc[s] /\ keys'[s] = keys[s]

\* The operation goes on with its batch.
Onward(r) ==
  /\ pc[r] # "publish"
  /\ UNCHANGED <<kind, keys>>
  /\ \E at \in {"erase", "dealloc", "grab", "mark", "dma", "ready"} : pc' = [pc EXCEPT ![r] = at]

\* What the operations in progress own and know.
OthersKeep(r) ==
  \A s \in Actor : s # r => own'[s] = own[s] /\ outcome'[s] = outcome[s]

\* A call that begins without a pin of its own.
StartsUnpinned(r, K) ==
  \/ SaveLocal(r, K) \/ ReadRemote(r, K) \/ Load(r, K) \/ LoadRemote(r, K)
  \/ SaveRemote(r, K) \/ ValidateAndPinHostBlocks(r, K) \/ Fetch(r, K)
  \/ WriteRemote(r, K) \/ Evict(r, K)

\* A step of an allocation or of a transfer, or a poll that spends no pin.
KeepsPins(r) ==
  \/ Choose(r) \/ Dealloc(r) \/ Grab(r) \/ GiveUp(r) \/ PollSaveDone(r)
  \/ PollSaveFailed(r) \/ ReadRemoteIssue(r) \/ ReadRemoteUndo(r)
  \/ PollRemoteRead(r) \/ LoadIssue(r) \/ PollLoadRemote(r)
  \/ \E ok \in BOOLEAN : Land(r, ok)

\* Release by the caller, the answer of a lookup, the end of a save or of a load.
SpendsCallerPins(r) ==
  \/ \E K \in SUBSET Key : Release(r, K)
  \/ \E kept \in SUBSET Key : LookupAnswer(r, kept)
  \/ WriteThrough(r) \/ PollLoad(r)
=============================================================================
