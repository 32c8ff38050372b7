--------------------------- MODULE BlockDirectory ---------------------------
(***************************************************************************)
(* The global registry's directory of blocks: which stores hold a hash.    *)
(* Register and Unregister keep the map from hashes to entries and its     *)
(* inverse, the index by owner; Lookup spreads readers over the owners     *)
(* round-robin; PullOwned streams what an owner has registered, batch by   *)
(* batch, while other calls go on; a thread removes what has expired.      *)
(*                                                                         *)
(* Stores call in any order, so a call is an action of its own.  Time is   *)
(* left out: an entry may expire at any moment after it was registered.    *)
(* The block id of an entry is data the directory only hands on, and the   *)
(* order of a hash's entries only decides which of them a lookup names.    *)
(***************************************************************************)
EXTENDS Integers, Sequences, FiniteSets

CONSTANTS
  Store,      \* owners (RaidenId)
  Hash,
  BatchSize,  \* pull_owned_batch_size
  MaxBatch,   \* bound on the hashes of one call
  None

ASSUME DirectoryAssumption ==
  /\ IsFiniteSet(Store) /\ IsFiniteSet(Hash) /\ None \notin Store
  /\ BatchSize \in Nat \ {0} /\ MaxBatch \in Nat

VARIABLES
  registry,  \* registry_: the entries of each hash
  owned,     \* owner_index_
  rr,        \* round_robin_indices_, Absent where there is none
  client,    \* the owner a PullOwned stream is about, None without a stream
  todo,      \* the hashes of its snapshot it has not come to
  emitted,   \* the hashes it has written
  kept       \* history: hashes listed for `client` ever since the snapshot

directory == <<registry, owned, rr>>
pull == <<client, todo, emitted>>
vars == <<directory, pull, kept>>

Absent == -1

Entry == [owner : Store, state : {"live", "expired"}]

TypeOK ==
  /\ registry \in [Hash -> SUBSET Entry]
  /\ owned \in [Store -> SUBSET Hash]
  /\ rr \in [Hash -> Absent .. Cardinality(Store)]
  /\ client \in Store \cup {None}
  /\ todo \subseteq Hash /\ emitted \subseteq Hash /\ kept \subseteq Hash

Init ==
  /\ registry = [h \in Hash |-> {}]
  /\ owned = [s \in Store |-> {}]
  /\ rr = [h \in Hash |-> Absent]
  /\ client = None /\ todo = {} /\ emitted = {} /\ kept = {}

Owners(entries) == {e.owner : e \in entries}

\* The entries a lookup sees.
Live(entries) == {e \in entries : e.state = "live"}

Lists(reg, s, h) == s \in Owners(Live(reg[h]))

\* The history when the directory becomes `reg`.
Observe(reg) == kept' = {h \in kept : Lists(reg, client, h)}

\* A hash without entries is not in the map, and neither is its index.
Prune(reg) == rr' = [h \in Hash |-> IF reg[h] = {} THEN Absent ELSE rr[h]]

-----------------------------------------------------------------------------
(* Calls of the stores *)

\* The entry of s is refreshed in place if there is one, and added otherwise.
Registered(entries, s) ==
  IF s \in Owners(entries)
  THEN {IF e.owner = s THEN [e EXCEPT !.state = "live"] ELSE e : e \in entries}
  ELSE entries \cup {[owner |-> s, state |-> "live"]}

Register(s, H) ==
  LET reg == [h \in Hash |-> IF h \in H THEN Registered(registry[h], s) ELSE registry[h]]
  IN  /\ registry' = reg
      /\ owned' = [owned EXCEPT ![s] = @ \cup {h \in H : s \notin Owners(registry[h])}]
      /\ Observe(reg)
      /\ UNCHANGED <<rr, pull>>

\* Hashes s has no entry for make the call report an error, nothing else.
Unregister(s, H) ==
  LET reg == [h \in Hash |-> IF h \in H THEN {e \in registry[h] : e.owner # s} ELSE registry[h]]
  IN  /\ registry' = reg
      /\ owned' = [owned EXCEPT ![s] = @ \ {h \in H : s \in Owners(registry[h])}]
      /\ Prune(reg)
      /\ Observe(reg)
      /\ UNCHANGED pull

\* The positions of a lookup that are answered: it ends at the first hash without a
\* live entry.
Hits(q) == {i \in DOMAIN q : \A j \in 1 .. i : Live(registry[q[j]]) # {}}

\* Position of the entry the next lookup of h returns, counted from 0.
Turn(h) == (IF rr[h] = Absent THEN 0 ELSE rr[h]) % Cardinality(Live(registry[h]))

Lookup(q) ==
  LET found == {q[i] : i \in Hits(q)}
  IN  /\ rr' = [h \in Hash |-> IF h \in found THEN Turn(h) + 1 ELSE rr[h]]
      /\ UNCHANGED <<registry, owned, pull, kept>>

-----------------------------------------------------------------------------
(* PullOwned *)

\* The snapshot, in a critical section of its own.
PullOwned(s) ==
  /\ client = None
  /\ client' = s /\ todo' = owned[s] /\ emitted' = {}
  /\ kept' = {h \in Hash : Lists(registry, s, h)}
  /\ UNCHANGED directory

Batches == {B \in SUBSET todo : Cardinality(B) = IF Cardinality(todo) < BatchSize THEN Cardinality(todo) ELSE BatchSize}

\* Fault: the next batch starts one hash too far.
PullBatchSkipping ==
  /\ client # None /\ todo # {}
  /\ \E B \in Batches : \E S \in SUBSET (todo \ B) :
       /\ Cardinality(S) <= 1
       /\ todo' = todo \ (B \cup S)
       /\ emitted' = emitted \cup {h \in B : Lists(registry, client, h)}
  /\ UNCHANGED <<client, directory, kept>>

\* One batch, checked again under the lock; what is gone or expired is left out.
PullBatch ==
  /\ client # None /\ todo # {}
  /\ \E B \in Batches :
       /\ todo' = todo \ B
       /\ emitted' = emitted \cup {h \in B : Lists(registry, client, h)}
  /\ UNCHANGED <<client, directory, kept>>

\* The end of the stream; the client may also close it earlier.
PullEnd ==
  /\ client # None
  /\ client' = None /\ todo' = {} /\ emitted' = {} /\ kept' = {}
  /\ UNCHANGED directory

-----------------------------------------------------------------------------
(* Expiry and restart *)

\* An entry's time is over.
Expire(s, h) ==
  /\ Lists(registry, s, h)
  /\ LET reg == [registry EXCEPT ![h] = {IF e.owner = s THEN [e EXCEPT !.state = "expired"] ELSE e : e \in @}]
     IN  registry' = reg /\ Observe(reg)
  /\ UNCHANGED <<owned, rr, pull>>

\* Fault: the index by owner is not cleaned up.
CleanupKeepingIndex ==
  LET reg == [h \in Hash |-> Live(registry[h])]
  IN  /\ registry' = reg
      /\ Prune(reg)
      /\ Observe(reg)
      /\ UNCHANGED <<owned, pull>>

CleanupExpiredEntries ==
  LET reg == [h \in Hash |-> Live(registry[h])]
  IN  /\ registry' = reg
      /\ owned' = [s \in Store |-> {h \in owned[s] : s \notin Owners(registry[h]) \/ Lists(registry, s, h)}]
      /\ Prune(reg)
      /\ Observe(reg)
      /\ UNCHANGED pull

\* Everything is in memory only; the stream breaks.
Restart ==
  /\ registry' = [h \in Hash |-> {}]
  /\ owned' = [s \in Store |-> {}]
  /\ rr' = [h \in Hash |-> Absent]
  /\ client' = None /\ todo' = {} /\ emitted' = {} /\ kept' = {}

-----------------------------------------------------------------------------
Calls == {H \in SUBSET Hash : Cardinality(H) \in 1 .. MaxBatch}

\* Lookups of distinct hashes.
Queries == {q \in UNION {[1 .. n -> Hash] : n \in 1 .. MaxBatch} :
              \A i, j \in DOMAIN q : q[i] = q[j] => i = j}

Next ==
  \/ \E s \in Store, H \in Calls : Register(s, H) \/ Unregister(s, H)
  \/ \E q \in Queries : Lookup(q)
  \/ \E s \in Store : PullOwned(s)
  \/ PullBatch \/ PullEnd
  \/ \E s \in Store, h \in Hash : Expire(s, h)
  \/ CleanupExpiredEntries \/ Restart

Spec == Init /\ [][Next]_vars

-----------------------------------------------------------------------------
(* Properties *)

\* The index by owner is derived data: whichever calls, expiries and cleanups came
\* before, it is the inverse of the map, in which an owner has at most one entry
\* per hash, and no turn is kept for a hash that is gone.
IndexDerived ==
  /\ \A s \in Store, h \in Hash : h \in owned[s] <=> s \in Owners(registry[h])
  /\ \A h \in Hash : \A d, e \in registry[h] : d.owner = e.owner => d = e
  /\ \A h \in Hash : rr[h] # Absent => registry[h] # {}

\* A stream that has gone through its snapshot has written each hash its owner had
\* live all the time, although the directory changed between the batches.
PullComplete == client # None /\ todo = {} => kept \subseteq emitted
=============================================================================
