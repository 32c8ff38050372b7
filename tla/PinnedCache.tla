---------------------------- MODULE PinnedCache ----------------------------
(***************************************************************************)
(* What a block cache promises its owner, with the order of eviction left  *)
(* open: an entry is absent, active, or queued as an eviction candidate,   *)
(* a pinned entry is always active, a demotion takes some active unpinned  *)
(* entry, and an entry leaves only by being erased while unpinned.         *)
(* LRUCache (kv_cache/lru_cache.h) implements this specification; the      *)
(* store module is written over these operators, so what it shows holds    *)
(* for every choice of victim the real recency order can make.             *)
(*                                                                         *)
(* A cache is a record c: c.loc[k] is "absent", "active" or "candidate",   *)
(* c.pins[k] a count and c.val[k] the value.                               *)
(***************************************************************************)
EXTENDS Naturals, FiniteSets

CONSTANTS Key, Value, NoValue, Capacity

EmptyCache ==
  [loc |-> [k \in Key |-> "absent"], pins |-> [k \in Key |-> 0],
   val |-> [k \in Key |-> NoValue]]

Stored(c) == {k \in Key : c.loc[k] # "absent"}

Active(c) == {k \in Key : c.loc[k] = "active"}

Unpinned(c) == {k \in Key : c.pins[k] = 0}

\* Entries the cache may demote or the owner may erase.
Demotable(c) == Active(c) \cap Unpinned(c)

Full(c) == Cardinality(Active(c)) >= Capacity

PinEntry(c, k) ==
  [c EXCEPT !.loc[k] = "active", !.pins[k] = @ + 1]

UnpinEntry(c, k) ==
  [c EXCEPT !.pins[k] = IF @ > 0 THEN @ - 1 ELSE 0]

EraseEntry(c, k) ==
  [c EXCEPT !.loc[k] = "absent", !.val[k] = NoValue]

Demoted(c) == {[c EXCEPT !.loc[d] = "candidate"] : d \in Demotable(c)}

Touched(c, k, v) == [c EXCEPT !.loc[k] = "active", !.val[k] = v]

\* The possible results of storing v under k: an entry already stored keeps
\* its pins and becomes active again; a new one takes the place of some
\* demotable entry when the cache is full, and is dropped if there is none.
PutResults(c, k, v) ==
  IF k \in Stored(c) THEN {Touched(c, k, v)}
  ELSE IF ~Full(c)   THEN {Touched(c, k, v)}
  ELSE IF Demotable(c) = {} THEN {c}
  ELSE {Touched(d, k, v) : d \in Demoted(c)}

VARIABLE pcache

PInit == pcache = EmptyCache

\* A step the promise allows.  The second disjunct is the put that ignores
\* the capacity when every entry is pinned.
PNext ==
  \/ \E k \in Key, v \in Value : pcache' \in PutResults(pcache, k, v)
  \/ \E k \in Key \ Stored(pcache), v \in Value :
       /\ Full(pcache) /\ Demotable(pcache) = {}
       /\ pcache' = Touched(pcache, k, v)
  \/ \E k \in Stored(pcache) : pcache' = Touched(pcache, k, pcache.val[k])
  \/ \E k \in Stored(pcache) : pcache' = PinEntry(pcache, k)
  \/ \E k \in Stored(pcache) : pcache' = UnpinEntry(pcache, k)
  \/ \E k \in Stored(pcache) \cap Unpinned(pcache) : pcache' = EraseEntry(pcache, k)
  \/ pcache' \in Demoted(pcache)
  \/ pcache' = EmptyCache

PSpec == PInit /\ [][PNext]_pcache
=============================================================================
