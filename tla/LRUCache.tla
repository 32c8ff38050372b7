------------------------------ MODULE LRUCache ------------------------------
(***************************************************************************)
(* The LRU cache behind the local index (kv_cache/lru_cache.h).  An entry  *)
(* sits in one of three lists: lru_list_ (front = most recently used),     *)
(* pinned_list_, or evict_candidate_list_ (front = first to be reclaimed). *)
(* The order of pinned_list_ is never read, so it is the set of keys with  *)
(* a positive pin count.  The caller's mutex makes each call one step.     *)
(***************************************************************************)
EXTENDS Integers, SequencesExt

CONSTANTS Key, Value, NoValue,
          Capacity,    \* capacity_
          MaxPins,     \* bound on pin_count
          MaxCalls     \* bound on the number of calls

ASSUME CapacityAssumption == Capacity \in Nat

VARIABLES lru,      \* lru_list_
          cand,     \* evict_candidate_list_
          pins,     \* pin_count of each key, 0 if absent
          val,      \* value of each key, NoValue if absent
          calls,    \* history: number of calls so far
          stamp     \* history: the call that put each key at its place

vars == <<lru, cand, pins, val, calls, stamp>>

Pinned == {k \in Key : pins[k] > 0}

\* The keys of map_.
Map == ToSet(lru) \cup ToSet(cand) \cup Pinned

ActiveSize == Len(lru) + Cardinality(Pinned)

\* GetEvictableKeys(n): candidates first, then the LRU list from its back.
EvictableKeys(n) ==
  LET all == cand \o Reverse(lru)
  IN  SubSeq(all, 1, IF n < Len(all) THEN n ELSE Len(all))

Init ==
  /\ lru = <<>>
  /\ cand = <<>>
  /\ pins = [k \in Key |-> 0]
  /\ val = [k \in Key |-> NoValue]
  /\ calls = 0
  /\ stamp = [k \in Key |-> 0]

Called ==
  /\ calls < MaxCalls
  /\ calls' = calls + 1

Stamp(k) == stamp' = [stamp EXCEPT ![k] = calls + 1]

\* Promote(): to the front of the LRU list, out of the candidates; a pinned
\* entry stays in the pinned list.
Promote(k) ==
  /\ lru' = IF k \in Pinned THEN lru ELSE <<k>> \o Remove(lru, k)
  /\ cand' = Remove(cand, k)
  /\ Stamp(k)

\* PromoteBack(): the same, to the back of the list.
PromoteBack(k) ==
  /\ lru' = IF k \in Pinned THEN lru ELSE Append(Remove(lru, k), k)
  /\ cand' = Remove(cand, k)
  /\ stamp' = [stamp EXCEPT ![k] = -(calls + 1)]

\* Put of a key in map_.
PutPresent(k, v) ==
  /\ Called
  /\ k \in Map
  /\ val' = [val EXCEPT ![k] = v]
  /\ Promote(k)
  /\ UNCHANGED pins

\* Put of a new key: the LRU tail becomes a candidate if the cache is full,
\* and nothing happens at all if every entry is pinned.
PutNew(k, v) ==
  /\ Called
  /\ k \notin Map
  /\ IF ActiveSize < Capacity
     THEN lru' = <<k>> \o lru /\ val' = [val EXCEPT ![k] = v]
          /\ Stamp(k) /\ UNCHANGED cand
     ELSE IF lru = <<>> THEN UNCHANGED <<lru, cand, val, stamp>>
     ELSE /\ lru' = <<k>> \o Front(lru)
          /\ cand' = Append(cand, Last(lru))
          /\ val' = [val EXCEPT ![k] = v]
          /\ stamp' = [stamp EXCEPT ![k] = calls + 1, ![Last(lru)] = calls + 1]
  /\ UNCHANGED pins

\* PutBack: the least recently used position; a new key goes in even when
\* there was no victim.
PutBack(k, v) ==
  /\ Called
  /\ val' = [val EXCEPT ![k] = v]
  /\ IF k \in Map THEN PromoteBack(k)
     ELSE IF ActiveSize < Capacity \/ lru = <<>>
     THEN /\ lru' = Append(lru, k)
          /\ stamp' = [stamp EXCEPT ![k] = -(calls + 1)]
          /\ UNCHANGED cand
     ELSE /\ lru' = Append(Front(lru), k)
          /\ cand' = Append(cand, Last(lru))
          /\ stamp' = [stamp EXCEPT ![k] = -(calls + 1), ![Last(lru)] = calls + 1]
  /\ UNCHANGED pins

Get(k) ==
  /\ Called
  /\ k \in Map
  /\ Promote(k)
  /\ UNCHANGED <<pins, val>>

\* Pin / GetAndPin: the first pin takes the entry out of its list, a
\* candidate included.
Pin(k) ==
  /\ Called
  /\ k \in Map
  /\ pins[k] < MaxPins
  /\ pins' = [pins EXCEPT ![k] = @ + 1]
  /\ lru' = Remove(lru, k)
  /\ cand' = Remove(cand, k)
  /\ UNCHANGED <<val, stamp>>

\* Fault: the last unpin returns the entry at the cold end.
UnpinToBack(k) ==
  /\ Called
  /\ k \in Pinned
  /\ pins' = [pins EXCEPT ![k] = @ - 1]
  /\ lru' = IF pins[k] = 1 THEN Append(lru, k) ELSE lru
  /\ Stamp(k)
  /\ UNCHANGED <<val, cand>>

\* Unpin: at zero the entry returns as most recently used.  (An unpin of an
\* unpinned key changes nothing.)
Unpin(k) ==
  /\ Called
  /\ k \in Pinned
  /\ pins' = [pins EXCEPT ![k] = @ - 1]
  /\ lru' = IF pins[k] = 1 THEN <<k>> \o lru ELSE lru
  /\ Stamp(k)
  /\ UNCHANGED <<val, cand>>

\* Fault: the pin count is not looked at, so a pinned entry is erased.
EraseUnchecked(k) ==
  /\ Called
  /\ k \in Map
  /\ lru' = Remove(lru, k)
  /\ cand' = Remove(cand, k)
  /\ val' = [val EXCEPT ![k] = NoValue]
  /\ pins' = [pins EXCEPT ![k] = 0]
  /\ UNCHANGED stamp

\* Erase: refused for a pinned entry.
Erase(k) ==
  /\ Called
  /\ k \in Map \ Pinned
  /\ lru' = Remove(lru, k)
  /\ cand' = Remove(cand, k)
  /\ val' = [val EXCEPT ![k] = NoValue]
  /\ UNCHANGED <<pins, stamp>>

Evict ==
  /\ Called
  /\ lru # <<>>
  /\ lru' = Front(lru)
  /\ cand' = Append(cand, Last(lru))
  /\ Stamp(Last(lru))
  /\ UNCHANGED <<pins, val>>

Clear ==
  /\ Called
  /\ lru' = <<>>
  /\ cand' = <<>>
  /\ pins' = [k \in Key |-> 0]
  /\ val' = [k \in Key |-> NoValue]
  /\ UNCHANGED stamp

Next ==
  \/ \E k \in Key, v \in Value : PutPresent(k, v) \/ PutNew(k, v) \/ PutBack(k, v)
  \/ \E k \in Key : Get(k) \/ Pin(k) \/ Unpin(k) \/ Erase(k)
  \/ Evict
  \/ Clear

Spec == Init /\ [][Next]_vars

-----------------------------------------------------------------------------
(* Properties *)

\* The three lists are disjoint and duplicate free, and together hold exactly
\* the keys that have a value (the location tag of a node always names the
\* list its iterator is in, which every splice relies on).
TypeOK ==
  /\ lru \in Seq(Key) /\ cand \in Seq(Key)
  /\ pins \in [Key -> Nat] /\ val \in [Key -> Value \cup {NoValue}]
  /\ IsInjective(lru \o cand)
  /\ ToSet(lru \o cand) \cap Pinned = {}
  /\ Map = {k \in Key : val[k] # NoValue}

\* GetEvictableKeys lists the unpinned keys in the order they should go:
\* candidates by the time of their demotion, then the active entries by the
\* time of their last use, however often entries were pinned, rescued or
\* demoted again in between.
ReclaimOrder ==
  /\ \A i, j \in DOMAIN cand : i < j => stamp[cand[i]] < stamp[cand[j]]
  /\ \A i, j \in DOMAIN lru : i < j => stamp[lru[i]] > stamp[lru[j]]
  /\ ToSet(EvictableKeys(Cardinality(Key))) = Map \ Pinned

\* The lists viewed through the promise: where each key is, not in which order.
AbstractCache ==
  [loc |-> [k \in Key |-> IF k \in ToSet(cand) THEN "candidate"
                          ELSE IF k \in Map THEN "active" ELSE "absent"],
   pins |-> pins, val |-> val]

Promise == INSTANCE PinnedCache WITH pcache <- AbstractCache

\* Every call on the three lists is a step the cache's promise allows: a
\* pinned entry is neither demoted nor erased, a demoted entry keeps its
\* value until it is erased or stored again.
RefinesPromise == Promise!PSpec
=============================================================================
