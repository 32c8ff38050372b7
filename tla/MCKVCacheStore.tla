--------------------------- MODULE MCKVCacheStore ---------------------------
(* Small instances of the store for TLC. *)
EXTENDS KVCacheStore, TLC

Symmetry == Permutations(Actor) \cup Permutations(Key) \cup Permutations(Block)
=============================================================================
