----------------------------- MODULE MCPushRead -----------------------------
(* Small instances of the push read for TLC. *)
EXTENDS PushRead, TLC

\* Three pairs out of order on either side, two of them for one local block; the
\* host blocks of a slot are not adjacent.
MCWanted == [r \in Uuid |-> << <<7, 2>>, <<4, 3>>, <<5, 2>> >>]
MCSlotBlocks ==
  [q \in SendSlot \cup RecvSlot |-> IF q \in SendSlot THEN <<10, 11, 13>> ELSE <<20, 21, 23>>]

\* The plan delivers these reads.
ASSUME MCPlanDelivers == PlanDelivers

Symmetry == Permutations(Uuid) \cup Permutations(Stream)
=============================================================================
