------------------------------ MODULE ReadPlan ------------------------------
(***************************************************************************)
(* Which block of a push read goes where.  A read asks for pairs           *)
(* <<remote, local>> of device blocks.  The producer stages the remote     *)
(* blocks in the host blocks of its slot, pushes those into host blocks of *)
(* the consumer's slot, and the consumer uploads these to its local        *)
(* blocks.  Each of the three hops orders and cuts the blocks its own way. *)
(***************************************************************************)
EXTENDS TransferRouting

\* The positions of s in the stable order of their values.
StableOrder(s) ==
  LET before(i, j) == s[i] < s[j] \/ (s[i] = s[j] /\ i < j)
  IN  [k \in DOMAIN s |->
         CHOOSE i \in DOMAIN s : Cardinality({j \in DOMAIN s : before(j, i)}) = k - 1]

\* s rearranged: its elements at these positions.
At(s, order) == [k \in DOMAIN order |-> s[order[k]]]

\* Runs that are adjacent on both sides become one copy.
BuildCoalescedCopySpec(src, dst) ==
  CoalesceMajorDimCopies(src, dst, [k \in DOMAIN src |-> 1])

\* The staging block of each requested pair: every distinct local block takes the
\* next block of the slot at its first use.
HostBlocks(local, slot) ==
  LET first(k) == CHOOSE j \in DOMAIN local : local[j] = local[k] /\ \A i \in 1 .. j - 1 : local[i] # local[k]
      rank(k)  == Cardinality({local[i] : i \in 1 .. first(k)})
  IN  [k \in DOMAIN local |-> slot[rank(k)]]

\* The transport goes by remote id, the upload by local id, each local block once.
BuildLoadCopyPlan(remote, local, host) ==
  LET t    == StableOrder(remote)
      l    == StableOrder(local)
      once == SelectSeq([k \in DOMAIN l |-> k], LAMBDA k : k = 1 \/ local[l[k]] # local[l[k - 1]])
  IN  [producer |-> At(remote, t), transport |-> At(host, t),
       h2d |-> BuildCoalescedCopySpec(At(At(host, l), once), At(At(local, l), once))]

\* The producer pushes only blocks it offered, and none twice.
ValidateRequestedBlocks(offered, requested) ==
  /\ requested # << >> /\ Range(requested) \subseteq offered
  /\ Cardinality(Range(requested)) = Len(requested)

\* The consumer's blocks fit a slot, and so do the producer's.
FitsRecvSlot(wanted, max) == Cardinality({wanted[k][2] : k \in DOMAIN wanted}) <= max
FitsSendSlot(wanted, max) == Len(wanted) <= max

\* The pairs of host blocks that `streams` connections push.
PushedPairs(src, dst, streams) ==
  LET share == StreamShares(Len(src), streams)
  IN  UNION {{<<src[share[i].off + k], dst[share[i].off + k]>> : k \in 1 .. share[i].count} :
               i \in DOMAIN share}

Then(R, S) == {<<p[1][1], p[2][2]>> : p \in {q \in R \X S : q[1][2] = q[2][1]}}

\* The pairs of device blocks the three hops move when each does its part.
Delivered(wanted, sendSlot, recvSlot, streams) ==
  LET remote == [k \in DOMAIN wanted |-> wanted[k][1]]
      local  == [k \in DOMAIN wanted |-> wanted[k][2]]
      plan   == BuildLoadCopyPlan(remote, local, HostBlocks(local, recvSlot))
      staged == SubSeq(sendSlot, 1, Len(wanted))
      d2h    == BlockPairs(BuildCoalescedCopySpec(plan.producer, staged))
      push   == PushedPairs(staged, plan.transport, streams)
      h2d    == BlockPairs(plan.h2d)
  IN  Then(Then(d2h, push), h2d)
=============================================================================
