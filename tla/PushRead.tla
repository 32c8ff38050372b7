------------------------------ MODULE PushRead ------------------------------
(***************************************************************************)
(* A read of device blocks from a peer, as KVCacheManagerWithTransfer runs *)
(* it: the consumer's StartRead asks over the control connection, the      *)
(* producer copies its device blocks layer by layer into a host staging    *)
(* slot and pushes each layer over several streams, and the consumer       *)
(* uploads a layer when its last stream has landed.  Staging slots are     *)
(* lent from a pool on either side and taken back at the end of a read, at *)
(* its failure or at its deadline; which free slot is lent is left open.   *)
(*                                                                         *)
(* A cell of host memory holds the read whose bytes it last received.  A   *)
(* layer was uploaded right when each of its cells held the read's own and *)
(* the three copies together took each wanted block where it was wanted.   *)
(***************************************************************************)
EXTENDS Integers, FiniteSets, ReadPlan

CONSTANTS
  Uuid,       \* the transfers, by uuid; each is offered and started once
  NumLayers,  \* block arrays of the cache
  Stream,     \* connections one layer is split over
  SendSlot,   \* staging slots of the producer
  RecvSlot,   \* staging slots of the consumer
  SlotBlocks, \* the host blocks of each slot
  MaxBlocks,  \* max_blocks_, how many they are
  Offered,    \* the device blocks NotifyForRead registers
  Wanted,     \* the pairs of remote and local device blocks each read asks for
  None

ASSUME SizesAssumption ==
  NumLayers \in Nat \ {0} /\ Stream # {} /\ IsFiniteSet(Stream) /\ IsFiniteSet(Uuid)
ASSUME NoneAssumption == None \notin Uuid \cup SendSlot \cup RecvSlot
\* Every stream of a layer has blocks to carry.
ASSUME BlocksAssumption ==
  /\ \A r \in Uuid : Len(Wanted[r]) >= Cardinality(Stream)
  /\ \A q \in SendSlot \cup RecvSlot : Len(SlotBlocks[q]) = MaxBlocks

VARIABLES
  entry,     \* send_entries_: "none" before NotifyForRead, "live", "gone"
  pull,      \* the producer's handler of the pull request and its push thread
  sendSlot,  \* the slot the push thread took
  freeSend,  \* free_slots_ of the producer: how often each slot is in it
  d2h,       \* device-to-host copy of each layer
  sendHost,  \* bytes of the producer's staging slots
  pushed,    \* layers whose push completed
  sent,      \* reads reported in done_sending_
  stream,    \* each stream of each layer, both of its ends
  connect,   \* the consumer's control connection
  recv,      \* active_recv_entries_: "none", "live", "gone"
  recvSlot,  \* the slot the read stages into
  freeRecv,  \* free_slots_ of the consumer, likewise
  h2d,       \* host-to-device copy of each layer
  recvHost,  \* bytes of the consumer's staging slots
  device,    \* what was uploaded
  outcome,   \* whether the read is in done_recving_, failed_recving_ or both
  exposed    \* history: reads whose slot was lent while another's transfer used it

producer == <<entry, pull, sendSlot, freeSend, d2h, sendHost, pushed, sent>>
consumer == <<connect, recv, recvSlot, freeRecv, h2d, recvHost, device, outcome>>
pvars == <<producer, stream, consumer, exposed>>

Layer == 1 .. NumLayers
Bytes == Uuid \cup {None}

PushTypeOK ==
  /\ entry \in [Uuid -> {"none", "live", "gone"}]
  /\ pull \in [Uuid -> {"none", "waiting", "launched", "acquired", "found", "issued", "over", "rejected"}]
  /\ sendSlot \in [Uuid -> SendSlot \cup {None}]
  /\ freeSend \in [SendSlot -> Nat]
  /\ d2h \in [Uuid -> [Layer -> {"none", "issued", "ready", "failed"}]]
  /\ sendHost \in [SendSlot -> [Layer -> Bytes]]
  /\ pushed \in [Uuid -> SUBSET Layer]
  /\ sent \subseteq Uuid
  /\ stream \in [Uuid -> [Layer -> [Stream ->
       {"none", "found", "sending", "lookup", "dispatch", "file", "count", "acked", "lost", "failed"}]]]
  /\ connect \in [Uuid -> {"none", "connecting", "sent", "over"}]
  /\ recv \in [Uuid -> {"none", "live", "gone"}]
  /\ recvSlot \in [Uuid -> RecvSlot \cup {None}]
  /\ freeRecv \in [RecvSlot -> Nat]
  /\ h2d \in [Uuid -> [Layer -> {"none", "issued", "ready", "failed", "counted", "dropped"}]]
  /\ recvHost \in [RecvSlot -> [Layer -> [Stream -> Bytes]]]
  /\ device \in [Uuid -> [Layer -> {"none", "right", "wrong"}]]
  /\ outcome \in [Uuid -> SUBSET {"done", "failed"}]
  /\ exposed \subseteq Uuid

PushInit ==
  /\ entry = [r \in Uuid |-> "none"]
  /\ pull = [r \in Uuid |-> "none"]
  /\ sendSlot = [r \in Uuid |-> None]
  /\ freeSend = [p \in SendSlot |-> 1]
  /\ d2h = [r \in Uuid |-> [l \in Layer |-> "none"]]
  /\ sendHost = [p \in SendSlot |-> [l \in Layer |-> None]]
  /\ pushed = [r \in Uuid |-> {}]
  /\ sent = {}
  /\ stream = [r \in Uuid |-> [l \in Layer |-> [s \in Stream |-> "none"]]]
  /\ connect = [r \in Uuid |-> "none"]
  /\ recv = [r \in Uuid |-> "none"]
  /\ recvSlot = [r \in Uuid |-> None]
  /\ freeRecv = [q \in RecvSlot |-> 1]
  /\ h2d = [r \in Uuid |-> [l \in Layer |-> "none"]]
  /\ recvHost = [q \in RecvSlot |-> [l \in Layer |-> [s \in Stream |-> None]]]
  /\ device = [r \in Uuid |-> [l \in Layer |-> "none"]]
  /\ outcome = [r \in Uuid |-> {}]
  /\ exposed = {}

-----------------------------------------------------------------------------
(* The slot pools *)

\* Where the blocks of each read end up, staged through these two slots.
Reached ==
  [r \in Uuid, p \in SendSlot, q \in RecvSlot |->
     Delivered(Wanted[r], SlotBlocks[p], SlotBlocks[q], Cardinality(Stream))]

\* The remote device blocks a read asks for.
Requested(r) == [k \in DOMAIN Wanted[r] |-> Wanted[r][k][1]]

\* The three copies of a read that is served take each wanted block where it was
\* wanted, whichever slots it is staged through.
PlanDelivers ==
  \A r \in Uuid, p \in SendSlot, q \in RecvSlot :
    FitsSendSlot(Wanted[r], MaxBlocks) /\ FitsRecvSlot(Wanted[r], MaxBlocks)
      /\ ValidateRequestedBlocks(Offered, Requested(r))
    => Reached[r, p, q] = Range(Wanted[r])

\* A transfer of the read still uses the producer's slot: a copy writes it or a
\* stream reads it, or a thread that has found the entry is about to start one.
UsesSendSlot(r) ==
  \/ pull[r] = "found"
  \/ \E l \in Layer : d2h[r][l] = "issued"
  \/ \E l \in Layer, s \in Stream : stream[r][l][s] \in {"found", "sending"}

\* The consumer's slot of the read is in use: the entry is live, or the producer
\* is writing there or may still begin to.
UsesRecvSlot(r) ==
  \/ recv[r] = "live"
  \/ \E l \in Layer, s \in Stream : stream[r][l][s] \in {"found", "sending"}
  \/ entry[r] # "gone" /\ pull[r] \notin {"over", "rejected"} /\ ~ (connect[r] = "over" /\ pull[r] = "none")

\* The slot lent to r is in use by the reads of X.
Expose(r, X) == exposed' = exposed \cup (IF X = {} THEN {} ELSE X \cup {r})

\* AcquireSlotLocked: a free slot leaves the pool.
Lent(free, q) == [free EXCEPT ![q] = @ - 1]

\* ReleaseEntrySlotLocked and the end of a send entry.
FinishSend(X) ==
  /\ sent' = sent \cup X
  /\ entry' = [r \in Uuid |-> IF r \in X THEN "gone" ELSE entry[r]]
  /\ freeSend' = [p \in SendSlot |-> freeSend[p] + Cardinality({r \in X : sendSlot[r] = p})]

\* ReleaseSlotLocked and the end of the receive entries of X, reported as `how`.
FinishRecv(X, how) ==
  /\ outcome' = [r \in Uuid |-> IF r \in X THEN outcome[r] \cup {how} ELSE outcome[r]]
  /\ recv' = [r \in Uuid |-> IF r \in X THEN "gone" ELSE recv[r]]
  /\ freeRecv' = [q \in RecvSlot |-> freeRecv[q] + Cardinality({r \in X : recvSlot[r] = q})]

-----------------------------------------------------------------------------
(* The request *)

\* The producer offers the read's device blocks.
NotifyForRead(r) ==
  /\ entry[r] = "none"
  /\ entry' = [entry EXCEPT ![r] = "live"]
  /\ UNCHANGED <<pull, sendSlot, freeSend, d2h, sendHost, pushed, sent, stream, consumer, exposed>>

\* With no free slot, or more blocks than a slot has, the read fails on the spot.
StartRead(r) ==
  /\ recv[r] = "none"
  /\ \/ /\ FitsRecvSlot(Wanted[r], MaxBlocks) => \A q \in RecvSlot : freeRecv[q] = 0
        /\ recv' = [recv EXCEPT ![r] = "gone"]
        /\ outcome' = [outcome EXCEPT ![r] = @ \cup {"failed"}]
        /\ connect' = [connect EXCEPT ![r] = "over"]
        /\ UNCHANGED <<recvSlot, freeRecv, exposed>>
     \/ \E q \in RecvSlot :
          /\ FitsRecvSlot(Wanted[r], MaxBlocks) /\ freeRecv[q] > 0
          /\ freeRecv' = Lent(freeRecv, q)
          /\ recvSlot' = [recvSlot EXCEPT ![r] = q]
          /\ recv' = [recv EXCEPT ![r] = "live"]
          /\ connect' = [connect EXCEPT ![r] = "connecting"]
          /\ Expose(r, {x \in Uuid \ {r} : recvSlot[x] = q /\ UsesRecvSlot(x)})
          /\ UNCHANGED outcome
  /\ UNCHANGED <<producer, stream, h2d, recvHost, device>>

\* The request reaches the producer, whose handler waits for the offer.
Connect(r) ==
  /\ connect[r] = "connecting"
  /\ connect' = [connect EXCEPT ![r] = "sent"]
  /\ pull' = [pull EXCEPT ![r] = "waiting"]
  /\ UNCHANGED <<entry, sendSlot, freeSend, d2h, sendHost, pushed, sent, stream,
                 recv, recvSlot, freeRecv, h2d, recvHost, device, outcome, exposed>>

\* ReadControlResponseHeader returns: the producer accepted.
Accepted(r) == pull[r] \notin {"none", "waiting", "rejected"}

\* The response is read; nothing else happens in the connecting thread.
Response(r) ==
  /\ connect[r] = "sent" /\ Accepted(r)
  /\ connect' = [connect EXCEPT ![r] = "over"]
  /\ UNCHANGED <<producer, stream, recv, recvSlot, freeRecv, h2d, recvHost, device, outcome, exposed>>

\* The catch block of StartRead's thread: no connection, a broken one, or a
\* rejection.  The failure is reported even when the entry is gone.
ConnectFail(r) ==
  /\ connect[r] \in {"connecting", "sent"}
  /\ connect' = [connect EXCEPT ![r] = "over"]
  /\ IF recv[r] = "live"
     THEN FinishRecv({r}, "failed")
     ELSE /\ outcome' = [outcome EXCEPT ![r] = @ \cup {"failed"}]
          /\ UNCHANGED <<recv, freeRecv>>
  /\ UNCHANGED <<producer, stream, recvSlot, h2d, recvHost, device, exposed>>

-----------------------------------------------------------------------------
(* The producer *)

\* ProcessPullStream once the offer is there: the response is written and a
\* thread launched, unless the blocks are not those offered or the peer is gone.
ProcessPullStream(r, ok) ==
  /\ pull[r] = "waiting" /\ entry[r] = "live"
  /\ pull' = [pull EXCEPT ![r] =
       IF ok /\ ValidateRequestedBlocks(Offered, Requested(r))
       THEN "launched" ELSE "rejected"]
  /\ UNCHANGED <<entry, sendSlot, freeSend, d2h, sendHost, pushed, sent, stream, consumer, exposed>>

\* StartPushInternal, its first critical section.
AcquireSlot(r) ==
  /\ pull[r] = "launched"
  /\ \/ /\ FitsSendSlot(Wanted[r], MaxBlocks) => \A p \in SendSlot : freeSend[p] = 0
        /\ FinishSend({r} \cap {x \in Uuid : entry[x] = "live"})
        /\ pull' = [pull EXCEPT ![r] = "over"]
        /\ UNCHANGED <<sendSlot, exposed>>
     \/ \E p \in SendSlot :
          /\ FitsSendSlot(Wanted[r], MaxBlocks) /\ freeSend[p] > 0
          /\ freeSend' = Lent(freeSend, p)
          /\ sendSlot' = [sendSlot EXCEPT ![r] = p]
          /\ pull' = [pull EXCEPT ![r] = "acquired"]
          /\ Expose(r, {x \in Uuid \ {r} : sendSlot[x] = p /\ UsesSendSlot(x)})
          /\ UNCHANGED <<entry, sent>>
  /\ UNCHANGED <<d2h, sendHost, pushed, stream, consumer>>

\* Its second one looks the entry up.  The slot of a thread that finds none is not
\* given back.
FindSendEntry(r) ==
  /\ pull[r] = "acquired"
  /\ pull' = [pull EXCEPT ![r] = IF entry[r] = "live" THEN "found" ELSE "over"]
  /\ UNCHANGED <<entry, sendSlot, freeSend, d2h, sendHost, pushed, sent, stream, consumer, exposed>>

\* The copy of the next layer is issued, outside the lock: the entry may be gone by
\* now.  If it is refused the send ends.
IssueD2h(r, l, ok) ==
  /\ pull[r] = "found"
  /\ d2h[r][l] = "none" /\ \A m \in Layer : d2h[r][m] = "none" => l <= m
  /\ IF ok
     THEN /\ d2h' = [d2h EXCEPT ![r][l] = "issued"]
          /\ pull' = [pull EXCEPT ![r] = IF l = NumLayers THEN "issued" ELSE @]
          /\ UNCHANGED <<entry, sent, freeSend>>
     ELSE /\ pull' = [pull EXCEPT ![r] = "over"]
          /\ FinishSend({r} \cap {x \in Uuid : entry[x] = "live"})
          /\ UNCHANGED d2h
  /\ UNCHANGED <<sendSlot, sendHost, pushed, stream, consumer, exposed>>

\* A device-to-host copy ends.
D2hDone(r, l, ok) ==
  /\ d2h[r][l] = "issued"
  /\ d2h' = [d2h EXCEPT ![r][l] = IF ok THEN "ready" ELSE "failed"]
  /\ IF ok THEN sendHost' = [sendHost EXCEPT ![sendSlot[r]][l] = r] ELSE UNCHANGED sendHost
  /\ UNCHANGED <<entry, pull, sendSlot, freeSend, pushed, sent, stream, consumer, exposed>>

\* Layers not handed to the transport yet; SendNextLayer takes them in order.
Unsent(r) == {l \in Layer : \A s \in Stream : stream[r][l][s] = "none"}

\* SendNextLayer: the callback on a layer's copy looks the entry up, or ends the send
\* when the copy failed.  Without its entry the chain stops.
SendNextLayer(r, l) ==
  /\ pull[r] = "issued" /\ entry[r] = "live"
  /\ l \in Unsent(r) /\ \A m \in Unsent(r) : l <= m
  /\ \A m \in Layer, s \in Stream : stream[r][m][s] # "found"
  /\ d2h[r][l] \in {"ready", "failed"}
  /\ IF d2h[r][l] = "failed"
     THEN FinishSend({r}) /\ UNCHANGED stream
     ELSE /\ stream' = [stream EXCEPT ![r][l] = [s \in Stream |-> "found"]]
          /\ UNCHANGED <<entry, sent, freeSend>>
  /\ UNCHANGED <<pull, sendSlot, d2h, sendHost, pushed, consumer, exposed>>

\* Outside the lock the layer's streams are handed to the transport.
H2hWriteDirectAsync(r, l) ==
  /\ \A s \in Stream : stream[r][l][s] = "found"
  /\ stream' = [stream EXCEPT ![r][l] = [s \in Stream |-> "sending"]]
  /\ UNCHANGED <<producer, consumer, exposed>>

Ended(r, l) == \A s \in Stream : stream[r][l][s] \in {"acked", "lost", "failed"}

\* The completion callback of a layer's push.
PushDone(r, l) ==
  /\ l \notin pushed[r] /\ Ended(r, l)
  /\ pushed' = [pushed EXCEPT ![r] = @ \cup {l}]
  /\ IF entry[r] = "live" /\ (pushed'[r] = Layer \/ \E s \in Stream : stream[r][l][s] # "acked")
     THEN FinishSend({r})
     ELSE UNCHANGED <<entry, sent, freeSend>>
  /\ UNCHANGED <<pull, sendSlot, d2h, sendHost, stream, consumer, exposed>>

\* CompleteReadRaw on the producer: the sends past their deadline end.
PollSends(X) ==
  /\ X # {} /\ \A r \in X : entry[r] = "live"
  /\ FinishSend(X)
  /\ UNCHANGED <<pull, sendSlot, d2h, sendHost, pushed, stream, consumer, exposed>>

-----------------------------------------------------------------------------
(* The consumer *)

Goto(r, l, s, at) == stream' = [stream EXCEPT ![r][l][s] = at]

\* Fault: the first stream of a layer to land completes it.
ReceiveFirstCompletes(r, l, s) ==
  /\ stream[r][l][s] = "sending"
  /\ recvHost' = [recvHost EXCEPT ![recvSlot[r]][l][s] = sendHost[sendSlot[r]][l]]
  /\ Goto(r, l, s, IF \A t \in Stream \ {s} : stream[r][l][t] = "sending" THEN "lookup" ELSE "count")
  /\ UNCHANGED <<producer, connect, recv, recvSlot, freeRecv, h2d, device, outcome, exposed>>

\* Fault: the count of landed streams is read before it is incremented, so that
\* the last two to land may miss each other.
ReceiveUncounted(r, l, s) ==
  /\ stream[r][l][s] = "sending"
  /\ recvHost' = [recvHost EXCEPT ![recvSlot[r]][l][s] = sendHost[sendSlot[r]][l]]
  /\ Goto(r, l, s, IF \A t \in Stream \ {s} : stream[r][l][t] \in {"acked", "lost"}
                   THEN "lookup" ELSE "count")
  /\ UNCHANGED <<producer, connect, recv, recvSlot, freeRecv, h2d, device, outcome, exposed>>

\* HandleIncomingPush, the payload: the stream that completes its layer goes on
\* to OnLayerReceived, the others to OnBlocksReceived.
Receive(r, l, s) ==
  /\ stream[r][l][s] = "sending"
  /\ recvHost' = [recvHost EXCEPT ![recvSlot[r]][l][s] = sendHost[sendSlot[r]][l]]
  /\ Goto(r, l, s, IF \A t \in Stream \ {s} : stream[r][l][t] \in {"count", "acked", "lost"}
                   THEN "lookup" ELSE "count")
  /\ UNCHANGED <<producer, connect, recv, recvSlot, freeRecv, h2d, device, outcome, exposed>>

\* The connection breaks before the payload is complete.
Break(r, l, s) ==
  /\ stream[r][l][s] = "sending"
  /\ Goto(r, l, s, "failed")
  /\ UNCHANGED <<producer, consumer, exposed>>

\* OnLayerReceived, its first critical section.
OnLayerReceived(r, l, s) ==
  /\ stream[r][l][s] = "lookup"
  /\ Goto(r, l, s, IF recv[r] = "live" THEN "dispatch" ELSE "count")
  /\ UNCHANGED <<producer, consumer, exposed>>

\* H2dSyncDispatch.  A refusal fails the read and releases the slot looked up
\* before, whatever happened to the entry since.
DispatchH2d(r, l, s, ok) ==
  /\ stream[r][l][s] = "dispatch"
  /\ Goto(r, l, s, IF ok THEN "file" ELSE "failed")
  /\ IF ok THEN h2d' = [h2d EXCEPT ![r][l] = "issued"] /\ UNCHANGED <<recv, outcome, freeRecv>>
           ELSE FinishRecv({r}, "failed") /\ UNCHANGED h2d
  /\ UNCHANGED <<producer, connect, recvSlot, recvHost, device, exposed>>

\* The future is filed in the entry.
FileH2d(r, l, s) ==
  /\ stream[r][l][s] = "file"
  /\ Goto(r, l, s, "count")
  /\ UNCHANGED <<producer, consumer, exposed>>

\* OnBlocksReceived, and the acknowledgement, which may not reach the sender.
OnBlocksReceived(r, l, s, heard) ==
  /\ stream[r][l][s] = "count"
  /\ Goto(r, l, s, IF heard THEN "acked" ELSE "lost")
  /\ UNCHANGED <<producer, consumer, exposed>>

\* A host-to-device copy ends; it carried whatever the slot held.
H2dDone(r, l, ok) ==
  /\ h2d[r][l] = "issued"
  /\ h2d' = [h2d EXCEPT ![r][l] = IF ok THEN "ready" ELSE "failed"]
  /\ device' = [device EXCEPT ![r][l] =
       IF ~ ok THEN @
       ELSE IF /\ \A s \in Stream : recvHost[recvSlot[r]][l][s] = r
               /\ Reached[r, sendSlot[r], recvSlot[r]] = Range(Wanted[r])
            THEN "right" ELSE "wrong"]
  /\ UNCHANGED <<producer, stream, connect, recv, recvSlot, freeRecv, recvHost, outcome, exposed>>

\* Fault: a failed copy ends the read without a report.
H2dCallbackSilent(r, l) ==
  /\ h2d[r][l] \in {"ready", "failed"}
  /\ h2d' = [h2d EXCEPT ![r][l] = IF @ = "ready" THEN "counted" ELSE "dropped"]
  /\ IF recv[r] = "live" /\ \A m \in Layer : h2d'[r][m] = "counted"
     THEN FinishRecv({r}, "done")
     ELSE /\ recv' = IF h2d[r][l] = "failed" THEN [recv EXCEPT ![r] = "gone"] ELSE recv
          /\ UNCHANGED <<outcome, freeRecv>>
  /\ UNCHANGED <<producer, stream, connect, recvSlot, recvHost, device, exposed>>

\* The callback on the copy's future.
H2dCallback(r, l) ==
  /\ h2d[r][l] \in {"ready", "failed"}
  /\ h2d' = [h2d EXCEPT ![r][l] = IF @ = "ready" THEN "counted" ELSE "dropped"]
  /\ IF recv[r] = "live" /\ (h2d[r][l] = "failed" \/ \A m \in Layer : h2d'[r][m] = "counted")
     THEN FinishRecv({r}, IF h2d[r][l] = "failed" THEN "failed" ELSE "done")
     ELSE UNCHANGED <<recv, outcome, freeRecv>>
  /\ UNCHANGED <<producer, stream, connect, recvSlot, recvHost, device, exposed>>

\* num_completed_blocks has reached total_blocks * num_layers().
NetworkCompleted(r) == \A l \in Layer, s \in Stream : stream[r][l][s] \in {"acked", "lost"}

\* h2d_futures of the entry.
Filed(r) == {l \in Layer : h2d[r][l] # "none" /\ \A s \in Stream : stream[r][l][s] # "file"}

\* CompleteReadRaw finds the read complete.  A future that failed is ready, too.
Complete(r) ==
  /\ recv[r] = "live" /\ NetworkCompleted(r)
  /\ \A l \in Filed(r) : h2d[r][l] # "issued"

\* CompleteReadRaw on the consumer: complete reads are done, those past their
\* deadline failed.
PollReads(X) ==
  LET D == {r \in Uuid : Complete(r)}
  IN  /\ D \cup X # {}
      /\ \A r \in X : recv[r] = "live" /\ r \notin D
      /\ outcome' = [r \in Uuid |-> outcome[r] \cup (IF r \in D THEN {"done"} ELSE {})
                                               \cup (IF r \in X THEN {"failed"} ELSE {})]
      /\ recv' = [r \in Uuid |-> IF r \in D \cup X THEN "gone" ELSE recv[r]]
      /\ freeRecv' = [q \in RecvSlot |-> freeRecv[q] + Cardinality({r \in D \cup X : recvSlot[r] = q})]
      /\ UNCHANGED <<producer, stream, connect, recvSlot, h2d, recvHost, device, exposed>>

-----------------------------------------------------------------------------
Transport(r, l, s) ==
  \/ Receive(r, l, s) \/ Break(r, l, s)
  \/ OnLayerReceived(r, l, s) \/ FileH2d(r, l, s)
  \/ \E ok \in BOOLEAN : DispatchH2d(r, l, s, ok) \/ OnBlocksReceived(r, l, s, ok)

Step(r) ==
  \/ NotifyForRead(r) \/ StartRead(r) \/ Connect(r) \/ Response(r) \/ ConnectFail(r)
  \/ AcquireSlot(r) \/ FindSendEntry(r)
  \/ \E ok \in BOOLEAN : ProcessPullStream(r, ok)
  \/ \E l \in Layer : SendNextLayer(r, l) \/ H2hWriteDirectAsync(r, l) \/ PushDone(r, l) \/ H2dCallback(r, l)
  \/ \E l \in Layer, ok \in BOOLEAN : IssueD2h(r, l, ok) \/ D2hDone(r, l, ok) \/ H2dDone(r, l, ok)
  \/ \E l \in Layer, s \in Stream : Transport(r, l, s)

PushNext ==
  \/ \E r \in Uuid : Step(r)
  \/ \E X \in SUBSET Uuid : PollSends(X) \/ PollReads(X)

PushSpec == PushInit /\ [][PushNext]_pvars

-----------------------------------------------------------------------------
(* Properties *)

\* A read reported as received has each layer on the device, with its own bytes,
\* whichever way the completion was noticed, if nobody was lent its slot while a
\* transfer still used it and no copy to the device failed.
DoneIntact ==
  \A r \in Uuid \ exposed :
    "done" \in outcome[r] => \A l \in Layer : device[r][l] = "right" \/ h2d[r][l] \in {"failed", "dropped"}

\* When the last block of a live read is counted, every layer's upload was
\* dispatched and filed: the poll that finds no pending future misses none.
PollSeesEveryUpload ==
  \A r \in Uuid : recv[r] = "live" /\ NetworkCompleted(r) => Filed(r) = Layer

\* No read is dropped silently: an entry that is gone was reported, on either side.
NoReadForgotten ==
  \A r \in Uuid : (recv[r] = "gone" => outcome[r] # {}) /\ (entry[r] = "gone" => r \in sent)
=============================================================================
