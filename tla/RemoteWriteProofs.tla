------------------------- MODULE RemoteWriteProofs -------------------------
(***************************************************************************)
(* Proofs about RemoteWrite, for any number of saves and pollers and any   *)
(* timers.  First the types, the claims of the pollers and the one verdict *)
(* of a save, and how the two sides stay in step, whether or not RPCs      *)
(* fail; then the argument on the two timers, for the saves whose RPCs are *)
(* all answered.                                                           *)
(***************************************************************************)
EXTENDS RemoteWrite, TLAPS

\* What the two sides know of each other: nothing happens at the destination
\* before it serves the request, and a save is polled only if it was accepted.
ProtocolAt(o) ==
  /\ src[o] = "idle" => request[o] = "none"
  /\ request[o] # "served" => reply[o] = "none"
  /\ dst[o] = "none" <=> reply[o] # "accepted"
  /\ dst[o] = "none" => pull[o] = "none" /\ landing[o] = "none"
  /\ src[o] = "active" => reply[o] = "accepted"

ProtocolInv == \A o \in Op : ProtocolAt(o)

\* The claims of the pollers are disjoint, and what a poller still has to ask
\* about or to act on is an active save it claimed.
ClaimInv ==
  /\ \A p \in Poller :
       /\ toPoll[p] \subseteq claims[p]
       /\ claims[p] \subseteq polling
       /\ \A o \in toPoll[p] : src[o] = "active"
       /\ answer[p].op # None => answer[p].op \in toPoll[p]
  /\ \A p, q \in Poller : \A o \in Op : o \in claims[p] /\ o \in claims[q] => p = q

\* A save that is still open has no verdict yet.
OpenInv ==
  /\ FinishedOnce
  /\ \A o \in Op : src[o] \in {"idle", "rpc", "active"} => verdicts[o] = 0

\* A save is being completed by the completer only, after its pull resolved.
LandingInv ==
  /\ LandingFreedOnlyWhenQuiet
  /\ \A o \in Op : dst[o] = "completing" <=> completer = o
  /\ \A o \in Op : dst[o] = "completing" => pull[o] = "resolved"
  /\ \A o \in Op : dst[o] \in {"pending", "completing"} => landing[o] = "held"

\* Next is one of the actions.
LEMMA NextIsAction ==
  ASSUME Next
  PROVE  \/ \E o \in Op : Offer(o)
         \/ \E o \in Op : Ack(o)
         \/ \E o \in Op : AckLost(o)
         \/ \E o \in Op : Reuse(o)
         \/ \E p \in Poller : PollClaim(p)
         \/ \E p \in Poller, o \in Op : PollAsk(p, o)
         \/ \E p \in Poller, o \in Op : PollError(p, o)
         \/ \E p \in Poller, o \in Op : PollApply(p, o)
         \/ \E p \in Poller : PollRelease(p)
         \/ \E o \in Op : Serve(o)
         \/ \E o \in Op : PullReads(o)
         \/ \E o \in Op, ok \in BOOLEAN : TransferComplete(o, ok)
         \/ \E o \in Op : Recheck(o)
         \/ \E o \in Op : Insert(o)
         \/ \E o \in Op : Register(o)
         \/ \E o \in Op : DeadlineFires(o)
         \/ \E k \in Key : LocalStore(k)
         \/ \E k \in Key : LocalEvict(k)
         \/ Tick
BY Zenon DEF Next, SourceNext, PollerNext, DestinationNext

\* The granted deadline is a time span.
LEMMA GrantedNat == Granted \in Nat
BY TimersAssumption DEF Granted

\* A save ends at the source with this verdict.
Verdict(o, v) ==
  /\ src' = [src EXCEPT ![o] = v]
  /\ pin' = [pin EXCEPT ![o] = @ - 1]
  /\ verdicts' = [verdicts EXCEPT ![o] = @ + 1]

\* A poller gives a verdict, or leaves a pending save whose hold is running.
LEMMA PollVerdict ==
  ASSUME NEW p \in Poller, NEW o \in Op, PollApply(p, o)
  PROVE  \/ Verdict(o, "done")
         \/ Verdict(o, "failed")
         \/ UNCHANGED <<src, pin, verdicts>>
<1>1. CASE answer[p].state = "pending"
  BY Zenon, <1>1 DEF PollApply, Pending, FinishRemoteWrite, Verdict
<1>2. CASE answer[p].state # "pending" /\ answer[p].state \in {"committed", "all_exist"}
  BY Zenon, <1>2 DEF PollApply, FinishRemoteWrite, Verdict
<1>3. CASE answer[p].state # "pending" /\ answer[p].state \notin {"committed", "all_exist"}
  BY Zenon, <1>3 DEF PollApply, FinishRemoteWrite, Verdict
<1> QED
  BY Zenon, <1>1, <1>2, <1>3

\* Type correctness is preserved by every step.
LEMMA TypeStep == TypeOK /\ ClaimInv /\ [Next]_vars => TypeOK'
<1> SUFFICES ASSUME TypeOK, ClaimInv, [Next]_vars PROVE TypeOK'
  OBVIOUS
<1> USE GrantedNat, TimersAssumption, NoneAssumption
<1>1. ASSUME NEW o \in Op, Offer(o) PROVE TypeOK'
  BY <1>1 DEF TypeOK, Offer, pollers, destination
<1>2. ASSUME NEW o \in Op, Ack(o) PROVE TypeOK'
  <2> USE <1>2 DEF Ack, rpc, pollers, destination
  <2>1. CASE Accepted(o)
    BY <2>1 DEF TypeOK, Accepted
  <2>2. CASE Settled(o)
    BY <2>2 DEF TypeOK, Settled, FinishRemoteWrite
  <2>3. CASE RollBack(o)
    BY <2>3 DEF TypeOK, RollBack
  <2> QED
    BY Zenon, <2>1, <2>2, <2>3
<1>3. ASSUME NEW o \in Op, AckLost(o) PROVE TypeOK'
  BY <1>3 DEF TypeOK, AckLost, RollBack, rpc, pollers, destination
<1>4. ASSUME NEW o \in Op, Reuse(o) PROVE TypeOK'
  BY Zenon, <1>4 DEF TypeOK, Reuse, rpc, pollers, destination
<1>5. ASSUME NEW p \in Poller, PollClaim(p) PROVE TypeOK'
  BY Zenon, <1>5 DEF TypeOK, PollClaim, source, rpc, destination
<1>6. ASSUME NEW p \in Poller, NEW o \in Op, PollAsk(p, o) PROVE TypeOK'
  BY Zenon, <1>6 DEF TypeOK, PollAsk, WireState, source, rpc
<1>7. ASSUME NEW p \in Poller, NEW o \in Op, PollError(p, o) PROVE TypeOK'
  BY Zenon, <1>7 DEF TypeOK, PollError, source, rpc, destination
<1>8. ASSUME NEW p \in Poller, NEW o \in Op, PollApply(p, o) PROVE TypeOK'
  <2> USE <1>8 DEF PollApply, rpc, destination
  <2>1. ASSUME NEW v \in {"done", "failed"}, Verdict(o, v) PROVE TypeOK'
    BY <2>1 DEF TypeOK, Verdict
  <2>2. CASE UNCHANGED <<src, pin, verdicts>>
    BY Zenon, <2>2 DEF TypeOK
  <2> QED
    BY ZenonT(60), <2>1, <2>2, PollVerdict
<1>9. ASSUME NEW p \in Poller, PollRelease(p) PROVE TypeOK'
  BY Zenon, <1>9 DEF TypeOK, PollRelease, source, rpc, destination
<1>10. ASSUME NEW o \in Op, Serve(o) PROVE TypeOK'
  <2> USE <1>10 DEF Serve, source, pollers
  <2>1. CASE Exists(o)
    BY Zenon, <2>1 DEF TypeOK, Exists, destination
  <2>2. CASE Refused(o)
    BY Zenon, <2>2 DEF TypeOK, Refused, destination
  <2>3. CASE Accept(o)
    BY <2>3 DEF TypeOK, Accept
  <2> QED
    BY Zenon, <2>1, <2>2, <2>3
<1>11. ASSUME NEW o \in Op, PullReads(o) PROVE TypeOK'
  BY Zenon, <1>11 DEF TypeOK, PullReads, source, rpc, pollers
<1>12. ASSUME NEW o \in Op, NEW ok \in BOOLEAN, TransferComplete(o, ok) PROVE TypeOK'
  <2> USE <1>12 DEF TransferComplete, ReleaseLandingBlocks, source, rpc, pollers, Terminal
  <2>1. CASE Claimable(o, ok)
    BY <2>1 DEF TypeOK
  <2>2. CASE ~Claimable(o, ok)
    <3>1. dst' \in [Op -> Terminal \cup {"none", "pending", "completing", "erased"}]
      BY <2>2 DEF TypeOK
    <3>2. /\ pull' \in [Op -> {"none", "running", "read", "resolved"}]
          /\ landing' \in [Op -> {"none", "held", "freed", "kept"}]
      BY <2>2 DEF TypeOK
    <3>3. /\ UNCHANGED <<now, source, rpc, pollers, deadline, bytes, completer, step, entry>>
      BY Zenon, <2>2
    <3> HIDE DEF TransferComplete, ReleaseLandingBlocks, Terminal
    <3> QED
      BY Zenon, <3>1, <3>2, <3>3 DEF TypeOK
  <2> QED
    BY Zenon, <2>1, <2>2
<1>13. ASSUME NEW o \in Op, Recheck(o) PROVE TypeOK'
  <2> USE <1>13 DEF Recheck, source, rpc, pollers, Terminal
  <2>1. ASSUME NEW state \in Terminal, Finish(o, state) PROVE TypeOK'
    BY Zenon, <2>1 DEF TypeOK, Finish, ReleaseLandingBlocks
  <2>2. CASE ~\E state \in Terminal : Finish(o, state)
    BY <2>2 DEF TypeOK
  <2> QED
    BY Zenon, <2>1, <2>2
<1>14. ASSUME NEW o \in Op, Insert(o) PROVE TypeOK'
  <2> USE <1>14 DEF Insert, source, rpc, pollers, Terminal
  <2>1. ASSUME NEW state \in Terminal, Finish(o, state) PROVE TypeOK'
    BY Zenon, <2>1 DEF TypeOK, Finish, ReleaseLandingBlocks
  <2>2. CASE ~\E state \in Terminal : Finish(o, state)
    BY <2>2 DEF TypeOK
  <2> QED
    BY Zenon, <2>1, <2>2
<1>15. ASSUME NEW o \in Op, Register(o) PROVE TypeOK'
  <2> USE <1>15 DEF Register, source, rpc, pollers, Terminal
  <2>1. ASSUME NEW state \in Terminal, Finish(o, state) PROVE TypeOK'
    BY Zenon, <2>1 DEF TypeOK, Finish, ReleaseLandingBlocks
  <2>2. CASE ~\E state \in Terminal : Finish(o, state)
    BY Zenon, <2>2 DEF TypeOK
  <2> QED
    BY Zenon, <2>1, <2>2
<1>16. ASSUME NEW o \in Op, DeadlineFires(o) PROVE TypeOK'
  BY Zenon, <1>16 DEF TypeOK, DeadlineFires, source, rpc, pollers, Terminal
<1>17. ASSUME NEW k \in Key, LocalStore(k) PROVE TypeOK'
  BY Zenon, <1>17 DEF TypeOK, LocalStore, source, rpc, pollers
<1>18. ASSUME NEW k \in Key, LocalEvict(k) PROVE TypeOK'
  BY Zenon, <1>18 DEF TypeOK, LocalEvict, source, rpc, pollers
<1>19. ASSUME Tick PROVE TypeOK'
  BY <1>19 DEF TypeOK, Tick, source, rpc, pollers, destination
<1>20. ASSUME UNCHANGED vars PROVE TypeOK'
  BY Zenon, <1>20 DEF TypeOK, vars, source, rpc, pollers, destination
<1> QED
  BY Zenon, NextIsAction, <1>1, <1>2, <1>3, <1>4, <1>5, <1>6, <1>7, <1>8, <1>9, <1>10, <1>11,
     <1>12, <1>13, <1>14, <1>15, <1>16, <1>17, <1>18, <1>19, <1>20

\* Steps of the destination, of its local traffic and of the clock leave the
\* source and its pollers alone.
RemoteStep ==
  \/ \E o \in Op : DestinationNext(o)
  \/ \E k \in Key : LocalStore(k) \/ LocalEvict(k)
  \/ Tick

\* What a step of the destination leaves alone.
LEMMA RemoteStepFrame == RemoteStep => UNCHANGED <<source, pollers>>
<1>1. ASSUME NEW o \in Op, DestinationNext(o) PROVE UNCHANGED <<source, pollers>>
  BY Zenon, <1>1 DEF DestinationNext, Serve, PullReads, TransferComplete, ReleaseLandingBlocks, Recheck, Insert,
              Register, DeadlineFires
<1> QED
  BY Zenon, <1>1 DEF RemoteStep, LocalStore, LocalEvict, Tick

\* Steps of the source and its pollers leave the destination alone, except for
\* the records a poll erases.
LocalStep ==
  \/ \E o \in Op : SourceNext(o)
  \/ \E p \in Poller : PollerNext(p)

\* Every step is on one of the two sides.
LEMMA NextIsLocalOrRemote == Next => LocalStep \/ RemoteStep
BY Zenon DEF Next, LocalStep, RemoteStep

\* The pollers' claims stay disjoint and cover what they act on.
LEMMA ClaimStep == TypeOK /\ ClaimInv /\ [Next]_vars => ClaimInv'
<1> SUFFICES ASSUME TypeOK, ClaimInv, [Next]_vars PROVE ClaimInv'
  OBVIOUS
<1> USE NoneAssumption
<1>0. \A q \in Poller : toPoll[q] \subseteq Op /\ claims[q] \subseteq Op
  BY Zenon DEF TypeOK
<1>1. CASE UNCHANGED <<source, pollers>>
  BY Zenon, <1>1 DEF ClaimInv, source, pollers
<1>2. ASSUME NEW o \in Op, SourceNext(o) PROVE ClaimInv'
  <2>1. src[o] # "active" /\ (\A x \in Op : x # o => src'[x] = src[x]) /\ UNCHANGED pollers
    BY <1>2 DEF TypeOK, SourceNext, Offer, Ack, Accepted, Settled, RollBack, FinishRemoteWrite,
                AckLost, Reuse
  <2> QED
    BY Zenon, <1>0, <2>1 DEF ClaimInv, pollers
<1>3. ASSUME NEW p \in Poller, PollClaim(p) PROVE ClaimInv'
  <2>1. \A q \in Poller : claims'[q] = IF q = p THEN {o \in Op : src[o] = "active"} \ polling
                                               ELSE claims[q]
    BY Zenon, <1>3 DEF TypeOK, PollClaim
  <2>2. \A q \in Poller : toPoll'[q] = IF q = p THEN {o \in Op : src[o] = "active"} \ polling
                                               ELSE toPoll[q]
    BY Zenon, <1>3 DEF TypeOK, PollClaim
  <2>3. /\ polling' = polling \cup ({o \in Op : src[o] = "active"} \ polling)
        /\ UNCHANGED <<src, answer>>
        /\ claims[p] = {}
    BY Zenon, <1>3 DEF TypeOK, PollClaim, source
  <2>4. answer[p].op = None
    BY Zenon, <2>3 DEF ClaimInv
  <2> QED
    <3>1. \A q \in Poller :
            /\ toPoll'[q] \subseteq claims'[q] /\ claims'[q] \subseteq polling'
            /\ \A o \in toPoll'[q] : src'[o] = "active"
      BY ZenonT(60), <2>1, <2>2, <2>3 DEF ClaimInv
    <3>2. \A q \in Poller : answer'[q].op # None => answer'[q].op \in toPoll'[q]
      BY ZenonT(60), <2>2, <2>3, <2>4 DEF ClaimInv
    <3>3. \A q, r \in Poller : \A o \in Op : o \in claims'[q] /\ o \in claims'[r] => q = r
      <4>1. /\ \A q \in Poller : \A o \in Op : o \in claims[q] => o \in polling
            /\ \A q, r \in Poller : \A o \in Op : o \in claims[q] /\ o \in claims[r] => q = r
        BY Zenon DEF ClaimInv
      <4>2. \A o \in Op : o \in claims'[p] => o \notin polling
        BY ZenonT(60), <2>1
      <4>3. \A q \in Poller : q # p => claims'[q] = claims[q]
        BY ZenonT(60), <2>1
      <4> QED
        BY Zenon, <4>1, <4>2, <4>3
    <3> QED
      BY Zenon, <3>1, <3>2, <3>3 DEF ClaimInv
<1>4. ASSUME NEW p \in Poller, NEW o \in Op, PollAsk(p, o) \/ PollError(p, o) PROVE ClaimInv'
  <2>1. /\ o \in toPoll[p]
        /\ answer'[p].op = o
        /\ \A q \in Poller : q # p => answer'[q] = answer[q]
        /\ UNCHANGED <<src, polling, toPoll, claims>>
    BY <1>4 DEF TypeOK, PollAsk, PollError, source
  <2> QED
    BY ZenonT(60), <2>1 DEF ClaimInv, TypeOK
<1>5. ASSUME NEW p \in Poller, NEW o \in Op, PollApply(p, o) PROVE ClaimInv'
  <2>1. /\ answer[p].op = o
        /\ answer'[p].op = None
        /\ \A q \in Poller : q # p => answer'[q] = answer[q] /\ toPoll'[q] = toPoll[q]
        /\ toPoll'[p] = toPoll[p] \ {o}
        /\ UNCHANGED <<polling, claims>>
    BY <1>5 DEF TypeOK, PollApply
  <2>2. \A x \in Op : x # o => src'[x] = src[x]
    BY <1>5, PollVerdict DEF TypeOK, Verdict
  <2>3. \A q \in Poller : q # p => o \notin toPoll[q]
    BY <2>1 DEF ClaimInv, TypeOK
  <2> QED
    <3>1. \A q \in Poller : toPoll'[q] \subseteq toPoll[q] /\ o \notin toPoll'[q]
      BY Zenon, <2>1, <2>3
    <3>2. \A q \in Poller :
            /\ toPoll'[q] \subseteq claims'[q] /\ claims'[q] \subseteq polling'
            /\ \A x \in toPoll'[q] : src'[x] = "active"
      BY <1>0, <2>1, <2>2, <3>1 DEF ClaimInv
    <3>3. \A q \in Poller : answer'[q].op # None => answer'[q].op \in toPoll'[q]
      BY Zenon, <2>1 DEF ClaimInv
    <3> QED
      BY ZenonT(60), <2>1, <3>2, <3>3 DEF ClaimInv
<1>6. ASSUME NEW p \in Poller, PollRelease(p) PROVE ClaimInv'
  <2>1. /\ \A q \in Poller : claims'[q] = IF q = p THEN {} ELSE claims[q]
        /\ polling' = polling \ claims[p]
        /\ toPoll[p] = {}
        /\ UNCHANGED <<src, toPoll, answer>>
    BY <1>6 DEF TypeOK, PollRelease, source
  <2> QED
    BY ZenonT(60), <2>1 DEF ClaimInv, TypeOK
<1> QED
  BY Zenon, <1>1, <1>2, <1>3, <1>4, <1>5, <1>6, NextIsLocalOrRemote, RemoteStepFrame
  DEF LocalStep, PollerNext, vars

\* What the source does with the answer to its offer.
LEMMA AckEffect ==
  ASSUME NEW o \in Op, Ack(o)
  PROVE  /\ src[o] = "rpc" /\ reply[o] # "none"
         /\ UNCHANGED <<now, reused, rpc, pollers, destination>>
         /\ \/ Accepted(o)
            \/ reply[o] # "accepted" /\ Verdict(o, "done") /\ UNCHANGED holdExpiry
            \/ reply[o] # "accepted" /\ Verdict(o, "failed") /\ UNCHANGED holdExpiry
            \/ reply[o] # "accepted" /\ RollBack(o)
<1>1. ASSUME Settled(o)
      PROVE  /\ reply[o] # "accepted" /\ UNCHANGED holdExpiry
             /\ Verdict(o, "done") \/ Verdict(o, "failed")
  <2>1. CASE reply[o] = "all_exist"
    BY Zenon, <1>1, <2>1 DEF Settled, FinishRemoteWrite, Verdict
  <2>2. CASE reply[o] # "all_exist"
    BY Zenon, <1>1, <2>2 DEF Settled, FinishRemoteWrite, Verdict
  <2> QED
    BY Zenon, <2>1, <2>2
<1> QED
  BY ZenonT(60), <1>1 DEF Ack

\* The state an answer leaves the save in.
LEMMA AckState ==
  ASSUME TypeOK, NEW o \in Op, Ack(o)
  PROVE  /\ \A x \in Op : x # o => src'[x] = src[x] /\ holdExpiry'[x] = holdExpiry[x]
         /\ reply[o] = "accepted" => src'[o] = "active"
         /\ reply[o] # "accepted" => src'[o] \in {"done", "failed"}
<1>0. src \in [Op -> {"idle", "rpc", "active", "done", "failed"}] /\ holdExpiry \in [Op -> Nat]
  BY Zenon DEF TypeOK
<1>1. CASE Accepted(o)
  BY Zenon, <1>0, <1>1 DEF Accepted
<1>2. ASSUME NEW v \in {"done", "failed"}, reply[o] # "accepted", Verdict(o, v), UNCHANGED holdExpiry
      PROVE  /\ \A x \in Op : x # o => src'[x] = src[x] /\ holdExpiry'[x] = holdExpiry[x]
             /\ src'[o] \in {"done", "failed"}
  BY Zenon, <1>0, <1>2 DEF Verdict
<1>3. CASE reply[o] # "accepted" /\ RollBack(o)
  BY Zenon, <1>0, <1>3 DEF RollBack
<1> QED
  BY Zenon, <1>1, <1>2, <1>3, AckEffect

\* What OpenInv says of one save.
OpenAt(o) ==
  /\ pin[o] = IF src[o] \in {"rpc", "active"} THEN 1 ELSE 0
  /\ verdicts[o] <= 1
  /\ src[o] \in {"idle", "rpc", "active"} => verdicts[o] = 0

LEMMA OpenIsPointwise == OpenInv <=> \A o \in Op : OpenAt(o)
BY Zenon DEF OpenInv, FinishedOnce, OpenAt

LEMMA OpenIsPointwiseNext == OpenInv' <=> \A o \in Op : OpenAt(o)'
BY Zenon DEF OpenInv, FinishedOnce, OpenAt

\* A step that changes one save keeps OpenInv if it does so for that save.
LEMMA OpenOne ==
  ASSUME OpenInv, NEW o \in Op, OpenAt(o)',
         \A x \in Op : x # o => src'[x] = src[x] /\ pin'[x] = pin[x] /\ verdicts'[x] = verdicts[x]
  PROVE  OpenInv'
<1> SUFFICES ASSUME NEW x \in Op PROVE OpenAt(x)'
  BY Zenon, OpenIsPointwiseNext
<1>1. OpenAt(x)
  BY Zenon, OpenIsPointwise
<1>2. CASE x = o
  BY Zenon, <1>2
<1>3. CASE x # o
  BY Zenon, <1>1, <1>3 DEF OpenAt
<1> QED
  BY Zenon, <1>2, <1>3

\* The verdict on an open save drops its pin.
LEMMA VerdictStep ==
  ASSUME TypeOK, OpenInv, NEW o \in Op, src[o] \in {"rpc", "active"},
         NEW v \in {"done", "failed"}, Verdict(o, v)
  PROVE  OpenInv'
<1>0. /\ src \in [Op -> {"idle", "rpc", "active", "done", "failed"}]
      /\ pin \in [Op -> Int] /\ verdicts \in [Op -> Nat]
  BY Zenon DEF TypeOK
<1>a. OpenAt(o)
  BY Zenon, OpenIsPointwise
<1>1. pin[o] = 1 /\ verdicts[o] = 0
  BY Zenon, <1>a DEF OpenAt
<1>2. /\ src'[o] = v /\ pin'[o] = 0 /\ verdicts'[o] = 1
      /\ \A x \in Op : x # o => src'[x] = src[x] /\ pin'[x] = pin[x] /\ verdicts'[x] = verdicts[x]
  BY <1>0, <1>1 DEF Verdict
<1>3. OpenAt(o)'
  BY <1>2 DEF OpenAt
<1> QED
  BY Zenon, <1>2, <1>3, OpenOne

\* So does a roll back, which files no verdict.
LEMMA RollBackStep ==
  ASSUME TypeOK, OpenInv, NEW o \in Op, src[o] \in {"rpc", "active"}, RollBack(o)
  PROVE  OpenInv'
<1>0. /\ src \in [Op -> {"idle", "rpc", "active", "done", "failed"}]
      /\ pin \in [Op -> Int] /\ verdicts \in [Op -> Nat]
  BY Zenon DEF TypeOK
<1>a. OpenAt(o)
  BY Zenon, OpenIsPointwise
<1>1. pin[o] = 1 /\ verdicts[o] = 0
  BY Zenon, <1>a DEF OpenAt
<1>2. /\ src'[o] = "failed" /\ pin'[o] = 0 /\ verdicts'[o] = 0
      /\ \A x \in Op : x # o => src'[x] = src[x] /\ pin'[x] = pin[x] /\ verdicts'[x] = verdicts[x]
  BY <1>0, <1>1 DEF RollBack
<1>3. OpenAt(o)'
  BY <1>2 DEF OpenAt
<1> QED
  BY Zenon, <1>2, <1>3, OpenOne

\* A save keeps its one pin until its one verdict.
LEMMA OpenStep == TypeOK /\ ClaimInv /\ OpenInv /\ [Next]_vars => OpenInv'
<1> SUFFICES ASSUME TypeOK, ClaimInv, OpenInv, [Next]_vars PROVE OpenInv'
  OBVIOUS
<1>0. /\ src \in [Op -> {"idle", "rpc", "active", "done", "failed"}]
      /\ pin \in [Op -> Int] /\ verdicts \in [Op -> Nat]
  BY Zenon DEF TypeOK
<1>1. ASSUME UNCHANGED <<src, pin, verdicts>> PROVE OpenInv'
  BY Zenon, <1>1 DEF OpenInv, FinishedOnce
<1>2. ASSUME NEW o \in Op, Offer(o) PROVE OpenInv'
  <2>1. OpenAt(o)
    BY Zenon, OpenIsPointwise
  <2>2. /\ src[o] = "idle" /\ src'[o] = "rpc" /\ pin'[o] = pin[o] + 1 /\ verdicts'[o] = verdicts[o]
        /\ \A x \in Op : x # o => src'[x] = src[x] /\ pin'[x] = pin[x] /\ verdicts'[x] = verdicts[x]
    BY Zenon, <1>0, <1>2 DEF Offer
  <2>3. OpenAt(o)'
    BY <2>1, <2>2 DEF OpenAt
  <2> QED
    BY Zenon, <2>2, <2>3, OpenOne
<1>3. ASSUME NEW o \in Op, Ack(o) PROVE OpenInv'
  <2>1. CASE Accepted(o)
    <3>1. OpenAt(o)
      BY Zenon, OpenIsPointwise
    <3>2. /\ src[o] = "rpc" /\ src'[o] = "active" /\ UNCHANGED <<pin, verdicts>>
          /\ \A x \in Op : x # o => src'[x] = src[x]
      BY Zenon, <1>0, <1>3, <2>1, AckEffect DEF Accepted
    <3>3. OpenAt(o)'
      BY Zenon, <3>1, <3>2 DEF OpenAt
    <3> QED
      BY Zenon, <3>2, <3>3, OpenOne
  <2>2. ASSUME NEW v \in {"done", "failed"}, Verdict(o, v) PROVE OpenInv'
    BY Zenon, <1>3, <2>2, VerdictStep, AckEffect
  <2>3. CASE RollBack(o)
    BY Zenon, <1>3, <2>3, RollBackStep, AckEffect
  <2> QED
    BY Zenon, <1>3, <2>1, <2>2, <2>3, AckEffect
<1>4. ASSUME NEW o \in Op, AckLost(o) PROVE OpenInv'
  BY Zenon, <1>4, RollBackStep DEF AckLost
<1>5. ASSUME NEW o \in Op, Reuse(o) PROVE OpenInv'
  BY Zenon, <1>1, <1>5 DEF Reuse
<1>6. ASSUME NEW p \in Poller, NEW o \in Op, PollApply(p, o) PROVE OpenInv'
  <2>1. src[o] = "active"
    BY Zenon, <1>6, NoneAssumption DEF PollApply, ClaimInv
  <2>2. ASSUME NEW v \in {"done", "failed"}, Verdict(o, v) PROVE OpenInv'
    BY Zenon, <2>1, <2>2, VerdictStep
  <2> QED
    BY Zenon, <1>1, <1>6, <2>2, PollVerdict
<1>7. ASSUME NEW p \in Poller, PollClaim(p) \/ PollRelease(p) PROVE OpenInv'
  BY Zenon, <1>1, <1>7 DEF PollClaim, PollRelease, source
<1>8. ASSUME NEW p \in Poller, NEW o \in Op, PollAsk(p, o) \/ PollError(p, o) PROVE OpenInv'
  BY Zenon, <1>1, <1>8 DEF PollAsk, PollError, source
<1>9. ASSUME RemoteStep \/ UNCHANGED vars PROVE OpenInv'
  BY Zenon, <1>1, <1>9, RemoteStepFrame DEF source, vars
<1>10. ASSUME NEW o \in Op, SourceNext(o) PROVE OpenInv'
  BY Zenon, <1>2, <1>3, <1>4, <1>5, <1>10 DEF SourceNext
<1>11. ASSUME NEW p \in Poller, PollerNext(p) PROVE OpenInv'
  BY Zenon, <1>6, <1>7, <1>8, <1>11 DEF PollerNext
<1>12. ASSUME LocalStep PROVE OpenInv'
  BY Zenon, <1>10, <1>11, <1>12 DEF LocalStep
<1> QED
  BY Zenon, <1>9, <1>12, NextIsLocalOrRemote

-----------------------------------------------------------------------------
(* The two sides of the protocol and the landing blocks *)

BaseInv == TypeOK /\ ProtocolInv /\ ClaimInv /\ OpenInv /\ LandingInv

\* A claimed write moves to its next step or ends.
LEMMA CompleterStep ==
  ASSUME NEW o \in Op, Recheck(o) \/ Insert(o) \/ Register(o)
  PROVE  /\ completer = o
         /\ UNCHANGED <<now, source, rpc, pollers>>
         /\ \/ \E state \in Terminal : Finish(o, state)
            \/ UNCHANGED <<dst, deadline, pull, bytes, landing, completer>>
<1>1. CASE Recheck(o)
  BY ZenonT(60), <1>1 DEF Recheck, Terminal
<1>2. CASE Insert(o)
  BY Zenon, <1>2 DEF Insert, Terminal
<1>3. CASE Register(o)
  BY Zenon, <1>3 DEF Register, Terminal
<1> QED
  BY Zenon, <1>1, <1>2, <1>3

\* A step that changes one save keeps ProtocolInv if it does so for that save.
LEMMA ProtocolOne ==
  ASSUME ProtocolInv, NEW o \in Op, ProtocolAt(o)',
         \A x \in Op : x # o => /\ src'[x] = src[x] /\ request'[x] = request[x]
                                /\ reply'[x] = reply[x] /\ dst'[x] = dst[x]
                                /\ pull'[x] = pull[x] /\ landing'[x] = landing[x]
  PROVE  ProtocolInv'
<1> SUFFICES ASSUME NEW x \in Op PROVE ProtocolAt(x)'
  BY Zenon DEF ProtocolInv
<1>1. ProtocolAt(x)
  BY Zenon DEF ProtocolInv
<1>2. CASE x = o
  BY Zenon, <1>2
<1>3. CASE x # o
  BY Zenon, <1>1, <1>3 DEF ProtocolAt
<1> QED
  BY Zenon, <1>2, <1>3

\* The two sides stay in step.
LEMMA ProtocolStep == TypeOK /\ ClaimInv /\ ProtocolInv /\ LandingInv /\ [Next]_vars => ProtocolInv'
<1> SUFFICES ASSUME TypeOK, ClaimInv, ProtocolInv, LandingInv, [Next]_vars PROVE ProtocolInv'
  OBVIOUS
<1>0. \A o \in Op : ProtocolAt(o)
  BY Zenon DEF ProtocolInv
<1>s. /\ src \in [Op -> {"idle", "rpc", "active", "done", "failed"}]
      /\ request \in [Op -> {"none", "sent", "served"}]
      /\ reply \in [Op -> {"none", "accepted", "all_exist", "partial_exist", "refused"}]
  BY Zenon DEF TypeOK
<1>d. /\ dst \in [Op -> Terminal \cup {"none", "pending", "completing", "erased"}]
      /\ pull \in [Op -> {"none", "running", "read", "resolved"}]
      /\ landing \in [Op -> {"none", "held", "freed", "kept"}]
  BY Zenon DEF TypeOK
<1>1. ASSUME UNCHANGED <<src, request, reply, dst, pull, landing>> PROVE ProtocolInv'
  BY Zenon, <1>1 DEF ProtocolInv, ProtocolAt
<1>2. ASSUME NEW o \in Op, Offer(o) PROVE ProtocolInv'
  <2>1. /\ src[o] = "idle" /\ src'[o] = "rpc" /\ request'[o] = "sent"
        /\ UNCHANGED <<reply, dst, pull, landing>>
        /\ \A x \in Op : x # o => src'[x] = src[x] /\ request'[x] = request[x]
    BY Zenon, <1>s, <1>2 DEF Offer, destination
  <2>2. ProtocolAt(o)'
    BY Zenon, <1>0, <2>1 DEF ProtocolAt
  <2> QED
    BY Zenon, <2>1, <2>2, ProtocolOne
<1>3. ASSUME NEW o \in Op, Ack(o) PROVE ProtocolInv'
  <2>1. UNCHANGED <<request, reply, dst, pull, landing>> /\ src[o] = "rpc"
    BY Zenon, <1>3, AckEffect DEF rpc, destination
  <2>2. /\ \A x \in Op : x # o => src'[x] = src[x]
        /\ reply[o] = "accepted" => src'[o] = "active"
        /\ reply[o] # "accepted" => src'[o] \in {"done", "failed"}
    BY Zenon, <1>3, AckState
  <2>3. ProtocolAt(o)'
    BY Zenon, <1>0, <2>1, <2>2 DEF ProtocolAt
  <2> QED
    BY Zenon, <2>1, <2>2, <2>3, ProtocolOne
<1>4. ASSUME NEW o \in Op, AckLost(o) PROVE ProtocolInv'
  <2>1. /\ src'[o] = "failed" /\ UNCHANGED <<request, reply, dst, pull, landing>>
        /\ \A x \in Op : x # o => src'[x] = src[x]
    BY Zenon, <1>s, <1>4 DEF AckLost, RollBack, destination
  <2>2. ProtocolAt(o)'
    BY Zenon, <1>0, <2>1 DEF ProtocolAt
  <2> QED
    BY Zenon, <2>1, <2>2, ProtocolOne
<1>5. ASSUME NEW o \in Op, Reuse(o) PROVE ProtocolInv'
  BY Zenon, <1>1, <1>5 DEF Reuse, rpc, destination
<1>6. ASSUME NEW p \in Poller, PollClaim(p) \/ PollRelease(p) PROVE ProtocolInv'
  BY Zenon, <1>1, <1>6 DEF PollClaim, PollRelease, source, rpc, destination
<1>7. ASSUME NEW p \in Poller, NEW o \in Op, PollAsk(p, o) PROVE ProtocolInv'
  <2>1. UNCHANGED <<src, request, reply, pull, landing>>
    BY ZenonT(60), <1>7 DEF PollAsk, source, rpc
  <2>2. \A x \in Op : dst'[x] = "none" <=> dst[x] = "none"
    BY ZenonT(60), <1>7 DEF PollAsk, Expired, Terminal
  <2> SUFFICES ASSUME NEW x \in Op PROVE ProtocolAt(x)'
    BY Zenon DEF ProtocolInv
  <2> QED
    BY Zenon, <1>0, <2>1, <2>2 DEF ProtocolAt
<1>8. ASSUME NEW p \in Poller, NEW o \in Op, PollError(p, o) PROVE ProtocolInv'
  BY ZenonT(60), <1>1, <1>8 DEF PollError, source, destination
<1>9. ASSUME NEW p \in Poller, NEW o \in Op, PollApply(p, o) PROVE ProtocolInv'
  <2>1. UNCHANGED <<request, reply, dst, pull, landing>>
    BY Zenon, <1>9 DEF PollApply, rpc, destination
  <2>2. \A x \in Op : src'[x] = src[x] \/ src'[x] \in {"done", "failed"}
    BY Zenon, <1>s, <1>9, PollVerdict DEF Verdict
  <2> SUFFICES ASSUME NEW x \in Op PROVE ProtocolAt(x)'
    BY Zenon DEF ProtocolInv
  <2>3. ProtocolAt(x)
    BY Zenon, <1>0
  <2>4. CASE src'[x] = src[x]
    BY Zenon, <2>1, <2>3, <2>4 DEF ProtocolAt
  <2>5. CASE src'[x] \in {"done", "failed"}
    BY Zenon, <2>1, <2>3, <2>5 DEF ProtocolAt
  <2> QED
    BY Zenon, <2>2, <2>4, <2>5
<1>10. ASSUME NEW o \in Op, Serve(o) PROVE ProtocolInv'
  <2>1. /\ request[o] = "sent" /\ request'[o] = "served" /\ UNCHANGED src
        /\ \A x \in Op : x # o => request'[x] = request[x]
    BY Zenon, <1>s, <1>10 DEF Serve, source
  <2>2. reply[o] = "none" /\ dst[o] = "none" /\ src[o] \notin {"idle", "active"}
    BY Zenon, <1>0, <2>1 DEF ProtocolAt
  <2>3. CASE Exists(o) \/ Refused(o)
    <3>1. /\ reply'[o] \in {"all_exist", "partial_exist", "refused"}
          /\ \A x \in Op : x # o => reply'[x] = reply[x]
      BY Zenon, <1>s, <2>3 DEF Exists, Refused
    <3>2. UNCHANGED <<dst, pull, landing>>
      BY Zenon, <2>3 DEF Exists, Refused, destination
    <3>3. ProtocolAt(o)'
      BY Zenon, <1>0, <2>1, <2>2, <3>1, <3>2 DEF ProtocolAt
    <3> QED
      BY Zenon, <2>1, <3>1, <3>2, <3>3, ProtocolOne
  <2>4. CASE Accept(o)
    <3>1. /\ reply'[o] = "accepted" /\ dst'[o] = "pending"
          /\ \A x \in Op : x # o => reply'[x] = reply[x] /\ dst'[x] = dst[x]
      BY Zenon, <1>s, <1>d, <2>4 DEF Accept
    <3>2. \A x \in Op : x # o => pull'[x] = pull[x] /\ landing'[x] = landing[x]
      BY Zenon, <1>d, <2>4 DEF Accept
    <3>3. ProtocolAt(o)'
      BY Zenon, <2>1, <2>2, <3>1 DEF ProtocolAt
    <3> QED
      BY Zenon, <2>1, <3>1, <3>2, <3>3, ProtocolOne
  <2> QED
    BY Zenon, <1>10, <2>3, <2>4 DEF Serve
<1>11. ASSUME NEW o \in Op, PullReads(o) PROVE ProtocolInv'
  <2>1. /\ pull[o] = "running" /\ UNCHANGED <<src, request, reply, dst, landing>>
        /\ \A x \in Op : x # o => pull'[x] = pull[x]
    BY Zenon, <1>d, <1>11 DEF PullReads, source, rpc
  <2>2. ProtocolAt(o)'
    BY Zenon, <1>0, <2>1 DEF ProtocolAt
  <2> QED
    BY Zenon, <2>1, <2>2, ProtocolOne
<1>12. ASSUME NEW o \in Op, NEW ok \in BOOLEAN, TransferComplete(o, ok) PROVE ProtocolInv'
  <2>1. pull[o] # "none" /\ UNCHANGED <<src, request, reply>>
    BY Zenon, <1>12 DEF TransferComplete, ReleaseLandingBlocks, source, rpc
  <2>2. dst[o] # "none"
    BY Zenon, <1>0, <2>1 DEF ProtocolAt
  <2>3. \A x \in Op : x # o => pull'[x] = pull[x]
    BY Zenon, <1>d, <1>12 DEF TransferComplete, ReleaseLandingBlocks
  <2>4. dst'[o] # "none" /\ \A x \in Op : x # o => dst'[x] = dst[x] /\ landing'[x] = landing[x]
    <3>1. CASE Claimable(o, ok)
      BY Zenon, <1>d, <1>12, <3>1 DEF TransferComplete, ReleaseLandingBlocks
    <3>2. CASE ~Claimable(o, ok)
      BY Zenon, <1>d, <1>12, <2>2, <3>2 DEF TransferComplete, ReleaseLandingBlocks
    <3> QED
      BY Zenon, <3>1, <3>2
  <2>5. ProtocolAt(o)'
    BY Zenon, <1>0, <2>1, <2>2, <2>4 DEF ProtocolAt
  <2> QED
    BY Zenon, <2>1, <2>3, <2>4, <2>5, ProtocolOne
<1>13. ASSUME NEW o \in Op, Recheck(o) \/ Insert(o) \/ Register(o) PROVE ProtocolInv'
  <2>1. completer = o /\ UNCHANGED <<src, request, reply>>
    BY Zenon, <1>13, CompleterStep DEF source, rpc
  <2>2. dst[o] = "completing"
    BY Zenon, <2>1 DEF LandingInv
  <2>3. ASSUME NEW state \in Terminal, Finish(o, state) PROVE ProtocolInv'
    <3>1. /\ dst'[o] = state /\ UNCHANGED pull
          /\ \A x \in Op : x # o => dst'[x] = dst[x] /\ landing'[x] = landing[x]
      BY Zenon, <1>d, <2>3 DEF Finish, ReleaseLandingBlocks
    <3>2. dst'[o] # "none"
      BY Zenon, <3>1 DEF Terminal
    <3>3. ProtocolAt(o)'
      BY Zenon, <1>0, <2>1, <2>2, <3>2 DEF ProtocolAt
    <3> QED
      BY Zenon, <2>1, <3>1, <3>3, ProtocolOne
  <2> QED
    BY Zenon, <1>1, <1>13, <2>1, <2>3, CompleterStep
<1>14. ASSUME NEW o \in Op, DeadlineFires(o) PROVE ProtocolInv'
  <2>1. /\ dst[o] = "pending" /\ dst'[o] = "failed"
        /\ UNCHANGED <<src, request, reply, pull, landing>>
        /\ \A x \in Op : x # o => dst'[x] = dst[x]
    BY Zenon, <1>d, <1>14 DEF DeadlineFires, source, rpc
  <2>2. ProtocolAt(o)'
    BY Zenon, <1>0, <2>1 DEF ProtocolAt
  <2> QED
    BY Zenon, <2>1, <2>2, ProtocolOne
<1>15. ASSUME NEW k \in Key, LocalStore(k) \/ LocalEvict(k) PROVE ProtocolInv'
  BY Zenon, <1>1, <1>15 DEF LocalStore, LocalEvict, source, rpc
<1>16. ASSUME Tick \/ UNCHANGED vars PROVE ProtocolInv'
  BY Zenon, <1>1, <1>16 DEF Tick, vars, source, rpc, destination
<1> QED
  BY Zenon, NextIsAction, <1>2, <1>3, <1>4, <1>5, <1>6, <1>7, <1>8, <1>9, <1>10, <1>11,
     <1>12, <1>13, <1>14, <1>15, <1>16

\* What LandingInv says of one write.
LandingAt(o) ==
  /\ landing[o] \in {"freed", "kept"} => pull[o] = "resolved"
  /\ dst[o] \in Stored => landing[o] = "kept"
  /\ dst[o] = "completing" <=> completer = o
  /\ dst[o] = "completing" => pull[o] = "resolved"
  /\ dst[o] \in {"pending", "completing"} => landing[o] = "held"

LEMMA LandingIsPointwise == LandingInv <=> \A o \in Op : LandingAt(o)
BY Zenon DEF LandingInv, LandingFreedOnlyWhenQuiet, LandingAt

LEMMA LandingIsPointwiseNext == LandingInv' <=> \A o \in Op : LandingAt(o)'
BY Zenon DEF LandingInv, LandingFreedOnlyWhenQuiet, LandingAt

\* A step that changes one write keeps LandingInv if it does so for that write
\* and the completer is, before and after it, that write or none.
LEMMA LandingOne ==
  ASSUME LandingInv, NEW o \in Op, LandingAt(o)',
         completer' = completer \/ (completer \in {o, None} /\ completer' \in {o, None}),
         \A x \in Op : x # o => dst'[x] = dst[x] /\ pull'[x] = pull[x] /\ landing'[x] = landing[x]
  PROVE  LandingInv'
<1> SUFFICES ASSUME NEW x \in Op PROVE LandingAt(x)'
  BY Zenon, LandingIsPointwiseNext
<1>1. LandingAt(x)
  BY Zenon, LandingIsPointwise
<1>2. CASE x = o
  BY Zenon, <1>2
<1>3. CASE x # o
  <2>1. completer' = x <=> completer = x
    BY <1>3, NoneAssumption
  <2> QED
    BY Zenon, <1>1, <1>3, <2>1 DEF LandingAt
<1> QED
  BY Zenon, <1>2, <1>3

\* Landing blocks change hands only when the pull has resolved.
LEMMA LandingStep == TypeOK /\ ProtocolInv /\ LandingInv /\ [Next]_vars => LandingInv'
<1> SUFFICES ASSUME TypeOK, ProtocolInv, LandingInv, [Next]_vars PROVE LandingInv'
  OBVIOUS
<1>0. \A o \in Op : LandingAt(o)
  BY Zenon, LandingIsPointwise
<1>d. /\ dst \in [Op -> Terminal \cup {"none", "pending", "completing", "erased"}]
      /\ pull \in [Op -> {"none", "running", "read", "resolved"}]
      /\ landing \in [Op -> {"none", "held", "freed", "kept"}]
  BY Zenon DEF TypeOK
<1>1. ASSUME UNCHANGED <<dst, pull, landing, completer>> PROVE LandingInv'
  BY Zenon, <1>1 DEF LandingInv, LandingFreedOnlyWhenQuiet
<1>2. ASSUME NEW p \in Poller, NEW o \in Op, PollAsk(p, o) PROVE LandingInv'
  <2>1. UNCHANGED <<pull, landing, completer>>
    BY Zenon, <1>2 DEF PollAsk
  <2>2. \A x \in Op : dst'[x] = dst[x] \/ (dst[x] \in Terminal /\ dst'[x] = "erased")
    BY Zenon, <1>2 DEF PollAsk, Expired
  <2> SUFFICES ASSUME NEW x \in Op PROVE LandingAt(x)'
    BY Zenon, LandingIsPointwiseNext
  <2>3. LandingAt(x)
    BY Zenon, <1>0
  <2>4. CASE dst'[x] = dst[x]
    BY Zenon, <2>1, <2>3, <2>4 DEF LandingAt
  <2>5. CASE dst[x] \in Terminal /\ dst'[x] = "erased"
    BY Zenon, <2>1, <2>3, <2>5 DEF LandingAt, Terminal, Stored
  <2> QED
    BY Zenon, <2>2, <2>4, <2>5
<1>3. ASSUME NEW o \in Op, Serve(o) PROVE LandingInv'
  <2>1. CASE UNCHANGED destination
    BY Zenon, <1>1, <2>1 DEF destination
  <2>2. CASE Accept(o)
    <3>1. request[o] = "sent"
      BY Zenon, <1>3 DEF Serve
    <3>2. dst[o] = "none"
      BY Zenon, <3>1 DEF ProtocolInv, ProtocolAt
    <3>3. landing[o] = "none"
      BY Zenon, <3>2 DEF ProtocolInv, ProtocolAt
    <3>4. /\ dst'[o] = "pending" /\ landing'[o] = "held" /\ pull'[o] = "running" /\ UNCHANGED completer
          /\ \A x \in Op : x # o => dst'[x] = dst[x] /\ pull'[x] = pull[x] /\ landing'[x] = landing[x]
      BY Zenon, <1>d, <2>2 DEF Accept
    <3>5. LandingAt(o)'
      BY Zenon, <1>0, <3>2, <3>4 DEF LandingAt, Stored
    <3> QED
      BY Zenon, <3>4, <3>5, LandingOne
  <2> QED
    BY Zenon, <1>3, <2>1, <2>2 DEF Serve, Exists, Refused
<1>4. ASSUME NEW o \in Op, PullReads(o) PROVE LandingInv'
  <2>1. /\ pull[o] = "running" /\ UNCHANGED <<dst, landing, completer>>
        /\ \A x \in Op : x # o => pull'[x] = pull[x]
    BY Zenon, <1>d, <1>4 DEF PullReads
  <2>2. LandingAt(o)'
    BY Zenon, <1>0, <2>1 DEF LandingAt
  <2> QED
    BY Zenon, <2>1, <2>2, LandingOne
<1>5. ASSUME NEW o \in Op, NEW ok \in BOOLEAN, TransferComplete(o, ok) PROVE LandingInv'
  <2>1. completer = None /\ pull[o] # "resolved"
    BY Zenon, <1>5 DEF TransferComplete, ReleaseLandingBlocks
  <2>2. landing[o] \notin {"freed", "kept"} /\ dst[o] # "completing" /\ dst[o] \notin Stored
    BY Zenon, <1>0, <2>1 DEF LandingAt
  <2>3. pull'[o] = "resolved" /\ \A x \in Op : x # o => pull'[x] = pull[x]
    BY Zenon, <1>d, <1>5 DEF TransferComplete, ReleaseLandingBlocks
  <2>4. CASE Claimable(o, ok)
    <3>1. landing[o] = "held"
      BY Zenon, <1>0, <2>4 DEF Claimable, LandingAt
    <3>2. /\ dst'[o] = "completing" /\ completer' = o /\ UNCHANGED landing
          /\ \A x \in Op : x # o => dst'[x] = dst[x]
      BY Zenon, <1>d, <1>5, <2>4 DEF TransferComplete, ReleaseLandingBlocks
    <3>3. LandingAt(o)'
      BY Zenon, <2>3, <3>1, <3>2 DEF LandingAt, Stored
    <3> QED
      BY Zenon, <2>1, <2>3, <3>2, <3>3, LandingOne
  <2>5. CASE ~Claimable(o, ok)
    <3>1. /\ dst'[o] = IF dst[o] = "pending" THEN "failed" ELSE dst[o]
          /\ \A x \in Op : x # o => dst'[x] = dst[x]
      BY Zenon, <1>d, <1>5, <2>5 DEF TransferComplete, ReleaseLandingBlocks
    <3>2. /\ landing'[o] = "freed" /\ UNCHANGED completer
          /\ \A x \in Op : x # o => landing'[x] = landing[x]
      BY Zenon, <1>d, <1>5, <2>5 DEF TransferComplete, ReleaseLandingBlocks
    <3>3. dst'[o] \notin Stored /\ dst'[o] \notin {"pending", "completing"}
      BY Zenon, <2>2, <3>1 DEF Stored
    <3>4. LandingAt(o)'
      BY Zenon, <2>1, <2>3, <3>2, <3>3, NoneAssumption DEF LandingAt
    <3> QED
      BY Zenon, <2>3, <3>1, <3>2, <3>4, LandingOne
  <2> QED
    BY Zenon, <2>4, <2>5
<1>6. ASSUME NEW o \in Op, Recheck(o) \/ Insert(o) \/ Register(o) PROVE LandingInv'
  <2>1. completer = o
    BY Zenon, <1>6, CompleterStep
  <2>2. dst[o] = "completing" /\ pull[o] = "resolved"
    BY Zenon, <1>0, <2>1 DEF LandingAt
  <2>3. ASSUME NEW state \in Terminal, Finish(o, state) PROVE LandingInv'
    <3>1. /\ dst'[o] = state /\ completer' = None /\ UNCHANGED pull
          /\ landing'[o] = IF state \in Stored THEN "kept" ELSE "freed"
          /\ \A x \in Op : x # o => dst'[x] = dst[x] /\ landing'[x] = landing[x]
      BY Zenon, <1>d, <2>3 DEF Finish, ReleaseLandingBlocks
    <3>2. state \notin {"pending", "completing"}
      BY Zenon, <2>3 DEF Terminal
    <3>3. LandingAt(o)'
      BY Zenon, <2>2, <3>1, <3>2, NoneAssumption DEF LandingAt
    <3> QED
      BY Zenon, <2>1, <3>1, <3>3, LandingOne
  <2> QED
    BY Zenon, <1>1, <1>6, <2>3, CompleterStep
<1>7. ASSUME NEW o \in Op, DeadlineFires(o) PROVE LandingInv'
  <2>1. /\ dst[o] = "pending" /\ dst'[o] = "failed" /\ UNCHANGED <<pull, landing, completer>>
        /\ \A x \in Op : x # o => dst'[x] = dst[x]
    BY Zenon, <1>d, <1>7 DEF DeadlineFires
  <2>2. LandingAt(o)'
    BY Zenon, <1>0, <2>1 DEF LandingAt, Stored
  <2> QED
    BY Zenon, <2>1, <2>2, LandingOne
<1>8. ASSUME UNCHANGED destination PROVE LandingInv'
  BY Zenon, <1>1, <1>8 DEF destination
<1>9. ASSUME NEW o \in Op, SourceNext(o) PROVE LandingInv'
  BY Zenon, <1>8, <1>9 DEF SourceNext, Offer, Ack, AckLost, Reuse
<1>10. ASSUME NEW p \in Poller, PollerNext(p) PROVE LandingInv'
  <2>1. ASSUME NEW o \in Op, PollError(p, o) \/ PollApply(p, o) PROVE LandingInv'
    BY Zenon, <1>8, <2>1 DEF PollError, PollApply
  <2>2. ASSUME PollClaim(p) \/ PollRelease(p) PROVE LandingInv'
    BY Zenon, <1>8, <2>2 DEF PollClaim, PollRelease
  <2> QED
    BY Zenon, <1>2, <1>10, <2>1, <2>2 DEF PollerNext
<1>11. ASSUME NEW o \in Op, DestinationNext(o) PROVE LandingInv'
  BY Zenon, <1>3, <1>4, <1>5, <1>6, <1>7, <1>11 DEF DestinationNext
<1>12. ASSUME NEW k \in Key, LocalStore(k) \/ LocalEvict(k) PROVE LandingInv'
  BY Zenon, <1>1, <1>12 DEF LocalStore, LocalEvict
<1>13. ASSUME UNCHANGED vars \/ Tick PROVE LandingInv'
  BY Zenon, <1>8, <1>13 DEF vars, Tick
<1> QED
  BY Zenon, <1>9, <1>10, <1>11, <1>12, <1>13 DEF Next
-----------------------------------------------------------------------------
(* Theorems *)

\* Everything that holds whether or not RPCs fail.
LEMMA BaseHolds == Spec => []BaseInv
<1>1. Init => BaseInv
  <2> SUFFICES ASSUME Init PROVE BaseInv
    OBVIOUS
  <2>1. TypeOK
    <3>1. answer \in [Poller -> [op : Op \cup {None},
                                 state : Terminal \cup {"none", "pending", "unknown", "error"}]]
      BY Zenon DEF Init
    <3>2. /\ now \in Nat /\ polling \subseteq Op
          /\ completer \in Op \cup {None} /\ step \in {"none", "recheck", "insert", "register"}
          /\ entry \in [Key -> Op \cup {None, Local}]
      BY Zenon DEF Init
    <3>3. /\ src \in [Op -> {"idle", "rpc", "active", "done", "failed"}]
          /\ pin \in [Op -> Int] /\ holdExpiry \in [Op -> Nat] /\ verdicts \in [Op -> Nat]
          /\ reused \in [Op -> BOOLEAN] /\ rpcFailed \in [Op -> BOOLEAN]
      BY DEF Init
    <3>4. /\ request \in [Op -> {"none", "sent", "served"}]
          /\ reply \in [Op -> {"none", "accepted", "all_exist", "partial_exist", "refused"}]
      BY Zenon DEF Init
    <3>5. /\ toPoll \in [Poller -> SUBSET Op] /\ claims \in [Poller -> SUBSET Op]
          /\ pollTime \in [Poller -> Nat]
      BY Zenon DEF Init
    <3>6. /\ dst \in [Op -> Terminal \cup {"none", "pending", "completing", "erased"}]
          /\ deadline \in [Op -> Nat]
          /\ pull \in [Op -> {"none", "running", "read", "resolved"}]
          /\ bytes \in [Op -> {"none", "intact", "stale"}]
          /\ landing \in [Op -> {"none", "held", "freed", "kept"}]
      BY Zenon DEF Init
    <3> QED
      BY Zenon, <3>1, <3>2, <3>3, <3>4, <3>5, <3>6 DEF TypeOK
  <2>2. ProtocolInv
    BY Zenon DEF Init, ProtocolInv, ProtocolAt
  <2>3. ClaimInv
    BY Zenon DEF Init, ClaimInv
  <2>4. OpenInv
    BY DEF Init, OpenInv, FinishedOnce
  <2>5. LandingInv
    BY Zenon, NoneAssumption DEF Init, LandingInv, LandingFreedOnlyWhenQuiet, Stored
  <2> QED
    BY Zenon, <2>1, <2>2, <2>3, <2>4, <2>5 DEF BaseInv
<1>2. BaseInv /\ [Next]_vars => BaseInv'
  BY TypeStep, ClaimStep, OpenStep, ProtocolStep, LandingStep DEF BaseInv
<1> QED
  BY <1>1, <1>2, PTL DEF Spec

\* Every reachable state of the protocol is well typed.
THEOREM TypeCorrect == Spec => []TypeOK
<1>1. BaseInv => TypeOK
  BY DEF BaseInv
<1> QED
  BY <1>1, BaseHolds, PTL

\* However many threads poll, and whatever fails, a save is finished once: the
\* claims of PollRemoteWritesInternal are disjoint, so the internal pin is
\* dropped once and one verdict is filed.
THEOREM FinishedOnceHolds == Spec => []FinishedOnce
<1>1. BaseInv => FinishedOnce
  BY DEF BaseInv, OpenInv
<1> QED
  BY <1>1, BaseHolds, PTL

\* Whatever the deadline thread does, the landing blocks of a write go back to
\* the pool only after its pull has resolved, and exactly if it is not stored.
THEOREM LandingHolds == Spec => []LandingFreedOnlyWhenQuiet
<1>1. BaseInv => LandingFreedOnlyWhenQuiet
  BY DEF BaseInv, LandingInv
<1> QED
  BY <1>1, BaseHolds, PTL

\* InsertAllOrNothing binds only hashes that are not indexed at that moment, so
\* no write orphans the blocks of another one or of the local store.
THEOREM NeverReboundHolds == Spec => NeverRebound
<1>1. ASSUME TypeOK, [Next]_vars
      PROVE  [\A k \in Key : entry[k] # None => entry'[k] \in {entry[k], None}]_vars
  <2>1. ASSUME NEW o \in Op, Insert(o), NEW k \in Key, entry[k] # None PROVE entry'[k] = entry[k]
    <3>1. CASE UNCHANGED entry
      BY Zenon, <3>1
    <3>2. CASE Present(o) = {} /\ entry' = [l \in Key |-> IF l \in Batch[o] THEN o ELSE entry[l]]
      <4>1. k \notin Batch[o]
        BY Zenon, <2>1, <3>2 DEF Present
      <4> QED
        BY Zenon, <3>2, <4>1
    <3> QED
      BY Zenon, <2>1, <3>1, <3>2 DEF Insert, Finish, ReleaseLandingBlocks
  <2>2. ASSUME NEW k \in Key, LocalStore(k) \/ LocalEvict(k), NEW l \in Key, entry[l] # None
        PROVE  entry'[l] \in {entry[l], None}
    BY <1>1, <2>2 DEF LocalStore, LocalEvict, TypeOK
  <2>3. ASSUME Next, ~ \E o \in Op : Insert(o), ~ \E k \in Key : LocalStore(k) \/ LocalEvict(k)
        PROVE  UNCHANGED entry
    <3>1. CASE LocalStep
      BY ZenonT(60), <2>3, <3>1 DEF LocalStep, SourceNext, PollerNext, Offer, Ack, AckLost, Reuse,
                        PollClaim, PollAsk, PollError, PollApply, PollRelease, destination
    <3>2. CASE RemoteStep
      BY ZenonT(60), <2>3, <3>2 DEF RemoteStep, DestinationNext, Serve, Exists, Refused, Accept,
                        PullReads, TransferComplete, ReleaseLandingBlocks, Recheck, Register, Finish,
                        DeadlineFires, Tick, destination
    <3> QED
      BY Zenon, <2>3, <3>1, <3>2, NextIsLocalOrRemote
  <2> QED
    BY <1>1, <2>1, <2>2, <2>3
<1> QED
  BY <1>1, TypeCorrect, PTL DEF Spec, NeverRebound

-----------------------------------------------------------------------------
(* The two timers *)

\* The deadline of a write lies within what was granted, the hold of a polled
\* one beyond it, and only a save that is over has its blocks reused.
HoldAt(o) ==
  /\ dst[o] # "none" => deadline[o] <= now + Granted
  /\ src[o] = "active" => holdExpiry[o] >= deadline[o]
  /\ reused[o] => src[o] \in {"done", "failed"}
  /\ bytes[o] = "stale" => reused[o]
  /\ pull[o] = "read" => bytes[o] # "none"

HoldInv == \A o \in Op : HoldAt(o)

\* While its RPCs are answered, a save the source has given up is past its
\* deadline at the destination.
AnsweredAt(o) ==
  ~rpcFailed[o] =>
    /\ request[o] = "sent" => src[o] = "rpc"
    /\ src[o] \in {"done", "failed"} /\ dst[o] = "pending" => now >= deadline[o]
    /\ dst[o] \in Stored \cup {"completing"} => bytes[o] = "intact"

AnsweredInv == \A o \in Op : AnsweredAt(o)

\* What a poll reports as settled is settled.
PolledInv ==
  \A p \in Poller :
    /\ pollTime[p] <= now
    /\ answer[p].op # None /\ answer[p].state # "pending" /\ ~rpcFailed[answer[p].op] =>
         dst[answer[p].op] \notin {"pending", "completing"}

TimerInv == HoldInv /\ AnsweredInv /\ PolledInv

\* The argument on the timers is inductive.
LEMMA TimerStep == BaseInv /\ TimerInv /\ [Next]_vars => TimerInv'
<1> SUFFICES ASSUME BaseInv, TimerInv, [Next]_vars PROVE TimerInv'
  OBVIOUS
<1> USE GrantedNat, NoneAssumption
<1>0. TypeOK /\ ProtocolInv /\ ClaimInv /\ LandingInv
  BY Zenon DEF BaseInv
<1>a. /\ \A o \in Op : dst[o] \in Stored \cup {"completing"} => pull[o] = "resolved"
      /\ \A p \in Poller : answer[p].op # None =>
           answer[p].op \in Op /\ src[answer[p].op] = "active" /\ dst[answer[p].op] # "none"
      /\ now \in Nat
      /\ \A o \in Op : deadline[o] \in Nat /\ holdExpiry[o] \in Nat
      /\ \A p \in Poller : pollTime[p] \in Nat
  <2>1. \A o \in Op : dst[o] \in Stored \cup {"completing"} => pull[o] = "resolved"
    BY Zenon, <1>0 DEF LandingInv, LandingFreedOnlyWhenQuiet
  <2>2. \A p \in Poller : answer[p].op # None =>
           answer[p].op \in Op /\ src[answer[p].op] = "active"
    BY Zenon, <1>0 DEF TypeOK, ClaimInv
  <2>3. \A o \in Op : src[o] = "active" => dst[o] # "none"
    BY Zenon, <1>0 DEF ProtocolInv, ProtocolAt
  <2>4. now \in Nat /\ \A o \in Op : deadline[o] \in Nat /\ holdExpiry[o] \in Nat
    BY Zenon, <1>0 DEF TypeOK
  <2>5. \A p \in Poller : pollTime[p] \in Nat
    BY Zenon, <1>0 DEF TypeOK
  <2> QED
    BY Zenon, <2>1, <2>2, <2>3, <2>4, <2>5
<1>h. holdExpiry \in [Op -> Nat] /\ src \in [Op -> {"idle", "rpc", "active", "done", "failed"}]
  BY Zenon, <1>0 DEF TypeOK
<1>1. CASE UNCHANGED vars
  BY Zenon, <1>1 DEF vars, source, rpc, pollers, destination, TimerInv, HoldInv, HoldAt, AnsweredInv, AnsweredAt, PolledInv
<1>2. ASSUME NEW o \in Op, Offer(o) PROVE TimerInv'
  <2>1. /\ UNCHANGED <<now, reused, rpcFailed, dst, deadline, pull, bytes, pollTime, answer>>
        /\ src[o] = "idle" /\ src'[o] = "rpc"
        /\ \A x \in Op : x # o => /\ src'[x] = src[x] /\ request'[x] = request[x]
                                  /\ holdExpiry'[x] = holdExpiry[x]
    BY <1>0, <1>2 DEF Offer, TypeOK, pollers, destination
  <2> QED
    <3>1. HoldInv'
      BY Zenon, <2>1 DEF TimerInv, HoldInv, HoldAt
    <3>2. AnsweredInv'
      BY Zenon, <2>1 DEF TimerInv, AnsweredInv, AnsweredAt
    <3>3. PolledInv'
      BY Zenon, <2>1 DEF TimerInv, PolledInv
    <3> QED
      BY Zenon, <3>1, <3>2, <3>3 DEF TimerInv
<1>3. ASSUME NEW o \in Op, Ack(o) PROVE TimerInv'
  <2>1. /\ UNCHANGED <<now, reused, request, reply, rpcFailed, dst, deadline, pull, bytes, pollTime, answer>>
        /\ src[o] = "rpc" /\ reply[o] # "none"
        /\ \A x \in Op : x # o => src'[x] = src[x] /\ holdExpiry'[x] = holdExpiry[x]
    BY Zenon, <1>0, <1>3, AckEffect, AckState DEF rpc, pollers, destination
  <2>2. request[o] = "served"
    BY Zenon, <1>0, <2>1 DEF ProtocolInv, ProtocolAt
  <2>3. CASE reply[o] = "accepted"
    <3>1. src'[o] = "active" /\ holdExpiry'[o] \in Nat /\ holdExpiry'[o] >= now + Granted
      <4>1. Accepted(o)
        BY Zenon, <1>3, <2>3, AckEffect
      <4>2. src'[o] = "active"
        BY Zenon, <1>0, <1>3, <2>3, AckState
      <4>3. holdExpiry'[o] = IF holdExpiry[o] > now + Granted THEN holdExpiry[o] ELSE now + Granted
        BY Zenon, <1>h, <4>1 DEF Accepted
      <4> QED
        BY <1>a, <4>2, <4>3
    <3>2. deadline[o] <= now + Granted
      <4>1. dst[o] # "none"
        BY Zenon, <1>0, <2>3 DEF ProtocolInv, ProtocolAt
      <4> QED
        BY Zenon, <4>1 DEF TimerInv, HoldInv, HoldAt
    <3>3. holdExpiry'[o] >= deadline[o]
      <4>1. deadline[o] \in Nat /\ now + Granted \in Nat
        BY <1>a
      <4> QED
        BY <4>1, <3>1, <3>2
    <3> QED
      <4>1. HoldInv'
        BY Zenon, <2>1, <2>2, <3>1, <3>3 DEF TimerInv, HoldInv, HoldAt
      <4>2. AnsweredInv'
        BY Zenon, <2>1, <2>2, <3>1, <3>3 DEF TimerInv, AnsweredInv, AnsweredAt
      <4>3. PolledInv'
        BY Zenon, <2>1, <2>2, <3>1, <3>3 DEF TimerInv, PolledInv
      <4> QED
        BY Zenon, <4>1, <4>2, <4>3 DEF TimerInv
  <2>4. CASE reply[o] # "accepted"
    <3>1. dst[o] = "none" /\ src'[o] \in {"done", "failed"}
      BY Zenon, <1>0, <1>3, <2>4, AckState DEF ProtocolInv, ProtocolAt
    <3> QED
      <4>1. HoldInv'
        BY Zenon, <2>1, <2>2, <3>1 DEF TimerInv, HoldInv, HoldAt
      <4>2. AnsweredInv'
        BY Zenon, <2>1, <2>2, <3>1 DEF TimerInv, AnsweredInv, AnsweredAt
      <4>3. PolledInv'
        BY Zenon, <2>1, <2>2, <3>1 DEF TimerInv, PolledInv
      <4> QED
        BY Zenon, <4>1, <4>2, <4>3 DEF TimerInv
  <2> QED
    BY Zenon, <2>3, <2>4
<1>4. ASSUME NEW o \in Op, AckLost(o) PROVE TimerInv'
  <2>1. /\ UNCHANGED <<now, holdExpiry, reused, request, dst, deadline, pull, bytes, pollTime, answer>>
        /\ rpcFailed'[o] /\ src'[o] = "failed" /\ src[o] = "rpc"
        /\ \A x \in Op : x # o => src'[x] = src[x] /\ rpcFailed'[x] = rpcFailed[x]
        /\ \A x \in Op : rpcFailed[x] => rpcFailed'[x]
    <3>1. rpcFailed \in [Op -> BOOLEAN]
      BY Zenon, <1>0 DEF TypeOK
    <3>2. UNCHANGED <<now, holdExpiry, reused, request, dst, deadline, pull, bytes, pollTime, answer>>
      BY Zenon, <1>4 DEF AckLost, RollBack, pollers, destination
    <3>3. src'[o] = "failed" /\ src[o] = "rpc" /\ \A x \in Op : x # o => src'[x] = src[x]
      BY Zenon, <1>h, <1>4 DEF AckLost, RollBack
    <3>4. /\ rpcFailed'[o] /\ \A x \in Op : x # o => rpcFailed'[x] = rpcFailed[x]
          /\ \A x \in Op : rpcFailed[x] => rpcFailed'[x]
      BY Zenon, <1>4, <3>1 DEF AckLost
    <3> QED
      BY Zenon, <3>2, <3>3, <3>4
  <2> QED
    <3>1. HoldInv'
      BY <1>a, <2>1 DEF TimerInv, HoldInv, HoldAt
    <3>2. AnsweredInv'
      BY <1>a, <2>1 DEF TimerInv, AnsweredInv, AnsweredAt
    <3>3. PolledInv'
      BY Zenon, <1>a, <2>1 DEF TimerInv, PolledInv
    <3> QED
      BY Zenon, <3>1, <3>2, <3>3 DEF TimerInv
<1>5. ASSUME NEW o \in Op, Reuse(o) PROVE TimerInv'
  <2>1. /\ UNCHANGED <<now, src, holdExpiry, request, rpcFailed, dst, deadline, pull, bytes, pollTime, answer>>
        /\ src[o] \in {"done", "failed"} /\ reused'[o]
        /\ \A x \in Op : x # o => reused'[x] = reused[x]
    BY <1>0, <1>5 DEF Reuse, TypeOK, rpc, pollers, destination
  <2> QED
    <3>1. HoldInv'
      BY Zenon, <2>1 DEF TimerInv, HoldInv, HoldAt
    <3>2. AnsweredInv'
      BY Zenon, <2>1 DEF TimerInv, AnsweredInv, AnsweredAt
    <3>3. PolledInv'
      BY Zenon, <2>1 DEF TimerInv, PolledInv
    <3> QED
      BY Zenon, <3>1, <3>2, <3>3 DEF TimerInv
<1>6. ASSUME NEW p \in Poller, PollClaim(p) PROVE TimerInv'
  <2>1. /\ UNCHANGED <<now, source, rpc, answer, destination>>
        /\ \A q \in Poller : pollTime'[q] \in {now, pollTime[q]}
    BY Zenon, <1>0, <1>6 DEF PollClaim, TypeOK
  <2> QED
    <3>1. \A q \in Poller : pollTime'[q] <= now'
      <4> SUFFICES ASSUME NEW q \in Poller PROVE pollTime'[q] <= now
        BY Zenon, <2>1
      <4>1. pollTime[q] <= now /\ now <= now
        BY <1>a DEF TimerInv, PolledInv
      <4> QED
        BY Zenon, <2>1, <4>1
    <3> QED
      <4>1. HoldInv'
        BY Zenon, <2>1, <3>1 DEF TimerInv, HoldInv, HoldAt, source, rpc, destination
      <4>2. AnsweredInv'
        BY Zenon, <2>1, <3>1 DEF TimerInv, AnsweredInv, AnsweredAt, source, rpc, destination
      <4>3. PolledInv'
        BY Zenon, <2>1, <3>1 DEF TimerInv, PolledInv, source, rpc, destination
      <4> QED
        BY Zenon, <4>1, <4>2, <4>3 DEF TimerInv
<1>7. ASSUME NEW p \in Poller, NEW o \in Op, PollAsk(p, o) PROVE TimerInv'
  <2>1. /\ UNCHANGED <<now, source, rpc, deadline, pull, bytes, pollTime>>
        /\ \A x \in Op : dst'[x] = dst[x] \/ (dst[x] \in Terminal /\ dst'[x] = "erased")
        /\ \A q \in Poller : q # p => answer'[q] = answer[q]
        /\ answer'[p] = [op |-> o, state |-> WireState(o)]
    BY <1>0, <1>7 DEF PollAsk, Expired, TypeOK
  <2>2. WireState(o) # "pending" => dst[o] \notin {"pending", "completing"}
    BY Zenon DEF WireState
  <2>3. \A q \in Poller :
          answer'[q].op # None /\ answer'[q].state # "pending" /\ ~rpcFailed[answer'[q].op] =>
            dst[answer'[q].op] \notin {"pending", "completing"}
    <3> SUFFICES ASSUME NEW q \in Poller, answer'[q].op # None, answer'[q].state # "pending",
                        ~rpcFailed[answer'[q].op]
                 PROVE  dst[answer'[q].op] \notin {"pending", "completing"}
      OBVIOUS
    <3>1. CASE q = p
      <4>1. answer'[p].op = o /\ answer'[p].state = WireState(o)
        BY <2>1
      <4> QED
        BY Zenon, <2>2, <3>1, <4>1
    <3>2. CASE q # p
      BY Zenon, <2>1, <3>2 DEF TimerInv, PolledInv
    <3> QED
      BY Zenon, <3>1, <3>2
  <2>4. \A x \in Op : dst'[x] \in {"pending", "completing"} \cup Stored => dst'[x] = dst[x]
    BY Zenon, <2>1 DEF Stored
  <2>5. \A q \in Poller : answer'[q].op # None => answer'[q].op \in Op
    <3>1. \A q \in Poller : answer[q].op # None => answer[q].op \in Op
      BY Zenon, <1>a
    <3>2. answer'[p].op = o
      BY <2>1
    <3> QED
      BY Zenon, <2>1, <3>1, <3>2
  <2>6. \A q \in Poller :
          answer'[q].op # None /\ answer'[q].state # "pending" /\ ~rpcFailed[answer'[q].op] =>
            dst'[answer'[q].op] \notin {"pending", "completing"}
    BY Zenon, <2>3, <2>4, <2>5
  <2>7. \A x \in Op : dst'[x] # "none" => dst[x] # "none"
    BY Zenon, <2>1 DEF Terminal
  <2> QED
    <3>1. HoldInv'
      BY Zenon, <2>1, <2>4, <2>6, <2>7 DEF TimerInv, HoldInv, HoldAt, source, rpc
    <3>2. AnsweredInv'
      BY Zenon, <2>1, <2>4, <2>6, <2>7 DEF TimerInv, AnsweredInv, AnsweredAt, source, rpc
    <3>3. PolledInv'
      BY Zenon, <2>1, <2>4, <2>6, <2>7 DEF TimerInv, PolledInv, source, rpc
    <3> QED
      BY Zenon, <3>1, <3>2, <3>3 DEF TimerInv
<1>8. ASSUME NEW p \in Poller, NEW o \in Op, PollError(p, o) PROVE TimerInv'
  <2>1. /\ UNCHANGED <<now, source, request, destination, pollTime>>
        /\ rpcFailed'[o] /\ answer'[p].op = o
        /\ \A q \in Poller : q # p => answer'[q] = answer[q]
        /\ \A x \in Op : rpcFailed[x] => rpcFailed'[x]
    <3>1. rpcFailed \in [Op -> BOOLEAN]
      BY Zenon, <1>0 DEF TypeOK
    <3>2. answer \in [Poller -> [op : Op \cup {None},
                                 state : Terminal \cup {"none", "pending", "unknown", "error"}]]
      BY Zenon, <1>0 DEF TypeOK
    <3>3. UNCHANGED <<now, source, request, destination, pollTime>>
      BY Zenon, <1>8 DEF PollError
    <3>4. rpcFailed'[o] /\ \A x \in Op : rpcFailed[x] => rpcFailed'[x]
      BY Zenon, <1>8, <3>1 DEF PollError
    <3>5. answer'[p].op = o /\ \A q \in Poller : q # p => answer'[q] = answer[q]
      BY Zenon, <1>8, <3>2 DEF PollError
    <3> QED
      BY Zenon, <3>3, <3>4, <3>5
  <2> QED
    <3>1. HoldInv'
      BY Zenon, <1>a, <2>1 DEF TimerInv, HoldInv, HoldAt, source, destination
    <3>2. AnsweredInv'
      BY Zenon, <1>a, <2>1 DEF TimerInv, AnsweredInv, AnsweredAt, source, destination
    <3>3. PolledInv'
      BY Zenon, <1>a, <2>1 DEF TimerInv, PolledInv, source, destination
    <3> QED
      BY Zenon, <3>1, <3>2, <3>3 DEF TimerInv
<1>9. ASSUME NEW p \in Poller, NEW o \in Op, PollApply(p, o) PROVE TimerInv'
  <2>1. /\ UNCHANGED <<now, holdExpiry, reused, request, rpcFailed, dst, deadline, pull, bytes, pollTime>>
        /\ \A q \in Poller : q # p => answer'[q] = answer[q]
        /\ answer'[p] = [op |-> None, state |-> "none"]
        /\ answer[p].op = o /\ src[o] = "active"
    <3>1. answer \in [Poller -> [op : Op \cup {None},
                                 state : Terminal \cup {"none", "pending", "unknown", "error"}]]
      BY Zenon, <1>0 DEF TypeOK
    <3>2. /\ UNCHANGED <<now, holdExpiry, reused, request, rpcFailed, dst, deadline, pull, bytes, pollTime>>
          /\ answer' = [answer EXCEPT ![p] = [op |-> None, state |-> "none"]]
          /\ answer[p].op = o
      BY Zenon, <1>9 DEF PollApply, rpc, destination
    <3> QED
      BY Zenon, <1>a, <3>1, <3>2
  <2>2. /\ \A x \in Op : x # o => src'[x] = src[x]
        /\ src'[o] # src[o] => src'[o] \in {"done", "failed"}
    BY <1>0, <1>9, PollVerdict DEF Verdict, TypeOK
  <2>3. ~rpcFailed[o] /\ src'[o] # src[o] /\ dst[o] = "pending" => now >= deadline[o]
    <3>1. CASE answer[p].state = "pending"
      <4>1. pollTime[p] >= holdExpiry[o] \/ src' = src
        BY ZenonT(60), <1>9, <2>1, <3>1 DEF PollApply, Pending
      <4>2. now >= pollTime[p] /\ holdExpiry[o] >= deadline[o]
        BY Zenon, <2>1 DEF TimerInv, HoldInv, HoldAt, AnsweredInv, AnsweredAt, PolledInv
      <4> QED
        BY <1>a, <4>1, <4>2
    <3>2. CASE answer[p].state # "pending"
      BY Zenon, <2>1, <3>2 DEF TimerInv, HoldInv, HoldAt, AnsweredInv, AnsweredAt, PolledInv
    <3> QED
      BY Zenon, <3>1, <3>2
  <2> QED
    <3>1. HoldInv'
      BY Zenon, <1>a, <2>1, <2>2, <2>3 DEF TimerInv, HoldInv, HoldAt
    <3>2. AnsweredInv'
      BY <1>a, <2>1, <2>2, <2>3 DEF TimerInv, AnsweredInv, AnsweredAt
    <3>3. PolledInv'
      <4> SUFFICES ASSUME NEW q \in Poller
                   PROVE  /\ pollTime'[q] <= now'
                          /\ answer'[q].op # None /\ answer'[q].state # "pending"
                             /\ ~rpcFailed'[answer'[q].op] =>
                               dst'[answer'[q].op] \notin {"pending", "completing"}
        BY Zenon DEF PolledInv
      <4>1. pollTime'[q] <= now'
        BY Zenon, <2>1 DEF TimerInv, PolledInv
      <4>2. CASE q = p
        BY <2>1, <4>1, <4>2
      <4>3. CASE q # p
        BY Zenon, <2>1, <4>1, <4>3 DEF TimerInv, PolledInv
      <4> QED
        BY Zenon, <4>2, <4>3
    <3> QED
      BY Zenon, <3>1, <3>2, <3>3 DEF TimerInv
<1>10. ASSUME NEW p \in Poller, PollRelease(p) PROVE TimerInv'
  BY Zenon, <1>10 DEF PollRelease, TimerInv, HoldInv, HoldAt, AnsweredInv, AnsweredAt, PolledInv, source, rpc, destination
<1>11. ASSUME NEW o \in Op, Serve(o) PROVE TimerInv'
  <2>1. /\ UNCHANGED <<now, source, rpcFailed, pollers>>
        /\ \A x \in Op : request'[x] = "sent" => request[x] = "sent"
        /\ dst[o] = "none" /\ src[o] # "active" /\ (~rpcFailed[o] => src[o] = "rpc")
    <3>1. request[o] = "sent" /\ UNCHANGED <<now, source, rpcFailed, pollers>>
      BY Zenon, <1>11 DEF Serve
    <3>2. request \in [Op -> {"none", "sent", "served"}]
      BY Zenon, <1>0 DEF TypeOK
    <3>3. \A x \in Op : request'[x] = "sent" => request[x] = "sent"
      BY Zenon, <1>11, <3>2 DEF Serve
    <3>4. dst[o] = "none" /\ src[o] # "active"
      BY Zenon, <1>0, <3>1 DEF ProtocolInv, ProtocolAt
    <3>5. ~rpcFailed[o] => src[o] = "rpc"
      BY Zenon, <3>1 DEF TimerInv, AnsweredInv, AnsweredAt
    <3> QED
      BY Zenon, <3>1, <3>3, <3>4, <3>5
  <2>2. CASE UNCHANGED destination
    BY Zenon, <2>1, <2>2 DEF TimerInv, HoldInv, HoldAt, AnsweredInv, AnsweredAt, PolledInv, source, pollers, destination
  <2>3. CASE Accept(o)
    <3>1. /\ UNCHANGED bytes
          /\ dst'[o] = "pending" /\ deadline'[o] = now + Granted /\ pull'[o] = "running"
          /\ \A x \in Op : x # o => /\ dst'[x] = dst[x] /\ deadline'[x] = deadline[x]
                                    /\ pull'[x] = pull[x]
      BY <1>0, <2>3 DEF Accept, TypeOK
    <3>2. \A q \in Poller : answer[q].op # None => answer[q].op # o
      BY Zenon, <1>a, <2>1
    <3> QED
      <4>1. HoldInv'
        <5> SUFFICES ASSUME NEW x \in Op PROVE HoldAt(x)'
          BY Zenon DEF HoldInv
        <5>0. UNCHANGED <<now, src, holdExpiry, reused, bytes>> /\ HoldAt(x)
          BY Zenon, <2>1, <3>1 DEF TimerInv, HoldInv, source
        <5>1. CASE x = o
          <6>1. deadline'[x] <= now' + Granted
            BY <1>a, <3>1, <5>0, <5>1
          <6> QED
            BY Zenon, <2>1, <3>1, <5>0, <5>1, <6>1 DEF HoldAt
        <5>2. CASE x # o
          BY Zenon, <3>1, <5>0, <5>2 DEF HoldAt
        <5> QED
          BY Zenon, <5>1, <5>2
      <4>2. AnsweredInv'
        <5> SUFFICES ASSUME NEW x \in Op PROVE AnsweredAt(x)'
          BY Zenon DEF AnsweredInv
        <5>0. UNCHANGED <<now, src, rpcFailed, bytes>> /\ AnsweredAt(x)
          BY Zenon, <2>1, <3>1 DEF TimerInv, AnsweredInv, source
        <5>1. CASE x = o
          BY Zenon, <2>1, <3>1, <5>0, <5>1 DEF AnsweredAt, Stored
        <5>2. CASE x # o
          BY Zenon, <2>1, <3>1, <5>0, <5>2 DEF AnsweredAt
        <5> QED
          BY Zenon, <5>1, <5>2
      <4>3. PolledInv'
        BY Zenon, <1>a, <2>1, <3>1, <3>2 DEF TimerInv, PolledInv, source, pollers, Stored
      <4> QED
        BY Zenon, <4>1, <4>2, <4>3 DEF TimerInv
  <2> QED
    BY Zenon, <1>11, <2>2, <2>3 DEF Serve, Exists, Refused
<1>12. ASSUME NEW o \in Op, PullReads(o) PROVE TimerInv'
  <2>1. /\ UNCHANGED <<now, source, rpc, pollers, dst, deadline>>
        /\ \A x \in Op : x # o => pull'[x] = pull[x] /\ bytes'[x] = bytes[x]
        /\ bytes'[o] = IF reused[o] THEN "stale" ELSE "intact"
        /\ pull[o] # "resolved"
    BY <1>0, <1>12 DEF PullReads, TypeOK
  <2>2. HoldInv'
    BY Zenon, <2>1 DEF TimerInv, HoldInv, HoldAt, source
  <2>3. AnsweredInv'
    BY Zenon, <1>a, <2>1 DEF TimerInv, AnsweredInv, AnsweredAt, source, rpc
  <2>4. PolledInv'
    BY Zenon, <2>1 DEF TimerInv, PolledInv, rpc, pollers
  <2> QED
    BY Zenon, <2>2, <2>3, <2>4 DEF TimerInv
<1>13. ASSUME NEW o \in Op, NEW ok \in BOOLEAN, TransferComplete(o, ok) PROVE TimerInv'
  <2>1. /\ UNCHANGED <<now, source, rpc, pollers, deadline, bytes>>
        /\ \A x \in Op : x # o => pull'[x] = pull[x] /\ dst'[x] = dst[x]
        /\ pull'[o] = "resolved"
    BY <1>0, <1>13 DEF TransferComplete, ReleaseLandingBlocks, TypeOK
  <2>2. CASE Claimable(o, ok)
    <3>1. dst'[o] = "completing" /\ dst[o] = "pending" /\ pull[o] = "read"
      BY <1>0, <1>13, <2>2 DEF TransferComplete, ReleaseLandingBlocks, Claimable, TypeOK
    <3>2. ~rpcFailed[o] => bytes[o] = "intact"
      <4>1. HoldAt(o) /\ AnsweredAt(o) /\ bytes[o] \in {"none", "intact", "stale"}
        BY Zenon, <1>0 DEF TypeOK, TimerInv, HoldInv, AnsweredInv
      <4>2. ~(now >= deadline[o])
        BY <1>a, <2>2 DEF Claimable
      <4> QED
        BY Zenon, <3>1, <4>1, <4>2 DEF HoldAt, AnsweredAt
    <3> QED
      <4>1. HoldInv'
        BY Zenon, <1>a, <2>1, <3>1, <3>2 DEF TimerInv, HoldInv, HoldAt, source, rpc, pollers
      <4>2. AnsweredInv'
        BY <1>a, <2>1, <3>1, <3>2 DEF TimerInv, AnsweredInv, AnsweredAt, source, rpc, pollers
      <4>3. PolledInv'
        BY Zenon, <1>a, <2>1, <3>1, <3>2 DEF TimerInv, PolledInv, source, rpc, pollers
      <4> QED
        BY Zenon, <4>1, <4>2, <4>3 DEF TimerInv
  <2>3. CASE ~Claimable(o, ok)
    <3>0. dst \in [Op -> Terminal \cup {"none", "pending", "completing", "erased"}]
      BY Zenon, <1>0 DEF TypeOK
    <3>1. dst'[o] = IF dst[o] = "pending" THEN "failed" ELSE dst[o]
      BY Zenon, <1>13, <2>3, <3>0 DEF TransferComplete, ReleaseLandingBlocks
    <3> QED
      <4>1. HoldInv'
        BY Zenon, <1>a, <2>1, <3>1 DEF TimerInv, HoldInv, HoldAt, source, rpc, pollers, Stored
      <4>2. AnsweredInv'
        <5> SUFFICES ASSUME NEW x \in Op PROVE AnsweredAt(x)'
          BY Zenon DEF AnsweredInv
        <5>0. UNCHANGED <<now, src, request, rpcFailed, deadline, bytes>> /\ AnsweredAt(x)
          BY Zenon, <2>1 DEF TimerInv, AnsweredInv, source, rpc
        <5>1. dst'[x] = dst[x] \/ dst'[x] = "failed"
          BY Zenon, <2>1, <3>1
        <5> QED
          BY Zenon, <5>0, <5>1 DEF AnsweredAt, Stored
      <4>3. PolledInv'
        BY Zenon, <1>a, <2>1, <3>1 DEF TimerInv, PolledInv, source, rpc, pollers, Stored
      <4> QED
        BY Zenon, <4>1, <4>2, <4>3 DEF TimerInv
  <2> QED
    BY Zenon, <2>2, <2>3
<1>14. ASSUME NEW o \in Op, Recheck(o) \/ Insert(o) \/ Register(o) PROVE TimerInv'
  <2>1. /\ UNCHANGED <<now, source, rpc, pollers, deadline, pull, bytes>>
        /\ \A x \in Op : x # o => dst'[x] = dst[x]
        /\ dst[o] = "completing" /\ dst'[o] \in Terminal \cup {"completing"}
    <3>1. dst[o] = "completing"
      BY Zenon, <1>0, <1>14 DEF Recheck, Insert, Register, LandingInv
    <3>2. ASSUME NEW state \in Terminal, Finish(o, state)
          PROVE  /\ UNCHANGED <<deadline, pull, bytes>>
                 /\ \A x \in Op : x # o => dst'[x] = dst[x]
                 /\ dst'[o] \in Terminal
      BY <1>0, <3>2 DEF Finish, ReleaseLandingBlocks, TypeOK
    <3> QED
      BY Zenon, <1>14, <3>1, <3>2 DEF Recheck, Insert, Register, Terminal
  <2> QED
    <3>1. HoldInv'
      BY ZenonT(60), <1>a, <2>1 DEF TimerInv, HoldInv, HoldAt, source, rpc, pollers, Terminal, Stored
    <3>2. AnsweredInv'
      BY <1>a, <2>1 DEF TimerInv, AnsweredInv, AnsweredAt, source, rpc, pollers, Terminal, Stored
    <3>3. PolledInv'
      BY Zenon, <1>a, <2>1 DEF TimerInv, PolledInv, source, rpc, pollers, Terminal, Stored
    <3> QED
      BY Zenon, <3>1, <3>2, <3>3 DEF TimerInv
<1>15. ASSUME NEW o \in Op, DeadlineFires(o) PROVE TimerInv'
  <2>1. /\ UNCHANGED <<now, source, rpc, pollers, deadline, pull, bytes>>
        /\ \A x \in Op : x # o => dst'[x] = dst[x]
        /\ dst[o] = "pending" /\ dst'[o] = "failed"
    BY <1>0, <1>15 DEF DeadlineFires, TypeOK
  <2> QED
    <3>1. HoldInv'
      BY Zenon, <1>a, <2>1 DEF TimerInv, HoldInv, HoldAt, source, rpc, pollers, Stored
    <3>2. AnsweredInv'
      BY Zenon, <1>a, <2>1 DEF TimerInv, AnsweredInv, AnsweredAt, source, rpc, pollers, Stored
    <3>3. PolledInv'
      BY Zenon, <1>a, <2>1 DEF TimerInv, PolledInv, source, rpc, pollers, Stored
    <3> QED
      BY Zenon, <3>1, <3>2, <3>3 DEF TimerInv
<1>16. ASSUME NEW k \in Key, LocalStore(k) \/ LocalEvict(k) PROVE TimerInv'
  BY Zenon, <1>16 DEF LocalStore, LocalEvict, TimerInv, HoldInv, HoldAt, AnsweredInv, AnsweredAt, PolledInv, source, rpc, pollers
<1>17. ASSUME Tick PROVE TimerInv'
  <2>1. now' = now + 1 /\ UNCHANGED <<source, rpc, pollers, destination>>
    BY Zenon, <1>17 DEF Tick
  <2>2. /\ \A o \in Op : dst[o] # "none" => deadline[o] <= now' + Granted
        /\ \A o \in Op : now >= deadline[o] => now' >= deadline[o]
        /\ \A p \in Poller : pollTime[p] <= now'
    <3>1. \A o \in Op : dst[o] # "none" => deadline[o] <= now' + Granted
      <4> SUFFICES ASSUME NEW o \in Op, dst[o] # "none" PROVE deadline[o] <= now' + Granted
        OBVIOUS
      <4>1. deadline[o] <= now + Granted /\ deadline[o] \in Nat
        BY Zenon, <1>a DEF TimerInv, HoldInv, HoldAt
      <4>2. now \in Nat /\ Granted \in Nat /\ now' = now + 1
        BY Zenon, <1>a, <2>1
      <4> QED
        BY <4>1, <4>2
    <3>2. \A o \in Op : now >= deadline[o] => now' >= deadline[o]
      <4> SUFFICES ASSUME NEW o \in Op, now >= deadline[o] PROVE now' >= deadline[o]
        OBVIOUS
      <4>1. deadline[o] \in Nat /\ now \in Nat /\ now' = now + 1
        BY Zenon, <1>a, <2>1
      <4> QED
        BY <4>1
    <3>3. \A p \in Poller : pollTime[p] <= now'
      <4> SUFFICES ASSUME NEW p \in Poller PROVE pollTime[p] <= now'
        OBVIOUS
      <4>1. pollTime[p] <= now /\ pollTime[p] \in Nat
        BY Zenon, <1>a DEF TimerInv, PolledInv
      <4> QED
        BY <1>a, <2>1, <4>1
    <3> QED
      BY Zenon, <3>1, <3>2, <3>3
  <2> QED
    <3>1. HoldInv'
      BY ZenonT(60), <2>1, <2>2 DEF TimerInv, HoldInv, HoldAt, source, rpc, pollers, destination
    <3>2. AnsweredInv'
      BY Zenon, <2>1, <2>2 DEF TimerInv, AnsweredInv, AnsweredAt, source, rpc, pollers, destination
    <3>3. PolledInv'
      BY Zenon, <2>1, <2>2 DEF TimerInv, PolledInv, source, rpc, pollers, destination
    <3> QED
      BY Zenon, <3>1, <3>2, <3>3 DEF TimerInv
<1> QED
  BY Zenon, NextIsAction, <1>1, <1>2, <1>3, <1>4, <1>5, <1>6, <1>7, <1>8, <1>9, <1>10, <1>11,
     <1>12, <1>13, <1>14, <1>15, <1>16, <1>17

-----------------------------------------------------------------------------
(* Theorems *)

\* The timers do what they are for.
LEMMA TimerHolds == Spec => []TimerInv
<1>1. Init => TimerInv
  <2> SUFFICES ASSUME Init PROVE TimerInv
    OBVIOUS
  <2>1. HoldInv
    BY Zenon DEF Init, HoldInv, HoldAt
  <2>2. AnsweredInv
    BY Zenon DEF Init, AnsweredInv, AnsweredAt, Stored
  <2>3. PolledInv
    BY DEF Init, PolledInv
  <2> QED
    BY Zenon, <2>1, <2>2, <2>3 DEF TimerInv
<1>2. BaseInv /\ TimerInv /\ [Next]_vars => TimerInv'
  BY TimerStep
<1> QED
  BY <1>1, <1>2, BaseHolds, PTL DEF Spec

\* Of a save none of whose RPCs failed at the source, the destination commits
\* only bytes read out of blocks the source still held, for any timers, delays
\* and pollers.
THEOREM CommittedBytesIntactHolds == Spec => []CommittedBytesIntact
<1>1. TimerInv => CommittedBytesIntact
  BY DEF TimerInv, HoldInv, HoldAt, AnsweredInv, AnsweredAt, PolledInv, CommittedBytesIntact, CommitIntact
<1> QED
  BY <1>1, TimerHolds, PTL

\* The hold of a polled write covers the deadline its destination granted.
THEOREM HoldCoversDeadlineHolds == Spec => []HoldCoversDeadline
<1>1. TimerInv => HoldCoversDeadline
  BY DEF TimerInv, HoldInv, HoldAt, AnsweredInv, AnsweredAt, PolledInv, HoldCoversDeadline
<1> QED
  BY <1>1, TimerHolds, PTL
=============================================================================
