----------------------- MODULE ReshardRegistryProofs -----------------------
(***************************************************************************)
(* Proofs about ReshardRegistry, for any number of units, generations and  *)
(* attempts, any number of restarts, and any times with                    *)
(* Ttl > 2 * RpcMax + TransferMax.                                         *)
(*                                                                         *)
(* The argument is on the deadlines under a claim: IInv says that a claim  *)
(* has always more time left than what its attempt still has to do, and    *)
(* that everything pushed is under the claim of the attempt that pushes    *)
(* it.  One lemma per action shows that the action preserves IInv: first   *)
(* the calls on the registry, then the steps of an attempt and of the      *)
(* clock; the properties follow from IInv.                                 *)
(***************************************************************************)
EXTENDS ReshardRegistry, TLAPS

-----------------------------------------------------------------------------
(* The actions one by one.                                                 *)

\* A restart takes the sends of its worker with it and touches nothing the
\* registry keeps.
LEMMA RestartStep ==
  ASSUME IInv, NEW u \in Unit, Restart(u)
  PROVE  IInv'
<1>1. TypeOK'
  BY DEF IInv, regVars, TypeOK, Restart
<1>2. AttemptInv'
  BY Zenon DEF IInv, AttemptInv, Restart
<1>3. SendsInv'
  BY Zenon DEF IInv, SendsInv, Restart
<1>4. TodoInv'
  BY DEF IInv, regVars, TodoInv, Covered, Restart
<1>5. PushInv'
  <2> SUFFICES ASSUME NEW q \in pushing' PROVE PushCovered(q)'
    BY Zenon DEF PushInv
  <2>1. q.by \in Attempt /\ q.unit \in Unit /\ q.uuid \in Uuid /\ q.left \in 0..TransferMax
    BY Zenon, <1>1 DEF TypeOK, Send
  <2>2. QED
    BY Zenon, <2>1 DEF IInv, regVars, PushInv, PushCovered, Covered, Restart
<1>6. RowsInv'
  BY Zenon DEF IInv, regVars, RowsInv, Restart
<1>7. TombstoneInv'
  BY Zenon DEF IInv, regVars, TombstoneInv, Restart
<1>8. VotesOutliveClaim'
  BY Zenon DEF IInv, regVars, VotesOutliveClaim, Restart
<1> QED
  BY Zenon, <1>1, <1>2, <1>3, <1>4, <1>5, <1>6, <1>7, <1>8 DEF IInv

\* Registering a work unit erases the unit's row only.
LEMMA RegisterWorkUnitStep ==
  ASSUME IInv, NEW u \in Unit, RegisterWorkUnit(u)
  PROVE  IInv'
<1>1. TypeOK'
  BY Zenon DEF IInv, TypeOK, RegisterWorkUnit, InvalidateUnitLocked
<1>2. AttemptInv'
  BY Zenon DEF IInv, AttemptInv, RegisterWorkUnit, InvalidateUnitLocked
<1>3. SendsInv'
  BY DEF IInv, SendsInv, RegisterWorkUnit, InvalidateUnitLocked
<1>4. TodoInv'
  BY DEF IInv, TodoInv, Covered, RegisterWorkUnit, InvalidateUnitLocked
<1>5. PushInv'
  <2> SUFFICES ASSUME NEW q \in pushing' PROVE PushCovered(q)'
    BY Zenon DEF PushInv
  <2>1. q.by \in Attempt /\ q.unit \in Unit /\ q.uuid \in Uuid /\ q.left \in 0..TransferMax
    BY Zenon, <1>1 DEF TypeOK, Send
  <2>2. QED
    BY <2>1 DEF IInv, PushInv, PushCovered, Covered, RegisterWorkUnit, InvalidateUnitLocked
<1>6. RowsInv'
  BY DEF IInv, RowsInv, RegisterWorkUnit, InvalidateUnitLocked
<1>7. TombstoneInv'
  BY DEF IInv, TombstoneInv, RegisterWorkUnit, InvalidateUnitLocked
<1>8. VotesOutliveClaim'
  BY Zenon DEF IInv, VotesOutliveClaim, RegisterWorkUnit, InvalidateUnitLocked
<1> QED
  BY Zenon, <1>1, <1>2, <1>3, <1>4, <1>5, <1>6, <1>7, <1>8 DEF IInv

\* A row is accepted only while its generation is neither claimed nor
\* cancelled, so it disturbs no claim.
LEMMA RegisterStep ==
  ASSUME IInv, NEW u \in Unit, NEW g \in Uuid, NEW e \in BOOLEAN, Register(u, g, e)
  PROVE  IInv'
<1>1. TypeOK'
  BY TimesAssumption DEF IInv, TypeOK, Row, Register
<1>2. AttemptInv'
  BY Zenon DEF IInv, AttemptInv, Register
<1>3. SendsInv'
  BY DEF IInv, SendsInv, Register
<1>4. TodoInv'
  BY DEF IInv, TypeOK, Att, TodoInv, Covered, Register, RegisterAccepted
<1>5. PushInv'
  <2> SUFFICES ASSUME NEW q \in pushing' PROVE PushCovered(q)'
    BY Zenon DEF PushInv
  <2>1. q.by \in Attempt /\ q.unit \in Unit /\ q.uuid \in Uuid /\ q.left \in 0..TransferMax
    BY Zenon, <1>1 DEF TypeOK, Send
  <2>2. QED
    BY <2>1 DEF IInv, TypeOK, PushInv, PushCovered, Covered, Register, RegisterAccepted
<1>6. RowsInv'
  <2>1. \A h \in Uuid : votes'[h] # None => \A v \in votes'[h].units : <<v, h>> \in ended'
    BY Zenon DEF IInv, RowsInv, Register
  <2>2. ASSUME NEW v \in Unit, rows'[v] # None, ~rows'[v].empty, rows'[v].uuid \notin exposed'
        PROVE  LET h == rows'[v].uuid IN
               /\ <<v, h>> \in freed' => <<v, h>> \in ended'
               /\ <<v, h>> \in ended' => /\ claim'[h] # None
                                         /\ att'[claim'[h].owner].pc \in {"dispatching", "ended"}
    BY <2>2 DEF IInv, TypeOK, RowsInv, Register, RegisterAccepted
  <2>3. \A v \in Unit : rows'[v] # None /\ claim'[rows'[v].uuid] # None =>
          rows'[v].left <= claim'[rows'[v].uuid].left
    BY DEF IInv, TypeOK, RowsInv, Register, RegisterAccepted
  <2>4. QED
    BY Zenon, <2>1, <2>2, <2>3 DEF RowsInv
<1>7. TombstoneInv'
  BY DEF IInv, TypeOK, Row, TombstoneInv, Register, RegisterAccepted
<1>8. VotesOutliveClaim'
  BY Zenon DEF IInv, VotesOutliveClaim, Register
<1> QED
  BY Zenon, <1>1, <1>2, <1>3, <1>4, <1>5, <1>6, <1>7, <1>8 DEF IInv

\* A forced release removes a claim and records that it did.
LEMMA ReleaseStep ==
  ASSUME IInv, NEW g \in Uuid, Release(g)
  PROVE  IInv'
<1>1. TypeOK'
  BY Zenon DEF IInv, TypeOK, Release, RetireLocked, Without
<1>2. AttemptInv'
  BY Zenon DEF IInv, AttemptInv, Release
<1>3. SendsInv'
  BY Zenon DEF IInv, SendsInv, Release
<1>4. TodoInv'
  BY DEF IInv, TypeOK, Att, SendsInv, TodoInv, Covered, Release, RetireLocked, Without
<1>5. PushInv'
  <2> SUFFICES ASSUME NEW q \in pushing' PROVE PushCovered(q)'
    BY Zenon DEF PushInv
  <2>1. q.by \in Attempt /\ q.unit \in Unit /\ q.uuid \in Uuid /\ q.left \in 0..TransferMax
    BY Zenon, <1>1 DEF TypeOK, Send
  <2>2. QED
    <3>1. PushCovered(q) /\ att' = att /\ q.uuid \in Uuid
      BY Zenon, <2>1 DEF IInv, PushInv, Release
    <3>2. claim \in [Uuid -> Claim \cup {None}] /\ claim' = [claim EXCEPT ![g] = None]
      BY Zenon DEF IInv, TypeOK, Release, RetireLocked
    <3>3. CASE q.uuid = g
      <4>1. q.uuid \in exposed' \/ claim[g] = None
        BY Zenon, <3>3 DEF Release
      <4>2. q.uuid \in exposed => q.uuid \in exposed'
        BY Zenon DEF Release
      <4>3. QED
        BY Zenon, <3>1, <3>3, <4>1, <4>2 DEF PushCovered, Covered
    <3>4. CASE q.uuid # g
      <4>1. claim'[q.uuid] = claim[q.uuid] /\ (q.uuid \in exposed' <=> q.uuid \in exposed)
        BY Zenon, <3>1, <3>2, <3>4 DEF Release
      <4>2. UNCHANGED <<ended, freed>> /\ rows'[q.unit] \in {rows[q.unit], None}
        BY Zenon, <2>1 DEF Release, RetireLocked, Without
      <4>3. QED
        BY Zenon, <3>1, <4>1, <4>2 DEF PushCovered, Covered
    <3>5. QED
      BY Zenon, <3>3, <3>4
<1>6. RowsInv'
  BY DEF IInv, TypeOK, RowsInv, Release, RetireLocked, Without
<1>7. TombstoneInv'
  BY DEF IInv, TombstoneInv, Release, RetireLocked, Without
<1>8. VotesOutliveClaim'
  BY DEF IInv, VotesOutliveClaim, Release, RetireLocked
<1> QED
  BY Zenon, <1>1, <1>2, <1>3, <1>4, <1>5, <1>6, <1>7, <1>8 DEF IInv

\* A vote comes from a unit whose part is over.  The last one retires the
\* generation, under which no unit has anything left to push.
LEMMA CompleteStep ==
  ASSUME IInv, NEW u \in Unit, NEW g \in Uuid, Complete(u, g)
  PROVE  IInv'
<1>1. TypeOK'
  <2>1. WithVote(u, g) \in Votes
    BY TimesAssumption DEF IInv, TypeOK, Votes, WithVote
  <2>2. CASE UNCHANGED regVars
    BY <2>2 DEF IInv, TypeOK, Complete, regVars
  <2>3. CASE RetireLocked(g)
    BY <2>3 DEF IInv, TypeOK, Complete, RetireLocked, Without
  <2>4. CASE votes' = [votes EXCEPT ![g] = WithVote(u, g)] /\ UNCHANGED <<rows, claim, cancelled>>
    BY <2>1, <2>4 DEF IInv, TypeOK, Complete
  <2>5. QED
    BY Zenon, <2>2, <2>3, <2>4 DEF Complete
<1>2. AttemptInv'
  BY Zenon DEF IInv, AttemptInv, Complete
<1>3. SendsInv'
  BY Zenon DEF IInv, SendsInv, Complete
<1>4. TodoInv'
  BY DEF IInv, regVars, TypeOK, Att, AttemptInv, TodoInv, RowsInv, Covered, Complete,
         RetireLocked, Without, WithVote
<1>5. PushInv'
  <2> SUFFICES ASSUME NEW q \in pushing' PROVE PushCovered(q)'
    BY Zenon DEF PushInv
  <2>1. q.by \in Attempt /\ q.unit \in Unit /\ q.uuid \in Uuid /\ q.left \in 0..TransferMax
    BY Zenon, <1>1 DEF TypeOK, Send
  <2>2. QED
    BY <2>1
    DEF IInv, regVars, TypeOK, PushInv, PushCovered, RowsInv, Covered, Complete,
        RetireLocked, Without, WithVote
<1>6. RowsInv'
  BY DEF IInv, regVars, TypeOK, Row, RowsInv, Complete, RetireLocked, Without, WithVote
<1>7. TombstoneInv'
  BY DEF IInv, regVars, TypeOK, TombstoneInv, Complete, RetireLocked, Without
<1>8. VotesOutliveClaim'
  <2>1. CASE UNCHANGED regVars
    BY Zenon, <2>1 DEF IInv, VotesOutliveClaim, regVars
  <2>2. CASE RetireLocked(g)
    BY Zenon, <2>2 DEF IInv, VotesOutliveClaim, RetireLocked, TypeOK
  <2>3. CASE votes' = [votes EXCEPT ![g] = WithVote(u, g)] /\ UNCHANGED <<rows, claim, cancelled>>
    <3>1. WithVote(u, g).left = Ttl
      BY Zenon DEF WithVote
    <3>2. claim[g] # None => claim[g].left <= Ttl
      BY TimesAssumption DEF IInv, TypeOK, Claim
    <3>3. QED
      BY Zenon, <2>3, <3>1, <3>2, TimesAssumption
      DEF IInv, VotesOutliveClaim, TypeOK, Claim, Votes
  <2>4. QED
    BY Zenon, <2>1, <2>2, <2>3 DEF Complete
<1> QED
  BY Zenon, <1>1, <1>2, <1>3, <1>4, <1>5, <1>6, <1>7, <1>8 DEF IInv

\* A cancel succeeds only where there is no claim, so where nothing is pushed.
LEMMA CancelStep ==
  ASSUME IInv, NEW g \in Uuid, CancelIfUnclaimed(g)
  PROVE  IInv'
<1>1. TypeOK'
  BY TimesAssumption DEF IInv, TypeOK, Tombstone, CancelIfUnclaimed, Without
<1>2. AttemptInv'
  BY Zenon DEF IInv, AttemptInv, CancelIfUnclaimed
<1>3. SendsInv'
  BY Zenon DEF IInv, SendsInv, CancelIfUnclaimed
<1>4. TodoInv'
  BY DEF IInv, TypeOK, Att, TodoInv, TombstoneInv, Covered, CancelIfUnclaimed, Without
<1>5. PushInv'
  <2> SUFFICES ASSUME NEW q \in pushing' PROVE PushCovered(q)'
    BY Zenon DEF PushInv
  <2>1. q.by \in Attempt /\ q.unit \in Unit /\ q.uuid \in Uuid /\ q.left \in 0..TransferMax
    BY Zenon, <1>1 DEF TypeOK, Send
  <2>2. QED
    BY <2>1
    DEF IInv, PushInv, PushCovered, TombstoneInv, Covered, CancelIfUnclaimed, Without
<1>6. RowsInv'
  BY DEF IInv, TypeOK, Votes, Tombstone, Armed, Send, RowsInv, TombstoneInv,
         VotesOutliveClaim, CancelIfUnclaimed, Without
<1>7. TombstoneInv'
  BY DEF IInv, TypeOK, TombstoneInv, CancelIfUnclaimed, Without
<1>8. VotesOutliveClaim'
  BY Zenon DEF IInv, TypeOK, VotesOutliveClaim, CancelIfUnclaimed
<1> QED
  BY Zenon, <1>1, <1>2, <1>3, <1>4, <1>5, <1>6, <1>7, <1>8 DEF IInv

\* A claim starts with a full time to live, more than the attempt needs for
\* its two RPCs and the transfer; nothing was pushed before it.
LEMMA LookupStep ==
  ASSUME IInv, NEW a \in Attempt, NEW g \in Uuid, NEW U \in SUBSET Unit,
         NEW S \in SUBSET U, LookupAndClaim(a, g, U, S)
  PROVE  IInv'
<1>1. TypeOK'
  <2>1. [units |-> U, owner |-> a, left |-> Ttl] \in Claim
    BY TimesAssumption DEF Claim
  <2>2. votes[g] # None => [votes[g] EXCEPT !.left = Ttl] \in Votes
    BY TimesAssumption DEF IInv, TypeOK, Votes
  <2>3. Pushes(S) \in SUBSET (Unit \X Nat)
    <3>1. \A v \in S : v \in Unit /\ rows[v] \in Row
      BY Zenon DEF LookupAndClaim, Claimable, HasRow, IInv, TypeOK
    <3>2. QED
      BY <3>1 DEF Pushes, Row
  <2>4. att' \in [Attempt -> Att]
    BY <2>3, TimesAssumption DEF LookupAndClaim, IInv, TypeOK, Att, Phase
  <2>5. CASE RetireLocked(g)
    BY Zenon, <2>4, <2>5 DEF LookupAndClaim, IInv, TypeOK, RetireLocked, Without
  <2>6. CASE ~RetireLocked(g)
    BY <2>1, <2>2, <2>4, <2>6 DEF LookupAndClaim, IInv, TypeOK
  <2>7. QED
    BY Zenon, <2>5, <2>6
<1>2. AttemptInv'
  BY DEF IInv, AttemptInv, LookupAndClaim, Pushes
<1>3. SendsInv'
  BY DEF IInv, SendsInv, PushInv, PushCovered, LookupAndClaim
<1>4. TodoInv'
  BY TimesAssumption, NoneAssumption
  DEF IInv, TypeOK, Row, Claim, Att, AttemptInv, TodoInv, RowsInv, Covered,
      LookupAndClaim, Claimable, HasRow, Pushes, RetireLocked, Without
<1>5. PushInv'
  <2> SUFFICES ASSUME NEW q \in pushing' PROVE PushCovered(q)'
    BY Zenon DEF PushInv
  <2>1. q.by \in Attempt /\ q.unit \in Unit /\ q.uuid \in Uuid /\ q.left \in 0..TransferMax
    BY Zenon, <1>1 DEF TypeOK, Send
  <2>2. QED
    BY <2>1, TimesAssumption, NoneAssumption
    DEF IInv, TypeOK, Tombstone, Armed, Send, PushInv, PushCovered, Covered,
        LookupAndClaim, Claimable, RetireLocked, Without
<1>6. RowsInv'
  <2>1. \A h \in Uuid : votes'[h] # None => \A v \in votes'[h].units : <<v, h>> \in ended'
    BY DEF IInv, TypeOK, Votes, RowsInv, LookupAndClaim, RetireLocked
  <2>2. ASSUME NEW v \in Unit, rows'[v] # None, ~rows'[v].empty, rows'[v].uuid \notin exposed'
        PROVE  LET h == rows'[v].uuid IN
               /\ <<v, h>> \in freed' => <<v, h>> \in ended'
               /\ <<v, h>> \in ended' => /\ claim'[h] # None
                                         /\ att'[claim'[h].owner].pc \in {"dispatching", "ended"}
    BY <2>2
    DEF IInv, TypeOK, Claim, RowsInv, LookupAndClaim, Claimable, RetireLocked, Without
  <2>3. \A v \in Unit : rows'[v] # None /\ claim'[rows'[v].uuid] # None =>
          rows'[v].left <= claim'[rows'[v].uuid].left
    BY TimesAssumption
    DEF IInv, TypeOK, Row, RowsInv, LookupAndClaim, RetireLocked, Without
  <2>4. QED
    BY Zenon, <2>1, <2>2, <2>3 DEF RowsInv
<1>7. TombstoneInv'
  BY DEF IInv, TypeOK, TombstoneInv, LookupAndClaim, Claimable, RetireLocked, Without
<1>8. VotesOutliveClaim'
  BY TimesAssumption
  DEF IInv, TypeOK, Votes, VotesOutliveClaim, LookupAndClaim, RetireLocked
<1> QED
  BY Zenon, <1>1, <1>2, <1>3, <1>4, <1>5, <1>6, <1>7, <1>8 DEF IInv

\* A refused attempt changes nothing but itself.
LEMMA RefusedStep ==
  ASSUME IInv, NEW a \in Attempt, NEW g \in Uuid, NEW U \in SUBSET Unit, ClaimRefused(a, g, U)
  PROVE  IInv'
<1>1. TypeOK'
  BY TimesAssumption DEF IInv, regVars, TypeOK, Att, Phase, ClaimRefused
<1>2. AttemptInv'
  BY DEF IInv, AttemptInv, ClaimRefused
<1>3. SendsInv'
  BY DEF IInv, SendsInv, ClaimRefused
<1>4. TodoInv'
  BY DEF IInv, regVars, TypeOK, Att, TodoInv, Covered, ClaimRefused
<1>5. PushInv'
  <2> SUFFICES ASSUME NEW q \in pushing' PROVE PushCovered(q)'
    BY Zenon DEF PushInv
  <2>1. q.by \in Attempt /\ q.unit \in Unit /\ q.uuid \in Uuid /\ q.left \in 0..TransferMax
    BY Zenon, <1>1 DEF TypeOK, Send
  <2>2. QED
    BY Zenon, <2>1 DEF IInv, regVars, TypeOK, PushInv, PushCovered, Covered, ClaimRefused
<1>6. RowsInv'
  BY Zenon DEF IInv, regVars, TypeOK, Claim, Att, RowsInv, ClaimRefused
<1>7. TombstoneInv'
  BY Zenon DEF IInv, regVars, TombstoneInv, ClaimRefused
<1>8. VotesOutliveClaim'
  BY Zenon DEF IInv, regVars, VotesOutliveClaim, ClaimRefused
<1> QED
  BY Zenon, <1>1, <1>2, <1>3, <1>4, <1>5, <1>6, <1>7, <1>8 DEF IInv

\* An attempt that abandons its claim has nothing to push.
LEMMA AbandonStep ==
  ASSUME IInv, NEW a \in Attempt, AbandonClaim(a)
  PROVE  IInv'
<1>1. TypeOK'
  <2>1. [Idle EXCEPT !.pc = "ended"] \in Att
    BY TimesAssumption DEF Idle, Att, Phase
  <2>2. att' \in [Attempt -> Att]
    BY Zenon, <2>1 DEF AbandonClaim, IInv, TypeOK
  <2>3. QED
    BY ZenonT(60), <2>2 DEF AbandonClaim, IInv, TypeOK
<1>2. AttemptInv'
  BY DEF IInv, AttemptInv, AbandonClaim, Idle
<1>3. SendsInv'
  BY DEF IInv, SendsInv, AbandonClaim, Idle
<1>4. TodoInv'
  BY DEF IInv, AttemptInv, SendsInv, TodoInv, PushInv, PushCovered, Covered,
         AbandonClaim, Idle
<1>5. PushInv'
  <2> SUFFICES ASSUME NEW q \in pushing' PROVE PushCovered(q)'
    BY Zenon DEF PushInv
  <2>1. q.by \in Attempt /\ q.unit \in Unit /\ q.uuid \in Uuid /\ q.left \in 0..TransferMax
    BY Zenon, <1>1 DEF TypeOK, Send
  <2>2. QED
    BY <2>1 DEF IInv, PushInv, PushCovered, Covered, AbandonClaim
<1>6. RowsInv'
  BY NoneAssumption
  DEF IInv, TypeOK, Row, Votes, Tombstone, Send, Att, AttemptInv, PushInv, RowsInv,
      VotesOutliveClaim, AbandonClaim
<1>7. TombstoneInv'
  BY DEF IInv, TombstoneInv, AbandonClaim
<1>8. VotesOutliveClaim'
  BY DEF IInv, VotesOutliveClaim, AbandonClaim
<1> QED
  BY Zenon, <1>1, <1>2, <1>3, <1>4, <1>5, <1>6, <1>7, <1>8 DEF IInv

-----------------------------------------------------------------------------
(* The steps of an attempt, of its transfers and of the clock *)

\* The receiver is armed: the attempt dispatches, or abandons if the answer
\* is lost.
LEMMA ArmStep ==
  ASSUME IInv, NEW a \in Attempt, NEW answered \in BOOLEAN, Arm(a, answered)
  PROVE  IInv'
<1>1. TypeOK'
  <2>1. att[a] \in Att /\ att[a].uuid \in Uuid
    BY Zenon DEF Arm, IInv, TypeOK, AttemptInv
  <2> 0 \in 0..RpcMax /\ RpcMax \in 0..RpcMax /\ {"dispatching", "abandoning"} \subseteq Phase
    BY TimesAssumption DEF Phase
  <2>2. [att[a] EXCEPT !.pc = "dispatching", !.left = RpcMax] \in Att
    BY ZenonT(60), <2>1 DEF Att
  <2>3. [att[a] EXCEPT !.pc = "abandoning", !.todo = {}, !.left = 0] \in Att
    BY ZenonT(60), <2>1 DEF Att
  <2>4. att' \in [Attempt -> Att]
    BY Zenon, <2>2, <2>3 DEF Arm, IInv, TypeOK
  <2>5. [by |-> a, left |-> TransferMax] \in Armed
    BY TimesAssumption DEF Armed
  <2>6. QED
    BY Zenon, <2>1, <2>4, <2>5 DEF Arm, IInv, TypeOK, regVars
<1>2. AttemptInv'
  BY DEF IInv, AttemptInv, Arm
<1>3. SendsInv'
  BY DEF IInv, SendsInv, Arm
<1>4. TodoInv'
  BY TimesAssumption
  DEF IInv, regVars, TypeOK, Claim, Att, AttemptInv, TodoInv, Covered, Arm
<1>5. PushInv'
  <2> SUFFICES ASSUME NEW q \in pushing' PROVE PushCovered(q)'
    BY Zenon DEF PushInv
  <2>1. q.by \in Attempt /\ q.unit \in Unit /\ q.uuid \in Uuid /\ q.left \in 0..TransferMax
    BY Zenon, <1>1 DEF TypeOK, Send
  <2>2. QED
    BY <2>1 DEF IInv, regVars, PushInv, PushCovered, Covered, Arm
<1>6. RowsInv'
  BY DEF IInv, regVars, RowsInv, Arm
<1>7. TombstoneInv'
  BY Zenon DEF IInv, regVars, TombstoneInv, Arm
<1>8. VotesOutliveClaim'
  BY Zenon DEF IInv, regVars, VotesOutliveClaim, Arm
<1> QED
  BY Zenon, <1>1, <1>2, <1>3, <1>4, <1>5, <1>6, <1>7, <1>8 DEF IInv

\* The receiver is not armed: the attempt drops what it had to push.
LEMMA ArmFailsStep ==
  ASSUME IInv, NEW a \in Attempt, ArmFails(a)
  PROVE  IInv'
<1>1. TypeOK'
  <2>1. att[a] \in Att
    BY Zenon DEF IInv, TypeOK
  <2> 0 \in 0..RpcMax /\ "abandoning" \in Phase
    BY TimesAssumption DEF Phase
  <2>2. [att[a] EXCEPT !.pc = "abandoning", !.todo = {}, !.left = 0] \in Att
    BY ZenonT(60), <2>1 DEF Att
  <2>3. att' \in [Attempt -> Att]
    BY Zenon, <2>2 DEF ArmFails, IInv, TypeOK
  <2>4. QED
    BY Zenon, <2>3 DEF ArmFails, IInv, TypeOK, regVars
<1>2. AttemptInv'
  BY DEF IInv, TypeOK, AttemptInv, ArmFails
<1>3. SendsInv'
  BY DEF IInv, TypeOK, SendsInv, ArmFails
<1>4. TodoInv'
  BY DEF IInv, regVars, TypeOK, Att, TodoInv, Covered, ArmFails
<1>5. PushInv'
  <2> SUFFICES ASSUME NEW q \in pushing' PROVE PushCovered(q)'
    BY Zenon DEF PushInv
  <2>1. q.by \in Attempt /\ q.unit \in Unit /\ q.uuid \in Uuid /\ q.left \in 0..TransferMax
    BY Zenon, <1>1 DEF TypeOK, Send
  <2>2. QED
    BY Zenon, <2>1, TimesAssumption
    DEF IInv, regVars, TypeOK, PushInv, PushCovered, Covered, ArmFails
<1>6. RowsInv'
  BY Zenon DEF IInv, regVars, TypeOK, Claim, RowsInv, ArmFails
<1>7. TombstoneInv'
  BY Zenon DEF IInv, regVars, TombstoneInv, ArmFails
<1>8. VotesOutliveClaim'
  BY Zenon DEF IInv, regVars, VotesOutliveClaim, ArmFails
<1> QED
  BY Zenon, <1>1, <1>2, <1>3, <1>4, <1>5, <1>6, <1>7, <1>8 DEF IInv

\* A dispatched unit moves from the attempt's list to the sends; the claim
\* has more than a transfer's time left.
LEMMA DispatchStep ==
  ASSUME IInv, NEW a \in Attempt, NEW s \in att[a].todo, Dispatch(a, s)
  PROVE  IInv'
<1>1. TypeOK'
  <2>1. att[a] \in Att /\ att[a].uuid \in Uuid
    BY Zenon DEF Dispatch, IInv, TypeOK, AttemptInv
  <2>2. s \in Unit \X Nat /\ [att[a] EXCEPT !.todo = @ \ {s}] \in Att
    BY Zenon, <2>1 DEF Att
  <2>3. att' \in [Attempt -> Att]
    BY Zenon, <2>2 DEF Dispatch, IInv, TypeOK
  <2>4. [unit |-> s[1], uuid |-> att[a].uuid, by |-> a, inc |-> s[2], left |-> TransferMax] \in Send
    BY <2>1, <2>2, TimesAssumption DEF Send
  <2>5. pushing' \subseteq Send
    BY Zenon, <2>4 DEF Dispatch, IInv, TypeOK
  <2>6. QED
    BY Zenon, <2>3, <2>5 DEF Dispatch, IInv, TypeOK, regVars
<1>2. AttemptInv'
  BY DEF IInv, AttemptInv, Dispatch
<1>3. SendsInv'
  BY DEF IInv, TypeOK, AttemptInv, SendsInv, Dispatch
<1>4. TodoInv'
  BY DEF IInv, regVars, TodoInv, Covered, Dispatch
<1>5. PushInv'
  <2> SUFFICES ASSUME NEW q \in pushing' PROVE PushCovered(q)'
    BY Zenon DEF PushInv
  <2>1. q.by \in Attempt /\ q.unit \in Unit /\ q.uuid \in Uuid /\ q.left \in 0..TransferMax
    BY Zenon, <1>1 DEF TypeOK, Send
  <2>2. QED
    BY <2>1
    DEF IInv, regVars, TypeOK, Claim, Att, TodoInv, PushInv, PushCovered, Covered,
        Dispatch
<1>6. RowsInv'
  BY DEF IInv, regVars, RowsInv, Dispatch
<1>7. TombstoneInv'
  BY Zenon DEF IInv, regVars, TombstoneInv, Dispatch
<1>8. VotesOutliveClaim'
  BY Zenon DEF IInv, regVars, VotesOutliveClaim, Dispatch
<1> QED
  BY Zenon, <1>1, <1>2, <1>3, <1>4, <1>5, <1>6, <1>7, <1>8 DEF IInv

\* A failed dispatch only shortens the attempt's list.
LEMMA DispatchFailsStep ==
  ASSUME IInv, NEW a \in Attempt, NEW s \in att[a].todo, DispatchFails(a, s)
  PROVE  IInv'
<1>1. TypeOK'
  <2>1. [att[a] EXCEPT !.todo = @ \ {s}] \in Att
    BY DEF IInv, TypeOK, Att
  <2>2. att' \in [Attempt -> Att]
    BY Zenon, <2>1 DEF DispatchFails, IInv, TypeOK
  <2>3. QED
    BY Zenon, <2>2 DEF DispatchFails, IInv, TypeOK, regVars
<1>2. AttemptInv'
  BY DEF IInv, AttemptInv, DispatchFails
<1>3. SendsInv'
  BY DEF IInv, SendsInv, DispatchFails
<1>4. TodoInv'
  BY DEF IInv, regVars, TodoInv, Covered, DispatchFails
<1>5. PushInv'
  <2> SUFFICES ASSUME NEW q \in pushing' PROVE PushCovered(q)'
    BY Zenon DEF PushInv
  <2>1. q.by \in Attempt /\ q.unit \in Unit /\ q.uuid \in Uuid /\ q.left \in 0..TransferMax
    BY Zenon, <1>1 DEF TypeOK, Send
  <2>2. QED
    BY <2>1 DEF IInv, regVars, PushInv, PushCovered, Covered, DispatchFails
<1>6. RowsInv'
  BY DEF IInv, regVars, RowsInv, DispatchFails
<1>7. TombstoneInv'
  BY Zenon DEF IInv, regVars, TombstoneInv, DispatchFails
<1>8. VotesOutliveClaim'
  BY Zenon DEF IInv, regVars, VotesOutliveClaim, DispatchFails
<1> QED
  BY Zenon, <1>1, <1>2, <1>3, <1>4, <1>5, <1>6, <1>7, <1>8 DEF IInv

\* An attempt ends with nothing left to dispatch.
LEMMA JoinedStep ==
  ASSUME IInv, NEW a \in Attempt, Joined(a)
  PROVE  IInv'
<1>1. TypeOK'
  BY TimesAssumption DEF IInv, regVars, TypeOK, Att, Phase, Joined, Idle
<1>2. AttemptInv'
  BY DEF IInv, AttemptInv, Joined, Idle
<1>3. SendsInv'
  BY DEF IInv, SendsInv, Joined, Idle
<1>4. TodoInv'
  BY DEF IInv, regVars, TodoInv, Covered, Joined, Idle
<1>5. PushInv'
  <2> SUFFICES ASSUME NEW q \in pushing' PROVE PushCovered(q)'
    BY Zenon DEF PushInv
  <2>1. q.by \in Attempt /\ q.unit \in Unit /\ q.uuid \in Uuid /\ q.left \in 0..TransferMax
    BY Zenon, <1>1 DEF TypeOK, Send
  <2>2. QED
    BY <2>1 DEF IInv, regVars, PushInv, PushCovered, Covered, Joined
<1>6. RowsInv'
  BY DEF IInv, regVars, RowsInv, Joined
<1>7. TombstoneInv'
  BY Zenon DEF IInv, regVars, TombstoneInv, Joined
<1>8. VotesOutliveClaim'
  BY Zenon DEF IInv, regVars, VotesOutliveClaim, Joined
<1> QED
  BY Zenon, <1>1, <1>2, <1>3, <1>4, <1>5, <1>6, <1>7, <1>8 DEF IInv

\* A unit whose send is over has no other send of the generation.
LEMMA SendEndsStep ==
  ASSUME IInv, NEW p \in pushing, SendEnds(p)
  PROVE  IInv'
<1>1. TypeOK'
  BY DEF IInv, regVars, TypeOK, Send, SendEnds
<1>2. AttemptInv'
  BY Zenon DEF IInv, AttemptInv, SendEnds
<1>3. SendsInv'
  BY DEF IInv, SendsInv, SendEnds
<1>4. TodoInv'
  BY DEF IInv, regVars, TypeOK, Att, AttemptInv, SendsInv, TodoInv, PushInv, PushCovered, Covered, SendEnds
<1>5. PushInv'
  <2> SUFFICES ASSUME NEW q \in pushing' PROVE PushCovered(q)'
    BY Zenon DEF PushInv
  <2>1. q.by \in Attempt /\ q.unit \in Unit /\ q.uuid \in Uuid /\ q.left \in 0..TransferMax
    BY Zenon, <1>1 DEF TypeOK, Send
  <2>2. QED
    BY Zenon, <2>1 DEF IInv, regVars, SendsInv, PushInv, PushCovered, Covered, SendEnds
<1>6. RowsInv'
  BY DEF IInv, regVars, TypeOK, RowsInv, PushInv, PushCovered, Covered, SendEnds
<1>7. TombstoneInv'
  BY Zenon DEF IInv, regVars, TombstoneInv, SendEnds
<1>8. VotesOutliveClaim'
  BY Zenon DEF IInv, regVars, VotesOutliveClaim, SendEnds
<1> QED
  BY Zenon, <1>1, <1>2, <1>3, <1>4, <1>5, <1>6, <1>7, <1>8 DEF IInv

\* The receiver's end concerns the receiver only.
LEMMA RecvEndsStep ==
  ASSUME IInv, NEW g \in Uuid, RecvEnds(g)
  PROVE  IInv'
<1>1. TypeOK'
  BY Zenon DEF IInv, regVars, TypeOK, RecvEnds
<1>2. AttemptInv'
  BY Zenon DEF IInv, AttemptInv, RecvEnds
<1>3. SendsInv'
  BY DEF IInv, SendsInv, RecvEnds
<1>4. TodoInv'
  BY Zenon DEF IInv, regVars, TodoInv, Covered, RecvEnds
<1>5. PushInv'
  <2> SUFFICES ASSUME NEW q \in pushing' PROVE PushCovered(q)'
    BY Zenon DEF PushInv
  <2>1. q.by \in Attempt /\ q.unit \in Unit /\ q.uuid \in Uuid /\ q.left \in 0..TransferMax
    BY Zenon, <1>1 DEF TypeOK, Send
  <2>2. QED
    BY Zenon, <2>1 DEF IInv, regVars, PushInv, PushCovered, Covered, RecvEnds
<1>6. RowsInv'
  BY Zenon DEF IInv, regVars, RowsInv, RecvEnds
<1>7. TombstoneInv'
  BY Zenon DEF IInv, regVars, TombstoneInv, RecvEnds
<1>8. VotesOutliveClaim'
  BY Zenon DEF IInv, regVars, VotesOutliveClaim, RecvEnds
<1> QED
  BY Zenon, <1>1, <1>2, <1>3, <1>4, <1>5, <1>6, <1>7, <1>8 DEF IInv

\* A tick takes one from every time that is left: what is pushed under a
\* claim ends before the claim does, and a claim before its votes.
LEMMA TickStep ==
  ASSUME IInv, Tick
  PROVE  IInv'
<1>0. /\ claim' = Aged(claim) /\ exposed' = exposed \cup Overdue
      /\ pushing' = {[p EXCEPT !.left = @ - 1] : p \in pushing}
      /\ \A p \in pushing : p.left > 0
  BY Zenon DEF Tick
<1>1. \A g \in Uuid : /\ claim'[g] # None => /\ claim[g] # None
                                             /\ claim[g].left > 1
                      /\ claim[g] # None /\ claim[g].left > 1 =>
                           /\ claim'[g] \in Claim
                           /\ claim'[g] # None
                           /\ claim'[g].left = claim[g].left - 1
                           /\ claim'[g].owner = claim[g].owner
                           /\ claim'[g].units = claim[g].units
  BY <1>0, NoneAssumption, TimesAssumption DEF Aged, IInv, TypeOK, Claim
<1>2. \A u \in Unit : rows'[u] # None => /\ rows[u] # None
                                         /\ rows[u].left > 1
                                         /\ rows'[u] \in Row
                                         /\ rows'[u].left = rows[u].left - 1
                                         /\ rows'[u].uuid = rows[u].uuid
                                         /\ rows'[u].empty = rows[u].empty
  BY TimesAssumption DEF Tick, Aged, IInv, TypeOK, Row
<1>3. \A g \in Uuid : votes'[g] # None => /\ votes[g] # None
                                          /\ votes[g].left > 1
                                          /\ votes'[g] \in Votes
                                          /\ votes'[g].left = votes[g].left - 1
                                          /\ votes'[g].units = votes[g].units
  BY TimesAssumption DEF Tick, Aged, IInv, TypeOK, Votes
<1>4. \A g \in Uuid : cancelled'[g] # None => /\ cancelled[g] # None
                                              /\ cancelled'[g] \in Tombstone
  BY TimesAssumption DEF Tick, Aged, IInv, TypeOK, Tombstone
<1>5. \A a \in Attempt : /\ att'[a] \in Att
                         /\ att'[a].pc = att[a].pc
                         /\ att'[a].uuid = att[a].uuid
                         /\ att'[a].todo = att[a].todo
                         /\ att[a].left > 0 => att'[a].left = att[a].left - 1
  <2> SUFFICES ASSUME NEW a \in Attempt
               PROVE  /\ att'[a] \in Att
                      /\ att'[a].pc = att[a].pc
                      /\ att'[a].uuid = att[a].uuid
                      /\ att'[a].todo = att[a].todo
                      /\ att[a].left > 0 => att'[a].left = att[a].left - 1
    OBVIOUS
  <2>1. att[a] \in Att /\ att[a].left \in 0..RpcMax
    BY Zenon DEF IInv, TypeOK, Att
  <2>2. Down(att[a].left) \in 0..RpcMax /\ (att[a].left > 0 => Down(att[a].left) = att[a].left - 1)
    BY <2>1, TimesAssumption DEF Down
  <2>3. att'[a] = [att[a] EXCEPT !.left = Down(att[a].left)]
    BY Zenon DEF Tick
  <2>4. att'[a] \in Att
    BY Zenon, <2>1, <2>2, <2>3 DEF Att
  <2>5. att'[a].pc = att[a].pc /\ att'[a].uuid = att[a].uuid /\ att'[a].todo = att[a].todo
        /\ att'[a].left = Down(att[a].left)
    BY Zenon, <2>1, <2>3 DEF Att
  <2>6. QED
    BY Zenon, <2>2, <2>4, <2>5
<1>6. \A q \in pushing' : \E p \in pushing : /\ q \in Send
                                             /\ q = [p EXCEPT !.left = @ - 1]
                                             /\ q.unit = p.unit
                                             /\ q.uuid = p.uuid
                                             /\ q.by = p.by
                                             /\ q.left = p.left - 1
  BY <1>0, TimesAssumption DEF IInv, TypeOK, Send
<1>7. \A g \in Uuid : armed'[g] \in Armed \cup {None}
  BY TimesAssumption DEF Tick, Older, IInv, TypeOK, Armed
<1>8. TypeOK'
  <2>1. /\ rows' = [u \in Unit |-> rows'[u]]
        /\ claim' = [g \in Uuid |-> claim'[g]]
        /\ votes' = [g \in Uuid |-> votes'[g]]
        /\ cancelled' = [g \in Uuid |-> cancelled'[g]]
        /\ att' = [a \in Attempt |-> att'[a]]
        /\ armed' = [g \in Uuid |-> armed'[g]]
    BY Zenon DEF Tick, Aged, Older, IInv, TypeOK
  <2>2. claim' \in [Uuid -> Claim \cup {None}]
    BY Zenon, <1>1, <2>1
  <2>3. pushing' \subseteq Send
    BY Zenon, <1>6
  <2>4. exposed' \subseteq Uuid
    BY Zenon, <1>0 DEF Overdue, IInv, TypeOK, AttemptInv
  <2>5. UNCHANGED <<known, stale, inc, ended, freed>>
    BY Zenon DEF Tick
  <2>6. QED
    BY ZenonT(60), <1>2, <1>3, <1>4, <1>5, <1>7, <2>1, <2>2, <2>3, <2>4, <2>5 DEF IInv, TypeOK
<1>9. AttemptInv'
  BY Zenon, <1>5 DEF IInv, AttemptInv
<1>10. SendsInv'
  <2>1. ASSUME NEW q \in pushing', NEW a \in Attempt, NEW s \in att'[a].todo,
               q.by = a, q.uuid = att'[a].uuid
        PROVE  q.unit # s[1]
    <3>1. PICK p \in pushing : q.unit = p.unit /\ q.uuid = p.uuid /\ q.by = p.by
      BY Zenon, <1>6
    <3>2. s \in att[a].todo /\ p.by = a /\ p.uuid = att[a].uuid
      BY ZenonT(60), <1>5, <2>1, <3>1
    <3>3. QED
      BY Zenon, <3>1, <3>2 DEF IInv, SendsInv
  <2>2. ASSUME NEW q \in pushing', NEW r \in pushing', q.unit = r.unit, q.uuid = r.uuid
        PROVE  q = r
    <3>1. PICK p \in pushing : q = [p EXCEPT !.left = @ - 1] /\ q.unit = p.unit /\ q.uuid = p.uuid
      BY Zenon, <1>6
    <3>2. PICK t \in pushing : r = [t EXCEPT !.left = @ - 1] /\ r.unit = t.unit /\ r.uuid = t.uuid
      BY Zenon, <1>6
    <3>3. p = t
      BY Zenon, <2>2, <3>1, <3>2 DEF IInv, SendsInv
    <3>4. QED
      BY Zenon, <3>1, <3>2, <3>3
  <2>3. QED
    BY Zenon, <2>1, <2>2 DEF SendsInv
<1>11. \A g \in Uuid : claim[g] # None => claim[g].left \in Nat
  BY TimesAssumption DEF IInv, TypeOK, Claim
<1>12. TodoInv'
  <2> SUFFICES ASSUME NEW a \in Attempt, NEW s \in att'[a].todo, att'[a].uuid \notin exposed'
               PROVE  /\ Covered(a, s[1], att[a].uuid)'
                      /\ att'[a].pc = "arming" => claim'[att'[a].uuid].left > att'[a].left + RpcMax + TransferMax
                      /\ att'[a].pc = "dispatching" => claim'[att'[a].uuid].left > att'[a].left + TransferMax
    BY Zenon DEF TodoInv
  <2> DEFINE g == att[a].uuid
  <2>1. /\ s \in att[a].todo /\ g \notin exposed /\ att'[a].uuid = g
        /\ att[a].pc \in {"arming", "dispatching"} /\ g \in Uuid
        /\ s[1] \in Unit /\ att[a].left \in Nat /\ g \notin exposed'
    <3>1. s \in att[a].todo /\ att'[a].uuid = g /\ g \notin exposed
      BY Zenon, <1>0, <1>5
    <3>2. att[a].pc \in {"arming", "dispatching"} /\ g \in Uuid
      BY Zenon, <3>1 DEF IInv, AttemptInv
    <3>3. att[a] \in Att
      BY Zenon DEF IInv, TypeOK
    <3>4. s[1] \in Unit /\ att[a].left \in Nat
      BY <3>1, <3>3, TimesAssumption DEF Att
    <3>5. QED
      BY Zenon, <1>5, <3>1, <3>2, <3>4
  <2>2. /\ Covered(a, s[1], g)
        /\ att[a].pc = "arming" => claim[g].left > att[a].left + RpcMax + TransferMax
        /\ att[a].pc = "dispatching" => claim[g].left > att[a].left + TransferMax
    BY Zenon, <2>1 DEF IInv, TodoInv
  <2>3. att[a].left > 0 /\ att'[a].left = att[a].left - 1 /\ att'[a].pc = att[a].pc
    <3>1. att[a].left # 0
      BY Zenon, <1>0, <2>1 DEF Overdue
    <3>2. QED
      BY <1>5, <2>1, <3>1
  <2>4. claim[g] # None /\ claim[g].left > 1
    BY <1>11, <2>1, <2>2, <2>3, TimesAssumption DEF Covered
  <2>5. /\ claim'[g] # None /\ claim'[g].left = claim[g].left - 1
        /\ claim'[g].owner = claim[g].owner /\ claim'[g].units = claim[g].units
    BY Zenon, <1>1, <2>1, <2>4
  <2>6. Covered(a, s[1], g)'
    BY <1>2, <2>1, <2>2, <2>5 DEF Covered, Tick
  <2>7. QED
    BY <1>11, <2>1, <2>2, <2>3, <2>4, <2>5, <2>6, TimesAssumption
<1>13. PushInv'
  <2> SUFFICES ASSUME NEW q \in pushing' PROVE PushCovered(q)'
    BY Zenon DEF PushInv
  <2>1. PICK p \in pushing : /\ q \in Send /\ q.unit = p.unit /\ q.uuid = p.uuid
                             /\ q.by = p.by /\ q.left = p.left - 1
    BY Zenon, <1>6
  <2>2. q.by \in Attempt /\ q.unit \in Unit /\ q.uuid \in Uuid /\ q.left \in Nat
    BY <2>1, TimesAssumption DEF Send
  <2>3. PushCovered(p) /\ p.left \in Nat /\ p.left > 0
    BY <2>1, TimesAssumption DEF IInv, PushInv, TypeOK, Send, Tick
  <2>4. att'[q.by].pc \in {"dispatching", "ended"}
    BY Zenon, <1>5, <2>1, <2>2, <2>3 DEF PushCovered
  <2>5. ASSUME q.uuid \notin exposed'
        PROVE  Covered(q.by, q.unit, q.uuid)' /\ claim'[q.uuid].left > q.left
    <3>1. /\ claim[q.uuid] # None /\ claim[q.uuid].left > 1
          /\ claim[q.uuid].left > p.left /\ Covered(q.by, q.unit, q.uuid)
      BY <1>11, <2>1, <2>2, <2>3, <2>5 DEF PushCovered, Covered, Tick
    <3>2. /\ claim'[q.uuid] # None /\ claim'[q.uuid].left = claim[q.uuid].left - 1
          /\ claim'[q.uuid].owner = claim[q.uuid].owner
          /\ claim'[q.uuid].units = claim[q.uuid].units
      BY Zenon, <1>1, <2>2, <3>1
    <3>3. Covered(q.by, q.unit, q.uuid)'
      BY Zenon, <1>2, <2>2, <3>1, <3>2 DEF Covered, Tick
    <3>4. QED
      BY <1>11, <2>1, <2>2, <2>3, <3>1, <3>2, <3>3
  <2>6. QED
    BY Zenon, <2>4, <2>5 DEF PushCovered
<1>14. RowsInv'
  <2>1. \A u \in Unit : rows[u] # None => rows[u].uuid \in Uuid /\ rows[u].left \in Nat
    BY TimesAssumption DEF IInv, TypeOK, Row
  <2>2. \A u \in Unit : rows'[u] # None /\ claim[rows[u].uuid] # None =>
          /\ claim'[rows[u].uuid] # None
          /\ claim'[rows[u].uuid].owner = claim[rows[u].uuid].owner
          /\ rows'[u].left <= claim'[rows[u].uuid].left
    <3>1. \A u \in Unit : rows[u] # None /\ claim[rows[u].uuid] # None =>
            rows[u].left <= claim[rows[u].uuid].left
      <4>1. RowsInv
        BY Zenon DEF IInv
      <4>2. QED
        BY Zenon, <4>1 DEF RowsInv
    <3>2. QED
      BY <1>1, <1>2, <1>11, <2>1, <3>1
  <2>3. \A g \in Uuid : claim[g] # None => claim[g].owner \in Attempt
    BY Zenon DEF IInv, TypeOK, Claim
  <2>4. \A u \in Unit : rows'[u] # None /\ claim'[rows'[u].uuid] # None =>
          rows'[u].left <= claim'[rows'[u].uuid].left
    BY <1>1, <1>2, <2>1, <2>2
  <2>5. \A g \in Uuid : votes'[g] # None => \A u \in votes'[g].units : <<u, g>> \in ended'
    BY Zenon, <1>3 DEF IInv, RowsInv, Tick
  <2>6. ASSUME NEW u \in Unit, rows'[u] # None, ~rows'[u].empty, rows'[u].uuid \notin exposed'
        PROVE  LET g == rows'[u].uuid IN
               /\ <<u, g>> \in freed' => <<u, g>> \in ended'
               /\ <<u, g>> \in ended' => /\ claim'[g] # None
                                         /\ att'[claim'[g].owner].pc \in {"dispatching", "ended"}
    BY <1>2, <1>5, <2>1, <2>2, <2>3, <2>6 DEF IInv, RowsInv, Tick
  <2>7. QED
    BY Zenon, <2>4, <2>5, <2>6 DEF RowsInv
<1>15. TombstoneInv'
  BY <1>1, <1>2, <1>4 DEF IInv, TombstoneInv
<1>16. VotesOutliveClaim'
  <2>1. \A g \in Uuid : votes[g] # None => votes[g].left \in Nat
    BY TimesAssumption DEF IInv, TypeOK, Votes
  <2>2. QED
    BY <1>1, <1>3, <1>11, <2>1 DEF IInv, VotesOutliveClaim
<1>17. QED
  BY Zenon, <1>8, <1>9, <1>10, <1>12, <1>13, <1>14, <1>15, <1>16 DEF IInv

-----------------------------------------------------------------------------
(* The invariant.                                                          *)

\* The registry starts empty, with no attempt under way.
LEMMA InitInv == Init => IInv
<1> SUFFICES ASSUME Init
             PROVE  IInv
  OBVIOUS
<1>1. TypeOK
  BY TimesAssumption DEF Init, TypeOK, Idle, Att, Phase
<1>2. AttemptInv /\ SendsInv /\ TodoInv /\ PushInv
  BY Zenon DEF Init, Idle, AttemptInv, SendsInv, TodoInv, PushInv
<1>3. RowsInv /\ TombstoneInv /\ VotesOutliveClaim
  BY Zenon DEF Init, RowsInv, TombstoneInv, VotesOutliveClaim
<1> QED
  BY Zenon, <1>1, <1>2, <1>3 DEF IInv

\* A step that changes nothing.
LEMMA StutterStep ==
  ASSUME IInv, UNCHANGED vars
  PROVE  IInv'
<1>1. TypeOK' /\ AttemptInv' /\ SendsInv'
  BY DEF IInv, vars, TypeOK, AttemptInv, SendsInv
<1>2. TodoInv' /\ PushInv'
  BY Zenon DEF IInv, vars, TodoInv, PushInv, PushCovered, Covered
<1>3. RowsInv' /\ TombstoneInv' /\ VotesOutliveClaim'
  BY ZenonT(60) DEF IInv, vars, RowsInv, TombstoneInv, VotesOutliveClaim
<1> QED
  BY Zenon, <1>1, <1>2, <1>3 DEF IInv

\* Every call of the registry, every step of an attempt and every tick keeps
\* the invariant.
LEMMA NextStep ==
  ASSUME IInv, [Next]_vars
  PROVE  IInv'
<1>1. ASSUME NEW u \in Unit, Restart(u) \/ RegisterWorkUnit(u)
      PROVE  IInv'
  BY Zenon, <1>1, RestartStep, RegisterWorkUnitStep
<1>2. ASSUME NEW u \in Unit, NEW g \in Uuid, NEW e \in BOOLEAN, Register(u, g, e)
      PROVE  IInv'
  BY Zenon, <1>2, RegisterStep
<1>3. ASSUME NEW u \in Unit, NEW g \in Uuid, Complete(u, g)
      PROVE  IInv'
  BY Zenon, <1>3, CompleteStep
<1>4. ASSUME NEW g \in Uuid, Release(g) \/ CancelIfUnclaimed(g) \/ RecvEnds(g)
      PROVE  IInv'
  BY Zenon, <1>4, ReleaseStep, CancelStep, RecvEndsStep
<1>5. ASSUME NEW a \in Attempt, NEW g \in Uuid, NEW U \in SUBSET Unit,
             \/ \E S \in SUBSET U : LookupAndClaim(a, g, U, S)
             \/ ClaimRefused(a, g, U)
      PROVE  IInv'
  BY Zenon, <1>5, LookupStep, RefusedStep
<1>6. ASSUME NEW a \in Attempt,
             \/ AbandonClaim(a) \/ ArmFails(a) \/ Joined(a)
             \/ \E answered \in BOOLEAN : Arm(a, answered)
             \/ \E s \in att[a].todo : Dispatch(a, s) \/ DispatchFails(a, s)
      PROVE  IInv'
  BY Zenon, <1>6, AbandonStep, ArmFailsStep, JoinedStep, ArmStep, DispatchStep, DispatchFailsStep
<1>7. ASSUME NEW p \in pushing, SendEnds(p)
      PROVE  IInv'
  BY Zenon, <1>7, SendEndsStep
<1>8. CASE Tick
  BY Zenon, <1>8, TickStep
<1>9. CASE UNCHANGED vars
  BY Zenon, <1>9, StutterStep
<1> QED
  BY ZenonT(60), <1>1, <1>2, <1>3, <1>4, <1>5, <1>6, <1>7, <1>8, <1>9 DEF Next

\* The invariant holds throughout.
LEMMA InvHolds == Spec => []IInv
<1>1. IInv /\ [Next]_vars => IInv'
  BY NextStep
<1> QED
  BY <1>1, InitInv, PTL DEF Spec

-----------------------------------------------------------------------------
(* The properties.                                                         *)

\* Every record the registry keeps, every attempt and every send is well
\* formed, with its time within its bound.
THEOREM TypeCorrect == Spec => []TypeOK
<1>1. IInv => TypeOK
  BY DEF IInv
<1> QED
  BY <1>1, InvHolds, PTL

\* What a live attempt has asked of a unit, or will ask, is covered by the
\* attempt's claim.
LEMMA LiveIsCovered ==
  ASSUME IInv, NEW a \in Attempt, NEW g \in Uuid \ exposed, NEW u \in Live(a, g)
  PROVE  Covered(a, u, g)
<1>1. CASE \E q \in pushing : q.by = a /\ q.uuid = g /\ u = q.unit
  BY Zenon, <1>1 DEF IInv, PushInv, PushCovered
<1>2. CASE att[a].uuid = g /\ \E s \in att[a].todo : u = s[1]
  BY Zenon, <1>2 DEF IInv, TodoInv
<1> QED
  BY Zenon, <1>1, <1>2 DEF Live

\* A producer whose cancel or vote was answered never has its blocks pushed
\* afterwards, unless its claim was released by force or an RPC took longer than
\* kWorkerRpcTimeout, for any number of units, generations and attempts and any
\* times with Ttl > 2 * RpcMax + TransferMax.
THEOREM SourceBlocksHeldTheorem == Spec => []SourceBlocksHeld
<1>1. IInv => SourceBlocksHeld
  BY LiveIsCovered DEF SourceBlocksHeld, Covered
<1> QED
  BY <1>1, InvHolds, PTL

\* A claim outlives everything that is pushed under it.
THEOREM ClaimCoversPushesTheorem == Spec => []ClaimCoversPushes
<1>1. IInv => ClaimCoversPushes
  BY ZenonT(60), LiveIsCovered DEF ClaimCoversPushes, Covered
<1> QED
  BY <1>1, InvHolds, PTL

\* Two attempts never push one generation at the same time: both would own
\* the claim.
THEOREM OneAttemptPushesTheorem == Spec => []OneAttemptPushes
<1>1. ClaimCoversPushes => OneAttemptPushes
  BY DEF ClaimCoversPushes, OneAttemptPushes
<1> QED
  BY <1>1, ClaimCoversPushesTheorem, PTL

\* No vote that counts towards a live claim expires before the claim.
THEOREM VotesOutliveClaimTheorem == Spec => []VotesOutliveClaim
<1>1. IInv => VotesOutliveClaim
  BY DEF IInv
<1> QED
  BY <1>1, InvHolds, PTL

\* A row of a unit whose current process has registered is of that process:
\* re-registration of the unit erases the row of the dead one, and nothing
\* else brings a row about but Register.
THEOREM RowsFreshTheorem == Spec => []RowsFresh
<1>1. Init => RowsFresh
  BY Zenon DEF Init, RowsFresh
<1>2. ASSUME TypeOK, RowsFresh, [Next]_vars
      PROVE  RowsFresh'
  <2> USE <1>2
  <2>1. ASSUME NEW u \in Unit, Restart(u)
        PROVE  RowsFresh'
    BY Zenon, <2>1 DEF TypeOK, RowsFresh, Restart, regVars
  <2>2. ASSUME NEW u \in Unit, RegisterWorkUnit(u)
        PROVE  RowsFresh'
    BY Zenon, <2>2 DEF TypeOK, RowsFresh, RegisterWorkUnit, InvalidateUnitLocked
  <2>3. ASSUME NEW u \in Unit, NEW g \in Uuid, NEW e \in BOOLEAN, Register(u, g, e)
        PROVE  RowsFresh'
    BY <2>3 DEF TypeOK, RowsFresh, Register
  <2>4. CASE /\ UNCHANGED <<stale, inc>>
             /\ \A v \in Unit : rows'[v] = rows[v] \/ rows'[v] = None
    BY Zenon, <2>4 DEF RowsFresh
  <2>5. ASSUME NEW u \in Unit, NEW g \in Uuid, Complete(u, g)
        PROVE  RowsFresh'
    BY Zenon, <2>4, <2>5 DEF Complete, RetireLocked, Without, regVars
  <2>6. ASSUME NEW g \in Uuid, Release(g) \/ CancelIfUnclaimed(g) \/ RecvEnds(g)
        PROVE  RowsFresh'
    BY Zenon, <2>4, <2>6 DEF Release, CancelIfUnclaimed, RecvEnds, RetireLocked, Without, regVars
  <2>7. ASSUME NEW a \in Attempt, NEW g \in Uuid, NEW U \in SUBSET Unit,
               \/ \E S \in SUBSET U : LookupAndClaim(a, g, U, S)
               \/ ClaimRefused(a, g, U)
        PROVE  RowsFresh'
    BY Zenon, <2>4, <2>7 DEF LookupAndClaim, ClaimRefused, RetireLocked, Without, regVars
  <2>8. ASSUME NEW a \in Attempt,
               \/ AbandonClaim(a) \/ ArmFails(a) \/ Joined(a)
               \/ \E answered \in BOOLEAN : Arm(a, answered)
               \/ \E s \in att[a].todo : Dispatch(a, s) \/ DispatchFails(a, s)
        PROVE  RowsFresh'
    BY Zenon, <2>4, <2>8 DEF AbandonClaim, ArmFails, Joined, Arm, Dispatch, DispatchFails, regVars
  <2>9. ASSUME NEW p \in pushing, SendEnds(p)
        PROVE  RowsFresh'
    BY Zenon, <2>4, <2>9 DEF SendEnds, regVars
  <2>10. CASE Tick
    <3>1. \A v \in Unit : rows'[v] # None => rows[v] # None /\ rows'[v].inc = rows[v].inc
      BY Zenon, <2>10 DEF TypeOK, Row, Tick, Aged
    <3> QED
      BY Zenon, <2>10, <3>1 DEF RowsFresh, Tick
  <2>11. CASE UNCHANGED vars
    BY Zenon, <2>4, <2>11 DEF vars
  <2> QED
    BY ZenonT(60), <2>1, <2>2, <2>3, <2>5, <2>6, <2>7, <2>8, <2>9, <2>10, <2>11 DEF Next
<1> QED
  BY <1>1, <1>2, TypeCorrect, PTL DEF Spec
=============================================================================
