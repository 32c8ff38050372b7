--------------------------- MODULE ReshardRegistry ---------------------------
(***************************************************************************)
(* The controller side of a pool reshard: the request-block registry       *)
(* (request_block_registry.cc), the part of the work-unit directory it     *)
(* depends on, and the coordinator's planning attempts                     *)
(* (reshard_coordinator.cc), with the source workers and the receiver as   *)
(* the coordinator's RPCs see them.                                        *)
(*                                                                         *)
(* A request has one req_id here; its generations are the uuids.  Each     *)
(* source unit registers the blocks it holds for a generation, a planning  *)
(* attempt claims the rows of all units, arms the receiver, and dispatches *)
(* the senders; a unit votes when its push is over, and the generation is  *)
(* retired with the last vote.  Cancelling is refused while a claim lives, *)
(* because a producer whose cancel succeeds reuses its blocks.             *)
(*                                                                         *)
(* Times are remaining ticks (expires_at - now).  Every call that reads a  *)
(* map first purges its expired records; the calls that do not             *)
(* (AbandonClaim, the invalidation, a cancel's rows) only erase.  So a     *)
(* record is gone from the tick at which it expires, and Tick purges.      *)
(***************************************************************************)
EXTENDS Integers, FiniteSets, Functions

CONSTANTS Unit,         \* source work units
          Uuid,         \* generations of the request
          Attempt,      \* planning attempts (claim owners)
          None,
          Ttl,          \* request_registry_ttl_s
          RpcMax,       \* kWorkerRpcTimeout
          TransferMax,  \* timeout_s of the transfer managers
          MaxRestarts   \* bound on worker restarts

ASSUME TimesAssumption ==
  /\ Ttl \in Nat /\ RpcMax \in Nat /\ TransferMax \in Nat /\ MaxRestarts \in Nat
  /\ Ttl > 2 * RpcMax + TransferMax

VARIABLES
  known,      \* units in the work-unit directory
  stale,      \* units whose current process has not registered yet
  inc,        \* [Unit -> incarnation of the worker process]
  rows,       \* request_blocks_: per unit None or a registration
  claim,      \* claimed_, claimed_units_, claimed_owners_: per uuid
  votes,      \* completed_units_: per uuid
  cancelled,  \* cancelled_: per uuid
  att,        \* per attempt: where ExecutePoolReshard stands
  armed,      \* per uuid: the plan the receiver is armed with
  pushing,    \* sends under way on the workers
  ended,      \* <<unit, uuid>>: the unit's part is over: it sent, or voted empty
  freed,      \* <<unit, uuid>>: the producer has given up the blocks
  exposed     \* uuids whose claim was retired by force, or outlived by an RPC

regVars == <<rows, claim, votes, cancelled>>
vars == <<known, stale, inc, rows, claim, votes, cancelled, att, armed, pushing,
          ended, freed, exposed>>

Row == [uuid: Uuid, empty: BOOLEAN, inc: Nat, left: 1..Ttl]
Claim == [units: SUBSET Unit, owner: Attempt, left: 1..Ttl]
Votes == [units: SUBSET Unit, left: 1..Ttl]
Tombstone == [left: 1..Ttl]

ASSUME NoneAssumption == None \notin Claim

Armed == [by: Attempt, left: 0..TransferMax]
Send == [unit: Unit, uuid: Uuid, by: Attempt, inc: Nat,
         left: 0..TransferMax]
Phase == {"idle", "arming", "abandoning", "dispatching", "ended"}

\* todo holds <<unit, incarnation of its row>> for the senders of the plan
\* that have not been dispatched.
Att == [pc: Phase, uuid: Uuid \cup {None},
        todo: SUBSET (Unit \X Nat), left: 0..RpcMax]

TypeOK ==
  /\ known \subseteq Unit
  /\ stale \subseteq Unit
  /\ inc \in [Unit -> Nat]
  /\ rows \in [Unit -> Row \cup {None}]
  /\ claim \in [Uuid -> Claim \cup {None}]
  /\ votes \in [Uuid -> Votes \cup {None}]
  /\ cancelled \in [Uuid -> Tombstone \cup {None}]
  /\ att \in [Attempt -> Att]
  /\ armed \in [Uuid -> Armed \cup {None}]
  /\ pushing \subseteq Send
  /\ ended \subseteq Unit \X Uuid
  /\ freed \subseteq Unit \X Uuid
  /\ exposed \subseteq Uuid

Idle == [pc |-> "idle", uuid |-> None, todo |-> {}, left |-> 0]

Init ==
  /\ known = {}
  /\ stale = {}
  /\ inc = [u \in Unit |-> 0]
  /\ rows = [u \in Unit |-> None]
  /\ claim = [g \in Uuid |-> None]
  /\ votes = [g \in Uuid |-> None]
  /\ cancelled = [g \in Uuid |-> None]
  /\ att = [a \in Attempt |-> Idle]
  /\ armed = [g \in Uuid |-> None]
  /\ pushing = {}
  /\ ended = {}
  /\ freed = {}
  /\ exposed = {}

-----------------------------------------------------------------------------
(* The registry's helpers.                                                 *)

\* The rows of generation g removed.
Without(g) == [u \in Unit |-> IF rows[u] # None /\ rows[u].uuid = g THEN None ELSE rows[u]]

\* RetireLocked: nothing of the generation is left, its tombstone included.
RetireLocked(g) ==
  /\ rows' = Without(g)
  /\ claim' = [claim EXCEPT ![g] = None]
  /\ votes' = [votes EXCEPT ![g] = None]
  /\ cancelled' = [cancelled EXCEPT ![g] = None]

-----------------------------------------------------------------------------
(* Calls of the source workers and of the producer.                        *)

\* The bound on restarts, over all workers.
RestartAllowed == FoldFunction(+, 0, inc) < MaxRestarts

\* A worker process dies and comes up again: its sends are gone, and the
\* block ids it had reported mean nothing in the new process.
Restart(u) ==
  /\ u \in known
  /\ RestartAllowed
  /\ inc' = [inc EXCEPT ![u] = @ + 1]
  /\ stale' = stale \cup {u}
  /\ pushing' = {p \in pushing : p.unit # u}
  /\ UNCHANGED <<known, regVars, att, armed, ended, freed, exposed>>

\* The rows of the unit removed.
InvalidateUnitLocked(u) == [rows EXCEPT ![u] = None]

\* COMMAND_REGISTER_WORK_UNIT: replaces the directory entry and, under the
\* same mutex, invalidates the unit's rows.
RegisterWorkUnit(u) ==
  /\ known' = known \cup {u}
  /\ stale' = stale \ {u}
  /\ rows' = InvalidateUnitLocked(u)
  /\ UNCHANGED <<inc, claim, votes, cancelled, att, armed, pushing, ended,
                 freed, exposed>>

\* The conditions of Register under the mutex; the same payload twice is
\* accepted and refreshes the time to live.
RegisterAccepted(u, g, e) ==
  /\ u \in known
  /\ cancelled[g] = None
  /\ claim[g] = None
  /\ \/ rows[u] = None
     \/ rows[u].uuid = g /\ rows[u].empty = e

\* A unit reports the blocks it holds for the generation, none if e.  A unit
\* whose part in the generation is over does not report blocks for it again.
Register(u, g, e) ==
  /\ u \notin stale
  /\ <<u, g>> \in ended => e
  /\ IF RegisterAccepted(u, g, e)
       THEN /\ rows' = [rows EXCEPT ![u] =
                          [uuid |-> g, empty |-> e, inc |-> inc[u], left |-> Ttl]]
            /\ freed' = freed \ {<<u, g>>}
       ELSE UNCHANGED <<rows, freed>>
  /\ UNCHANGED <<known, stale, inc, claim, votes, cancelled, att, armed, pushing, ended, exposed>>

\* COMMAND_RELEASE_REQUEST_BLOCKS with force: retires without a vote.
Release(g) ==
  /\ RetireLocked(g)
  /\ exposed' = IF claim[g] # None THEN exposed \cup {g} ELSE exposed
  /\ UNCHANGED <<known, stale, inc, att, armed, pushing, ended, freed>>

HasRow(u, g) == rows[u] # None /\ rows[u].uuid = g
UnitExpected(u, g) == claim[g] # None /\ u \in claim[g].units

\* The votes of the generation with u's, living a full Ttl from now.
WithVote(u, g) ==
  [units |-> {u} \cup (IF votes[g] = None THEN {} ELSE votes[g].units),
   left |-> Ttl]

\* One terminal vote.  A unit votes once its send is over, or at any time if
\* it registered no blocks; from then on its blocks are the producer's.
Complete(u, g) ==
  /\ <<u, g>> \in ended \/ (rows[u] # None /\ rows[u].uuid = g /\ rows[u].empty)
  /\ CASE claim[g] = None /\ HasRow(u, g) /\ ~rows[u].empty -> UNCHANGED regVars
       [] ~HasRow(u, g) /\ ~UnitExpected(u, g) -> UNCHANGED regVars
       [] OTHER ->
            LET w == WithVote(u, g)
            IN  IF claim[g] # None /\ claim[g].units \subseteq w.units
                  THEN RetireLocked(g)
                  ELSE votes' = [votes EXCEPT ![g] = w] /\ UNCHANGED <<rows, claim, cancelled>>
  /\ ended' = ended \cup {<<u, g>>}
  /\ freed' = freed \cup {<<u, g>>}
  /\ UNCHANGED <<known, stale, inc, att, armed, pushing, exposed>>

\* Fault: a cancel wins over a claim.
CancelClaimed(g) ==
  /\ rows' = Without(g)
  /\ claim' = [claim EXCEPT ![g] = None]
  /\ votes' = [votes EXCEPT ![g] = None]
  /\ cancelled' = [cancelled EXCEPT ![g] = [left |-> Ttl]]
  /\ freed' = freed \cup Unit \X {g}
  /\ UNCHANGED <<known, stale, inc, att, armed, pushing, ended, exposed>>

\* When the cancel is answered true every unit of the request may reuse its
\* blocks.
CancelIfUnclaimed(g) ==
  /\ IF cancelled[g] = None /\ claim[g] = None
       THEN /\ rows' = Without(g)
            /\ votes' = [votes EXCEPT ![g] = None]
            /\ cancelled' = [cancelled EXCEPT ![g] = [left |-> Ttl]]
       ELSE UNCHANGED <<rows, votes, cancelled>>
  /\ freed' = IF cancelled[g] # None \/ claim[g] = None
                THEN freed \cup Unit \X {g} ELSE freed
  /\ UNCHANGED <<known, stale, inc, claim, att, armed, pushing, ended, exposed>>

-----------------------------------------------------------------------------
(* The coordinator: one attempt is one call of ExecutePoolReshard.         *)

\* LookupAndClaim's conditions.  Every attempt is an owner of its own, so
\* any existing claim is another owner's.
Claimable(g, U) ==
  /\ cancelled[g] = None
  /\ claim[g] = None
  /\ \A u \in U : HasRow(u, g)

\* What the plan asks of its senders S, with the ids their rows hold now.
Pushes(S) == {<<u, rows[u].inc>> : u \in S}

\* LookupAndClaim and the rest of BuildPoolReshardPlan.  The senders S of the
\* plan are units with blocks, all or, when a clip drops the spans of some,
\* fewer; a plan without pushes or coverage is refused (S empty).  If every
\* unit has voted already the claim is retired on the spot, and the snapshot
\* is still returned.
LookupAndClaim(a, g, U, S) ==
  /\ att[a].pc = "idle"
  /\ U # {} /\ U \subseteq known
  /\ Claimable(g, U)
  /\ \A u \in S : ~rows[u].empty
  /\ IF votes[g] # None /\ U \subseteq votes[g].units
       THEN RetireLocked(g)
       ELSE /\ claim' = [claim EXCEPT ![g] = [units |-> U, owner |-> a, left |-> Ttl]]
            /\ votes' = [votes EXCEPT ![g] = IF @ = None THEN None ELSE [@ EXCEPT !.left = Ttl]]
            /\ UNCHANGED <<rows, cancelled>>
  /\ att' = [att EXCEPT ![a] =
       IF S # {} THEN [pc |-> "arming", uuid |-> g, todo |-> Pushes(S), left |-> RpcMax]
                 ELSE [pc |-> "abandoning", uuid |-> g, todo |-> {}, left |-> 0]]
  /\ UNCHANGED <<known, stale, inc, armed, pushing, ended, freed, exposed>>

\* The planner refuses the request before the claim, or the claim is refused;
\* AbandonClaim follows and finds no claim, or another owner's.
ClaimRefused(a, g, U) ==
  /\ att[a].pc = "idle"
  /\ U # {} /\ U \subseteq known
  /\ att' = [att EXCEPT ![a] = [pc |-> "abandoning", uuid |-> g, todo |-> {}, left |-> 0]]
  /\ UNCHANGED <<known, stale, inc, regVars, armed, pushing, ended, freed, exposed>>

\* AbandonClaim by its owner; no purge.  The votes stay.
AbandonClaim(a) ==
  /\ att[a].pc = "abandoning"
  /\ LET g == att[a].uuid
     IN  claim' = IF claim[g] # None /\ claim[g].owner = a
                    THEN [claim EXCEPT ![g] = None] ELSE claim
  /\ att' = [att EXCEPT ![a] = [Idle EXCEPT !.pc = "ended"]]
  /\ UNCHANGED <<known, stale, inc, rows, votes, cancelled, armed, pushing, ended,
                 freed, exposed>>

\* The receiver's answer to the arm RPC: PoolReshardRegisterRecv refuses a
\* uuid that is active.  answered = FALSE: the receiver is armed, its answer
\* is lost or late, and the coordinator takes the RPC for failed.
Arm(a, answered) ==
  LET g == att[a].uuid IN
  /\ att[a].pc = "arming"
  /\ armed[g] = None
  /\ armed' = [armed EXCEPT ![g] = [by |-> a, left |-> TransferMax]]
  /\ att' = [att EXCEPT ![a] =
       IF answered THEN [@ EXCEPT !.pc = "dispatching", !.left = RpcMax]
                   ELSE [@ EXCEPT !.pc = "abandoning", !.todo = {}, !.left = 0]]
  /\ UNCHANGED <<known, stale, inc, regVars, pushing, ended, freed, exposed>>

\* The arm RPC is not delivered, or refused.
ArmFails(a) ==
  /\ att[a].pc = "arming"
  /\ att' = [att EXCEPT ![a].pc = "abandoning", ![a].todo = {}, ![a].left = 0]
  /\ UNCHANGED <<known, stale, inc, regVars, armed, pushing, ended, freed, exposed>>

\* A sender's START_TRANSFER reaches its worker: PoolReshardPush starts the
\* send, unless the uuid is active there.  The senders are dispatched by
\* threads of their own, in any order.
Dispatch(a, s) ==
  LET g == att[a].uuid IN
  /\ att[a].pc = "dispatching"
  /\ s \in att[a].todo
  /\ att' = [att EXCEPT ![a].todo = @ \ {s}]
  /\ pushing' = IF \E p \in pushing : p.unit = s[1] /\ p.uuid = g
                  THEN pushing
                  ELSE pushing \cup {[unit |-> s[1], uuid |-> g, by |-> a,
                                      inc |-> s[2], left |-> TransferMax]}
  /\ UNCHANGED <<known, stale, inc, regVars, armed, ended, freed, exposed>>

\* The RPC to a sender fails before the worker acts.  The claim stays.
DispatchFails(a, s) ==
  /\ att[a].pc = "dispatching"
  /\ s \in att[a].todo
  /\ att' = [att EXCEPT ![a].todo = @ \ {s}]
  /\ UNCHANGED <<known, stale, inc, regVars, armed, pushing, ended, freed, exposed>>

\* All the dispatch threads are joined and the call returns.
Joined(a) ==
  /\ att[a].pc = "dispatching"
  /\ att[a].todo = {}
  /\ att' = [att EXCEPT ![a] = [Idle EXCEPT !.pc = "ended"]]
  /\ UNCHANGED <<known, stale, inc, regVars, armed, pushing, ended, freed, exposed>>

-----------------------------------------------------------------------------
(* The workers' managers and time.                                         *)

\* A send finishes, fails, or is given up at its deadline.
SendEnds(p) ==
  /\ p \in pushing
  /\ pushing' = pushing \ {p}
  /\ ended' = ended \cup {<<p.unit, p.uuid>>}
  /\ UNCHANGED <<known, stale, inc, regVars, att, armed, freed, exposed>>

\* The receiver completes, fails, or is given up at its deadline.
RecvEnds(g) ==
  /\ armed[g] # None
  /\ armed' = [armed EXCEPT ![g] = None]
  /\ UNCHANGED <<known, stale, inc, regVars, att, pushing, ended, freed, exposed>>

Down(n) == IF n = 0 THEN 0 ELSE n - 1
Older(f) == [x \in DOMAIN f |-> IF f[x] = None THEN None ELSE [f[x] EXCEPT !.left = @ - 1]]

\* The records of a map one tick later, without those that have expired.
Aged(f) == [x \in DOMAIN f |-> IF f[x] = None \/ f[x].left = 1 THEN None
                               ELSE [f[x] EXCEPT !.left = @ - 1]]

\* The generations whose claim was sized for RPCs that take RpcMax, while one
\* of them takes longer.
Overdue ==
  {att[a].uuid : a \in {b \in Attempt : att[b].pc \in {"arming", "dispatching"} /\ att[b].left = 0}}

\* One tick.  A send or a receive is over within TransferMax.  An RPC is not
\* bounded: the framed transport applies kWorkerRpcTimeout to each connect,
\* send and receive by itself, and calls over the controller's channels have
\* no deadline.
Tick ==
  /\ \A p \in pushing : p.left > 0
  /\ \A g \in Uuid : armed[g] # None => armed[g].left > 0
  /\ rows' = Aged(rows)
  /\ claim' = Aged(claim)
  /\ votes' = Aged(votes)
  /\ cancelled' = Aged(cancelled)
  /\ att' = [a \in Attempt |-> [att[a] EXCEPT !.left = Down(@)]]
  /\ armed' = Older(armed)
  /\ pushing' = {[p EXCEPT !.left = @ - 1] : p \in pushing}
  /\ exposed' = exposed \cup Overdue
  /\ UNCHANGED <<known, stale, inc, ended, freed>>

Next ==
  \/ \E u \in Unit : Restart(u) \/ RegisterWorkUnit(u)
  \/ \E u \in Unit, g \in Uuid, e \in BOOLEAN : Register(u, g, e)
  \/ \E u \in Unit, g \in Uuid : Complete(u, g)
  \/ \E g \in Uuid : Release(g) \/ CancelIfUnclaimed(g) \/ RecvEnds(g)
  \/ \E a \in Attempt, g \in Uuid, U \in SUBSET Unit :
       \/ \E S \in SUBSET U : LookupAndClaim(a, g, U, S)
       \/ ClaimRefused(a, g, U)
  \/ \E a \in Attempt : \/ AbandonClaim(a) \/ ArmFails(a) \/ Joined(a)
                        \/ \E answered \in BOOLEAN : Arm(a, answered)
                        \/ \E s \in att[a].todo : Dispatch(a, s) \/ DispatchFails(a, s)
  \/ \E p \in pushing : SendEnds(p)
  \/ Tick

Spec == Init /\ [][Next]_vars

-----------------------------------------------------------------------------
(* Properties.                                                             *)

\* Units a live attempt will still ask, or has asked, to push generation g.
Live(a, g) ==
  {p.unit : p \in {q \in pushing : q.by = a /\ q.uuid = g}} \cup
  (IF att[a].uuid = g THEN {s[1] : s \in att[a].todo} ELSE {})

\* A producer reuses its blocks when its cancel is answered true or after its
\* vote.  No unit is then pushing them, or about to be asked to, however the
\* cancel, the votes, the claim's expiry, lost arm answers and failed
\* dispatches are interleaved; a forced release, or an RPC that takes longer
\* than kWorkerRpcTimeout, gives this up for its generation.
SourceBlocksHeld ==
  \A a \in Attempt, g \in Uuid \ exposed, u \in Unit :
    u \in Live(a, g) => <<u, g>> \notin freed

\* Two planning attempts never push one generation at the same time: a
\* second claim is possible only once nothing of the first is left.
OneAttemptPushes ==
  \A a, b \in Attempt, g \in Uuid \ exposed :
    a # b => Live(a, g) = {} \/ Live(b, g) = {}

\* The claim lives as long as anything is pushed under it.
ClaimCoversPushes ==
  \A a \in Attempt, g \in Uuid \ exposed :
    Live(a, g) # {} => claim[g] # None /\ claim[g].owner = a

\* A vote that counts towards a live claim does not expire before the claim,
\* so the last voter always retires the generation.
VotesOutliveClaim ==
  \A g \in Uuid : claim[g] # None /\ votes[g] # None => votes[g].left >= claim[g].left

\* A row holds block ids of the process that registered last: the ids of a
\* dead process go with its successor's registration.
RowsFresh == \A u \in Unit \ stale : rows[u] # None => rows[u].inc = inc[u]

-----------------------------------------------------------------------------
(* The inductive invariant of the proofs.                                  *)

\* What an attempt knows of itself, and the deadlines under a live claim.
AttemptInv ==
  \A a \in Attempt :
    /\ att[a].pc \in {"arming", "dispatching", "abandoning"} => att[a].uuid \in Uuid
    /\ att[a].pc \notin {"arming", "dispatching"} => att[a].todo = {}
    /\ \A s, t \in att[a].todo : s[1] = t[1] => s = t

\* No unit is asked twice: neither while it pushes nor by two sends.
SendsInv ==
  /\ \A p \in pushing, a \in Attempt : \A s \in att[a].todo :
       p.by = a /\ p.uuid = att[a].uuid => p.unit # s[1]
  /\ \A p, q \in pushing : p.unit = q.unit /\ p.uuid = q.uuid => p = q

\* Unit u, still to push generation g for attempt a, is covered by a's claim
\* and has not finished, voted or been given up.
Covered(a, u, g) ==
  /\ claim[g] # None
  /\ claim[g].owner = a
  /\ u \in claim[g].units
  /\ <<u, g>> \notin ended
  /\ <<u, g>> \notin freed
  /\ rows[u] # None /\ rows[u].uuid = g => ~rows[u].empty

TodoInv ==
  \A a \in Attempt : \A s \in att[a].todo :
    att[a].uuid \notin exposed =>
      /\ Covered(a, s[1], att[a].uuid)
      /\ att[a].pc = "arming" => claim[att[a].uuid].left > att[a].left + RpcMax + TransferMax
      /\ att[a].pc = "dispatching" => claim[att[a].uuid].left > att[a].left + TransferMax

PushCovered(p) ==
  /\ att[p.by].pc \in {"dispatching", "ended"}
  /\ p.uuid \notin exposed => Covered(p.by, p.unit, p.uuid) /\ claim[p.uuid].left > p.left

PushInv == \A p \in pushing : PushCovered(p)

\* Votes are of units whose part is over.  A row that still holds blocks of
\* such a unit is under a claim that outlives it and is never abandoned.
RowsInv ==
  /\ \A g \in Uuid : votes[g] # None => \A u \in votes[g].units : <<u, g>> \in ended
  /\ \A u \in Unit : rows[u] # None /\ ~rows[u].empty /\ rows[u].uuid \notin exposed =>
       LET g == rows[u].uuid IN
       /\ <<u, g>> \in freed => <<u, g>> \in ended
       /\ <<u, g>> \in ended => /\ claim[g] # None
                                /\ att[claim[g].owner].pc \in {"dispatching", "ended"}
  /\ \A u \in Unit : rows[u] # None /\ claim[rows[u].uuid] # None =>
       rows[u].left <= claim[rows[u].uuid].left

\* A tombstone and a claim or a row of one generation exclude each other.
TombstoneInv ==
  \A g \in Uuid : cancelled[g] # None =>
    /\ claim[g] = None
    /\ \A u \in Unit : rows[u] # None => rows[u].uuid # g

IInv == TypeOK /\ AttemptInv /\ SendsInv /\ TodoInv /\ PushInv /\ RowsInv /\ TombstoneInv
        /\ VotesOutliveClaim
=============================================================================
