----------------------------- MODULE ReadLease -----------------------------
(***************************************************************************)
(* The read-lease protocol between two controllers: a destination pulls a  *)
(* host block of a source that must stay pinned while it is being read.    *)
(*                                                                         *)
(* Source, RaidenControllerServiceImpl: Acquire validates the hash and     *)
(* pins it, and records a live lease; Release and the TTL sweeper each try *)
(* to take the lease out of the live state, and whichever does so owes the *)
(* unpin, which it performs after leaving the mutex.  The record is kept   *)
(* for a retention period, so that a late Release is told what happened.   *)
(*                                                                         *)
(* Destination, RaidenController::ReadRemote: acquire, pull, release, and  *)
(* a verdict that decides whether the bytes may be committed.  A detached  *)
(* thread fails the read at its deadline.  Both race to Settle the read.   *)
(*                                                                         *)
(* All reads are of one block hash, so that they share its pin count: that *)
(* is where a lease unpinned twice would take away another reader's pin.   *)
(***************************************************************************)
EXTENDS Integers, FiniteSets

CONSTANTS
    Read,       \* the reads; a read has at most one lease, named after it
    Ttl,        \* DefaultLeaseTtl, which the destination asks for
    MinTtl,     \* MinLeaseTtl
    MaxTtl,     \* MaxLeaseTtl
    Deadline,   \* RemoteReadDeadline
    Retention,  \* RevokedLeaseRetention
    LastStart,  \* bound: no read starts after this time
    LastServe,  \* bound: no Acquire is served, and no lease renewed, after it
    MaxTime     \* bound on the clock

\* Nothing is assumed of their order: CheckTimingTripleOnce logs an error unless
\* retention > deadline > ttl, and the process goes on.
ASSUME TimesAssumption ==
    {Ttl, MinTtl, MaxTtl, Deadline, Retention, LastStart, LastServe, MaxTime} \subseteq Nat

ASSUME ReadFinite == IsFiniteSet(Read)

VARIABLES
    now,        \* the clock both sides read
    \* source
    lease,      \* a read's lease in read_leases_; "pinning": pinned, not recorded
    until,      \* its expiration while live, its retire_at afterwards
    pins,       \* the pin count of the hash
    owed,       \* Unpin calls decided under the mutex and not yet made
    restarts,   \* the source has lost its records (at most once)
    \* network
    acquire,    \* the Acquire call of a read
    releases,   \* Release requests in flight, by the path that sent them
    verdict,    \* the answer to the commit path's Release
    \* destination
    ctrl,       \* lifetime->ctrl is not null
    phase,      \* where the chain of callbacks of a read stands
    began,      \* when it started
    timer,      \* its deadline thread
    leaseId,    \* state->lease_id is not 0
    settled,    \* the outcome its promise was given
    \* history
    reused,     \* the source block was given to other bytes since the grant
    bytes       \* what a finished pull left at the destination

source == <<lease, until, pins, owed, restarts>>
network == <<acquire, releases, verdict>>
dest == <<ctrl, phase, began, timer, leaseId, settled>>
history == <<reused, bytes>>
lvars == <<now, source, network, dest, history>>

Sender == {"commit", "deadline", "cancel"}
Recorded == {"live", "released", "revoked"}

\* Every variable keeps its type.
LeaseTypeOK ==
    /\ now \in 0 .. MaxTime
    /\ lease \in [Read -> {"none", "pinning", "erased"} \cup Recorded]
    /\ until \in [Read -> Nat]
    /\ pins \in Nat
    /\ owed \in Nat
    /\ restarts \in BOOLEAN
    /\ acquire \in [Read -> {"none", "sent", "granted", "refused"}]
    /\ releases \in [Read -> SUBSET Sender]
    /\ verdict \in [Read -> {"none", "held", "revoked", "unknown", "error"}]
    /\ ctrl \in BOOLEAN
    /\ phase \in [Read -> {"idle", "acquire", "pull", "commit", "done"}]
    /\ began \in [Read -> Nat]
    /\ timer \in [Read -> {"off", "armed", "expired", "sent", "done"}]
    /\ leaseId \in [Read -> BOOLEAN]
    /\ settled \in [Read -> {"none", "ok", "failed"}]
    /\ reused \in [Read -> BOOLEAN]
    /\ bytes \in [Read -> {"none", "intact", "torn"}]

LeaseInit ==
    /\ now = 0
    /\ lease = [r \in Read |-> "none"]
    /\ until = [r \in Read |-> 0]
    /\ pins = 0
    /\ owed = 0
    /\ restarts = FALSE
    /\ acquire = [r \in Read |-> "none"]
    /\ releases = [r \in Read |-> {}]
    /\ verdict = [r \in Read |-> "none"]
    /\ ctrl = TRUE
    /\ phase = [r \in Read |-> "idle"]
    /\ began = [r \in Read |-> 0]
    /\ timer = [r \in Read |-> "off"]
    /\ leaseId = [r \in Read |-> FALSE]
    /\ settled = [r \in Read |-> "none"]
    /\ reused = [r \in Read |-> FALSE]
    /\ bytes = [r \in Read |-> "none"]

-----------------------------------------------------------------------------
(* Source. *)

\* The time to live the source grants: what the call asks for, clamped.
LeaseTtl ==
    LET asked == IF Ttl < MaxTtl THEN Ttl ELSE MaxTtl
    IN  IF MinTtl > asked THEN MinTtl ELSE asked

\* AcquireReadLease up to the pin: the hook finds the hash resident and pins
\* it, or the call is refused.
AcquirePin(r) ==
    /\ acquire[r] = "sent" /\ lease[r] = "none"
    /\ now <= LastServe
    /\ \/ /\ lease' = [lease EXCEPT ![r] = "pinning"]
          /\ pins' = pins + 1
          /\ UNCHANGED acquire
       \/ /\ acquire' = [acquire EXCEPT ![r] = "refused"]
          /\ UNCHANGED <<lease, pins>>
    /\ UNCHANGED <<now, until, owed, restarts, releases, verdict, dest, history>>

\* Fault: the lease is recorded without an expiration the sweeper can reach.
AcquireRecordForever(r) ==
    /\ lease[r] = "pinning"
    /\ lease' = [lease EXCEPT ![r] = "live"]
    /\ until' = [until EXCEPT ![r] = MaxTime + 1]
    /\ acquire' = [acquire EXCEPT ![r] = "granted"]
    /\ UNCHANGED <<now, pins, owed, restarts, releases, verdict, dest, history>>

\* AcquireReadLease after the pin: the lease is recorded and the call answered.
AcquireRecord(r) ==
    /\ lease[r] = "pinning"
    /\ lease' = [lease EXCEPT ![r] = "live"]
    /\ until' = [until EXCEPT ![r] = now + LeaseTtl]
    /\ acquire' = [acquire EXCEPT ![r] = "granted"]
    /\ UNCHANGED <<now, pins, owed, restarts, releases, verdict, dest, history>>

\* RenewReadLease extends a live lease; a retired one is only reported on.
RenewReadLease(r) ==
    /\ lease[r] = "live" /\ phase[r] = "pull"
    /\ now <= LastServe
    /\ until' = [until EXCEPT ![r] = now + LeaseTtl]
    /\ UNCHANGED <<now, lease, pins, owed, restarts, network, dest, history>>

\* retire_at of a lease that leaves the live state now.
RetireAt == now + Retention

\* TransitionOutOfLive, by a Release; the caller owes the unpin.
TransitionOutOfLive(r) ==
    /\ lease' = [lease EXCEPT ![r] = "released"]
    /\ until' = [until EXCEPT ![r] = RetireAt]
    /\ owed' = owed + 1

\* The verdict ReleaseReadLease reads from the record.
VerdictOf(r) ==
    IF lease[r] \notin Recorded THEN "unknown"
    ELSE IF lease[r] = "revoked" THEN "revoked" ELSE "held"

\* Fault: a lease the sweeper revoked is reported as held, and unpinned again.
ReleaseRevokedToo(r, from) ==
    /\ from \in releases[r]
    /\ releases' = [releases EXCEPT ![r] = @ \ {from}]
    /\ IF lease[r] \in Recorded
       THEN TransitionOutOfLive(r)
       ELSE UNCHANGED <<lease, until, owed>>
    /\ verdict' = IF from = "commit"
                  THEN [verdict EXCEPT ![r] = IF lease[r] \in Recorded
                                              THEN "held" ELSE "unknown"]
                  ELSE verdict
    /\ UNCHANGED <<now, pins, restarts, acquire, dest, history>>

\* ReleaseReadLease: the first to leave the live state owes the unpin, a
\* repeated Release only reads the verdict.
ReleaseReadLease(r, from) ==
    /\ from \in releases[r]
    /\ releases' = [releases EXCEPT ![r] = @ \ {from}]
    /\ IF lease[r] = "live"
       THEN TransitionOutOfLive(r)
       ELSE UNCHANGED <<lease, until, owed>>
    /\ verdict' = IF from = "commit"
                  THEN [verdict EXCEPT ![r] = VerdictOf(r)] ELSE verdict
    /\ UNCHANGED <<now, pins, restarts, acquire, dest, history>>

Expired == {r \in Read : lease[r] = "live" /\ until[r] <= now}
Retired == {r \in Read : lease[r] \in {"released", "revoked"} /\ until[r] <= now}

\* RunSweepOnce: expired leases are revoked, retired records erased.
RunSweepOnce ==
    /\ Expired \cup Retired # {}
    /\ lease' = [r \in Read |-> IF r \in Expired THEN "revoked"
                                ELSE IF r \in Retired THEN "erased" ELSE lease[r]]
    /\ until' = [r \in Read |-> IF r \in Expired THEN RetireAt ELSE until[r]]
    /\ owed' = owed + Cardinality(Expired)
    /\ UNCHANGED <<now, pins, restarts, network, dest, history>>

\* The unpin hook, called outside the mutex by whoever took a lease out of
\* the live state.
Unpin ==
    /\ owed > 0
    /\ owed' = owed - 1
    /\ pins' = IF pins > 0 THEN pins - 1 ELSE pins
    /\ UNCHANGED <<now, lease, until, restarts, network, dest, history>>

\* An unpinned entry is evicted and its host block filled with other bytes:
\* every read that was granted the block reads them from now on.
Reuse ==
    /\ pins = 0
    /\ \E r \in Read : lease[r] # "none" /\ ~reused[r]
    /\ reused' = [r \in Read |-> reused[r] \/ lease[r] # "none"]
    /\ UNCHANGED <<now, source, network, dest, bytes>>

\* The source process restarts: no record and no pin survives, and the calls
\* it was serving fail.
Restart ==
    /\ ~restarts
    /\ restarts' = TRUE
    /\ lease' = [r \in Read |-> IF lease[r] = "none" THEN "none" ELSE "erased"]
    /\ pins' = 0
    /\ owed' = 0
    /\ acquire' = [r \in Read |-> IF acquire[r] = "sent" THEN "refused"
                                  ELSE acquire[r]]
    /\ UNCHANGED <<now, until, releases, verdict, dest, history>>

-----------------------------------------------------------------------------
(* Destination. *)

\* RemoteReadState::Settle: the first outcome wins.
Settle(r, how) ==
    settled' = [settled EXCEPT ![r] = IF @ = "none" THEN how ELSE @]

\* When the deadline thread of a read wakes up.
DeadlineAt(r) == began[r] + Deadline

\* ReadRemote: the Acquire call is sent and the deadline thread started.
ReadRemote(r) ==
    /\ phase[r] = "idle" /\ ctrl
    /\ now <= LastStart
    /\ phase' = [phase EXCEPT ![r] = "acquire"]
    /\ began' = [began EXCEPT ![r] = now]
    /\ timer' = [timer EXCEPT ![r] = "armed"]
    /\ acquire' = [acquire EXCEPT ![r] = "sent"]
    /\ UNCHANGED <<now, source, releases, verdict, ctrl, leaseId, settled, history>>

\* The Acquire call fails, at the source or on the way; the source may still
\* be serving it, or have granted it.
AcquireFailed(r) ==
    /\ phase[r] = "acquire"
    /\ phase' = [phase EXCEPT ![r] = "done"]
    /\ Settle(r, "failed")
    /\ UNCHANGED <<now, source, network, ctrl, began, timer, leaseId, history>>

\* The Acquire call is granted.  The callback pulls, whether or not the
\* deadline has settled the read; without a controller it gives the lease
\* back and cancels the read.
AcquireGranted(r) ==
    /\ phase[r] = "acquire" /\ acquire[r] = "granted"
    /\ leaseId' = [leaseId EXCEPT ![r] = TRUE]
    /\ IF ctrl
       THEN /\ phase' = [phase EXCEPT ![r] = "pull"]
            /\ UNCHANGED <<releases, settled>>
       ELSE /\ phase' = [phase EXCEPT ![r] = "done"]
            /\ releases' = [releases EXCEPT ![r] = @ \cup {"cancel"}]
            /\ Settle(r, "failed")
    /\ UNCHANGED <<now, source, acquire, verdict, ctrl, began, timer, history>>

\* The pull ends; the Release is sent whether or not it succeeded.
PullDone(r) ==
    /\ phase[r] = "pull"
    /\ phase' = [phase EXCEPT ![r] = "commit"]
    /\ bytes' \in {[bytes EXCEPT ![r] = b] :
                     b \in {"none", IF reused[r] THEN "torn" ELSE "intact"}}
    /\ releases' = [releases EXCEPT ![r] = @ \cup {"commit"}]
    /\ UNCHANGED <<now, source, acquire, verdict, ctrl, began, timer, leaseId,
                   settled, reused>>

\* A Release request is lost; only the commit path waits for the answer.
ReleaseLost(r, from) ==
    /\ from \in releases[r]
    /\ releases' = [releases EXCEPT ![r] = @ \ {from}]
    /\ verdict' = IF from = "commit" THEN [verdict EXCEPT ![r] = "error"] ELSE verdict
    /\ UNCHANGED <<now, source, acquire, dest, history>>

\* Fault: a verdict that never came is taken for a good one.
CommitTrusting(r) ==
    /\ phase[r] = "commit" /\ verdict[r] # "none"
    /\ phase' = [phase EXCEPT ![r] = "done"]
    /\ \E seen \in {verdict[r], "error"} :
          Settle(r, IF bytes[r] # "none" /\ seen \in {"held", "error"}
                    THEN "ok" ELSE "failed")
    /\ UNCHANGED <<now, source, network, ctrl, began, timer, leaseId, history>>

\* The callback of the commit path's Release: the answer may itself be lost.
\* Only a successful transfer with the verdict "held" is committed.
Commit(r) ==
    /\ phase[r] = "commit" /\ verdict[r] # "none"
    /\ phase' = [phase EXCEPT ![r] = "done"]
    /\ \E seen \in {verdict[r], "error"} :
          Settle(r, IF bytes[r] # "none" /\ seen = "held" THEN "ok" ELSE "failed")
    /\ UNCHANGED <<now, source, network, ctrl, began, timer, leaseId, history>>

\* The deadline thread wakes up and reads `settled`.
DeadlineWakes(r) ==
    /\ timer[r] = "armed" /\ now >= DeadlineAt(r)
    /\ timer' = [timer EXCEPT ![r] = IF settled[r] = "none" THEN "expired" ELSE "done"]
    /\ UNCHANGED <<now, source, network, ctrl, phase, began, leaseId, settled, history>>

\* It sends a Release of its own if it sees a lease id.  It reads the id
\* without the mutex, so it may miss one that was written.
DeadlineReleases(r) ==
    /\ timer[r] = "expired"
    /\ timer' = [timer EXCEPT ![r] = "sent"]
    /\ \/ /\ leaseId[r]
          /\ releases' = [releases EXCEPT ![r] = @ \cup {"deadline"}]
       \/ UNCHANGED releases
    /\ UNCHANGED <<now, source, acquire, verdict, ctrl, phase, began, leaseId,
                   settled, history>>

\* It fails the read, unless the commit path was faster.
DeadlineSettles(r) ==
    /\ timer[r] = "sent"
    /\ timer' = [timer EXCEPT ![r] = "done"]
    /\ Settle(r, "failed")
    /\ UNCHANGED <<now, source, network, ctrl, phase, began, leaseId, history>>

\* Cleanup of the destination controller: later callbacks find no controller.
Cleanup ==
    /\ ctrl
    /\ ctrl' = FALSE
    /\ UNCHANGED <<now, source, network, phase, began, timer, leaseId, settled, history>>

-----------------------------------------------------------------------------

\* Time passes.  By LastServe a handler that pinned has recorded its lease.
Tick ==
    /\ now < MaxTime
    /\ now < LastServe \/ \A r \in Read : lease[r] # "pinning"
    /\ now' = now + 1
    /\ UNCHANGED <<source, network, dest, history>>

ReadStep(r) ==
    \/ AcquirePin(r) \/ AcquireRecord(r) \/ RenewReadLease(r)
    \/ ReadRemote(r) \/ AcquireFailed(r) \/ AcquireGranted(r)
    \/ PullDone(r) \/ Commit(r)
    \/ DeadlineWakes(r) \/ DeadlineReleases(r) \/ DeadlineSettles(r)
    \/ \E from \in Sender : ReleaseReadLease(r, from) \/ ReleaseLost(r, from)

LeaseNext ==
    \/ \E r \in Read : ReadStep(r)
    \/ RunSweepOnce \/ Unpin \/ Reuse \/ Restart \/ Cleanup \/ Tick

LeaseSpec == LeaseInit /\ [][LeaseNext]_lvars

\* Threads of both processes run: time passes, the sweeper wakes, an unpin
\* that is owed is made, a handler that pinned records its lease, and the
\* deadline thread runs.  Nothing is assumed of the network or of the pull.
Fairness ==
    /\ WF_lvars(Tick)
    /\ WF_lvars(RunSweepOnce)
    /\ WF_lvars(Unpin)
    /\ \A r \in Read :
          /\ WF_lvars(AcquireRecord(r))
          /\ WF_lvars(DeadlineWakes(r))
          /\ WF_lvars(DeadlineReleases(r))
          /\ WF_lvars(DeadlineSettles(r))

FairSpec == LeaseSpec /\ Fairness

-----------------------------------------------------------------------------
(* Properties. *)

\* The pin count is exactly the leases not yet retired plus the unpins still
\* owed: Release, the sweeper and the restart never unpin a lease twice, so
\* none takes the pin of another read, and none leaks.
PinAccounting ==
    pins = Cardinality({r \in Read : lease[r] \in {"pinning", "live"}}) + owed

\* A read that succeeded committed the bytes of the block it leased, whatever
\* the order of releases, expiries, restarts and reuse, as long as its own
\* deadline thread did not give the lease back first.
CommittedReadIntact ==
    \A r \in Read :
        settled[r] = "ok" /\ timer[r] \notin {"sent", "done"} => bytes[r] = "intact"

\* The pins taken for a lease come back, even if the destination is gone.
PinsComeBack == (pins > 0) ~> (pins = 0)
=============================================================================
