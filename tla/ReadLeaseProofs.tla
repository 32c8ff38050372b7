--------------------------- MODULE ReadLeaseProofs ---------------------------
(***************************************************************************)
(* Proofs about the read leases, for any number of reads and any timing,   *)
(* coherent or not: no lease is unpinned twice, and what a read commits    *)
(* are the bytes it leased.                                                *)
(***************************************************************************)
EXTENDS ReadLease, FiniteSetTheorems, TLAPS

\* The leases that still have their pin.
Held == {r \in Read : lease[r] \in {"pinning", "live"}}

\* What the parties of one read know of each other.  A block is not reused under its
\* lease, and whoever released the lease left a trace: the commit path its verdict,
\* the deadline thread its state, a cancelled read its outcome.  So a verdict "held"
\* without the deadline thread comes from a lease that was live, over a block that the
\* pull has read intact.
LeaseInv(r) ==
  /\ lease[r] \in {"none", "pinning", "live"} => ~reused[r]
  /\ lease[r] = "released" => \/ timer[r] \in {"sent", "done"} \/ verdict[r] # "none"
                              \/ phase[r] = "done" /\ settled[r] = "failed"
  /\ timer[r] \in {"off", "armed", "expired"} => "deadline" \notin releases[r]
  /\ "cancel" \in releases[r] => phase[r] = "done" /\ settled[r] = "failed"
  /\ "commit" \in releases[r] => phase[r] = "commit" /\ verdict[r] = "none"
  /\ verdict[r] # "none" => phase[r] \in {"commit", "done"}
  /\ settled[r] = "ok" => phase[r] = "done"
  /\ phase[r] = "idle" => timer[r] = "off"
  /\ bytes[r] = "torn" => reused[r]
  /\ verdict[r] = "held" /\ timer[r] \notin {"sent", "done"} => bytes[r] # "torn"
  /\ settled[r] = "ok" /\ timer[r] \notin {"sent", "done"} => bytes[r] = "intact"

IInv == LeaseTypeOK /\ PinAccounting /\ \A r \in Read : LeaseInv(r)

\* The other reads are left alone.
Same(q) == /\ lease'[q] = lease[q] /\ reused'[q] = reused[q] /\ timer'[q] = timer[q]
           /\ verdict'[q] = verdict[q] /\ phase'[q] = phase[q] /\ settled'[q] = settled[q]
           /\ releases'[q] = releases[q] /\ bytes'[q] = bytes[q]

LEMMA SameInv == ASSUME NEW q \in Read, LeaseInv(q), Same(q) PROVE LeaseInv(q)'
BY Zenon DEF LeaseInv, Same

LEMMA Times == /\ Ttl \in Nat /\ Deadline \in Nat /\ Retention \in Nat /\ LastStart \in Nat
               /\ LastServe \in Nat /\ MaxTime \in Nat /\ 0 \in Nat /\ LeaseTtl \in Nat
BY Zenon, TimesAssumption DEF LeaseTtl

LEMMA PinCount == /\ PinAccounting <=> pins = Cardinality(Held) + owed
                  /\ PinAccounting' <=> pins' = Cardinality(Held') + owed'
BY Zenon DEF PinAccounting, Held

LEMMA InitHolds == LeaseInit => IInv
<1> SUFFICES ASSUME LeaseInit PROVE IInv
  OBVIOUS
<1>1. LeaseTypeOK
  <2>1. now \in 0 .. MaxTime
    BY Times DEF LeaseInit
  <2> QED BY Zenon, <2>1, Times DEF LeaseInit, LeaseTypeOK
<1>2. Held = {}
  BY Zenon DEF LeaseInit, Held
<1>3. PinAccounting
  BY <1>2, FS_EmptySet, PinCount DEF LeaseInit
<1>4. ASSUME NEW r \in Read PROVE LeaseInv(r)
  BY Zenon, <1>4 DEF LeaseInit, LeaseInv
<1> QED BY Zenon, <1>1, <1>3, <1>4 DEF IInv

-----------------------------------------------------------------------------
(* Types *)

LEMMA TypeStep == ASSUME LeaseTypeOK, NEW r \in Read, ReadStep(r) PROVE LeaseTypeOK'
<1>1. CASE AcquirePin(r)
  BY Times, <1>1 DEF AcquirePin, LeaseTypeOK, Recorded, Sender, source, network, dest, history
<1>2. CASE AcquireRecord(r)
  BY Times, <1>2 DEF AcquireRecord, LeaseTypeOK, Recorded, Sender, source, network, dest, history
<1>3. CASE RenewReadLease(r)
  BY Times, <1>3 DEF RenewReadLease, LeaseTypeOK, Recorded, Sender, source, network, dest, history
<1>4. CASE ReadRemote(r)
  BY Times, <1>4 DEF ReadRemote, LeaseTypeOK, Recorded, Sender, source, network, dest, history
<1>5. CASE AcquireFailed(r)
  BY Zenon, Times, <1>5 DEF AcquireFailed, Settle, LeaseTypeOK, Recorded, Sender, source, network, dest,
     history
<1>6. CASE AcquireGranted(r)
  BY Times, <1>6 DEF AcquireGranted, Settle, LeaseTypeOK, Recorded, Sender, source, network, dest,
     history
<1>7. CASE PullDone(r)
  BY Times, <1>7 DEF PullDone, LeaseTypeOK, Recorded, Sender, source, network, dest, history
<1>8. CASE Commit(r)
  BY Times, <1>8 DEF Commit, Settle, LeaseTypeOK, Recorded, Sender, source, network, dest, history
<1>9. CASE DeadlineWakes(r)
  BY Zenon, Times, <1>9 DEF DeadlineWakes, LeaseTypeOK, Recorded, Sender, source, network, dest, history
<1>10. CASE DeadlineReleases(r)
  BY Times, <1>10 DEF DeadlineReleases, LeaseTypeOK, Recorded, Sender, source, network, dest, history
<1>11. CASE DeadlineSettles(r)
  BY Zenon, Times, <1>11 DEF DeadlineSettles, Settle, LeaseTypeOK, Recorded, Sender, source, network, dest,
     history
<1>12. ASSUME NEW from \in Sender, ReleaseReadLease(r, from) PROVE LeaseTypeOK'
  BY Times, <1>12 DEF ReleaseReadLease, TransitionOutOfLive, VerdictOf, RetireAt, Recorded,
     LeaseTypeOK, Sender, source, network, dest, history
<1>13. ASSUME NEW from \in Sender, ReleaseLost(r, from) PROVE LeaseTypeOK'
  BY Zenon, Times, <1>13 DEF ReleaseLost, LeaseTypeOK, Recorded, Sender, source, network, dest, history
<1> QED BY Zenon, <1>1, <1>2, <1>3, <1>4, <1>5, <1>6, <1>7, <1>8, <1>9, <1>10, <1>11, <1>12,
     <1>13 DEF ReadStep

-----------------------------------------------------------------------------
(* Pins *)

LEMMA HeldFinite == IsFiniteSet(Held) /\ Cardinality(Held) \in Nat
BY Zenon, ReadFinite, FS_Subset, FS_CardinalityType DEF Held

LEMMA SamePins == ASSUME PinAccounting, pins' = pins, owed' = owed,
                         \A r \in Read : (r \in Held)' <=> r \in Held
                  PROVE  PinAccounting'
<1>1. Held' = Held
  BY Zenon DEF Held
<1> QED BY Zenon, <1>1, PinCount

LEMMA ReadPins == ASSUME LeaseTypeOK, PinAccounting, NEW r \in Read, ReadStep(r) PROVE PinAccounting'
<1>1. CASE AcquirePin(r)
  <2>1. CASE UNCHANGED <<lease, pins>>
    BY Zenon, <1>1, <2>1, SamePins DEF AcquirePin, Held
  <2>2. CASE lease' = [lease EXCEPT ![r] = "pinning"] /\ pins' = pins + 1
    <3>1. r \notin Held /\ Held' = Held \cup {r}
      BY Zenon, <1>1, <2>2 DEF AcquirePin, Held, LeaseTypeOK
    <3>2. Cardinality(Held') = Cardinality(Held) + 1
      BY Zenon, <3>1, HeldFinite, FS_AddElement
    <3> QED BY <1>1, <2>2, <3>2, HeldFinite, PinCount DEF AcquirePin, LeaseTypeOK
  <2> QED BY Zenon, <1>1, <2>1, <2>2 DEF AcquirePin
<1>2. ASSUME NEW from \in Sender, ReleaseReadLease(r, from) PROVE PinAccounting'
  <2>1. CASE lease[r] # "live"
    BY Zenon, <1>2, <2>1, SamePins DEF ReleaseReadLease, Held
  <2>2. CASE lease[r] = "live"
    <3>1. /\ lease' = [lease EXCEPT ![r] = "released"]
          /\ owed' = owed + 1 /\ pins' = pins
      BY Zenon, <1>2, <2>2 DEF ReleaseReadLease, TransitionOutOfLive
    <3>2. r \in Held /\ Held' = Held \ {r}
      BY Zenon, <2>2, <3>1 DEF Held, LeaseTypeOK
    <3>3. Cardinality(Held') = Cardinality(Held) - 1
      BY Zenon, <3>2, HeldFinite, FS_RemoveElement
    <3> QED BY <3>1, <3>3, HeldFinite, PinCount DEF LeaseTypeOK
  <2> QED BY Zenon, <2>1, <2>2
<1>3. CASE AcquireRecord(r)
  BY Zenon, <1>3, SamePins DEF AcquireRecord, Held, LeaseTypeOK
<1>4. ASSUME NEW from \in Sender, ReleaseLost(r, from) PROVE PinAccounting'
  BY Zenon, <1>4, SamePins DEF ReleaseLost, Held, source
<1>5. CASE RenewReadLease(r) \/ ReadRemote(r) \/ AcquireFailed(r) \/ AcquireGranted(r) \/ PullDone(r)
  BY Zenon, <1>5, SamePins DEF RenewReadLease, ReadRemote, AcquireFailed, AcquireGranted,
     PullDone, Held, source
<1>6. CASE Commit(r) \/ DeadlineWakes(r) \/ DeadlineReleases(r) \/ DeadlineSettles(r)
  BY Zenon, <1>6, SamePins DEF Commit, DeadlineWakes, DeadlineReleases, DeadlineSettles, Held,
     source
<1> QED BY Zenon, <1>1, <1>2, <1>3, <1>4, <1>5, <1>6 DEF ReadStep

LEMMA SweepPins == ASSUME LeaseTypeOK, PinAccounting, RunSweepOnce PROVE PinAccounting'
<1>1. Expired \subseteq Held /\ Held' = Held \ Expired
  BY Zenon DEF RunSweepOnce, Held, Expired, Retired, LeaseTypeOK
<1>2. IsFiniteSet(Expired) /\ Cardinality(Expired) \in Nat /\ Held \cap Expired = Expired
  BY Zenon, <1>1, HeldFinite, FS_Subset, FS_CardinalityType
<1>3. Cardinality(Held \ Expired) = Cardinality(Held) - Cardinality(Held \cap Expired)
  BY Zenon, HeldFinite, FS_Difference
<1>4. Cardinality(Held') = Cardinality(Held) - Cardinality(Expired)
  BY Zenon, <1>1, <1>2, <1>3
<1> QED BY <1>2, <1>4, HeldFinite, PinCount DEF RunSweepOnce, LeaseTypeOK

LEMMA RestartPins == ASSUME LeaseTypeOK, Restart PROVE PinAccounting'
<1>1. Held' = {}
  BY Zenon DEF Restart, Held, LeaseTypeOK
<1> QED BY <1>1, FS_EmptySet, PinCount DEF Restart

LEMMA UnpinPins == ASSUME LeaseTypeOK, PinAccounting, Unpin PROVE PinAccounting' /\ LeaseTypeOK'
<1>1. Held' = Held
  BY Zenon DEF Unpin, Held
<1>2. pins \in Nat /\ owed \in Nat /\ owed > 0 /\ pins = Cardinality(Held) + owed
  BY Zenon, PinCount DEF LeaseTypeOK, Unpin
<1>3. /\ owed' = owed - 1 /\ pins' = pins - 1
  BY <1>2, HeldFinite DEF Unpin
<1>4. PinAccounting'
  BY <1>1, <1>2, <1>3, HeldFinite, PinCount
<1>5. pins' \in Nat /\ owed' \in Nat
  BY <1>2, <1>3, HeldFinite
<1> QED BY Zenon, <1>4, <1>5 DEF Unpin, LeaseTypeOK, network, dest, history

-----------------------------------------------------------------------------
(* One read *)

LEMMA ReadOrder == ASSUME LeaseTypeOK, NEW r \in Read, LeaseInv(r), ReadStep(r)
                PROVE  LeaseInv(r)' /\ \A q \in Read \ {r} : Same(q)
<1>1. CASE AcquirePin(r)
  <2>1. \A q \in Read \ {r} : Same(q)
    BY Zenon, <1>1 DEF AcquirePin, Same, LeaseTypeOK, source, network, dest, history
  <2>2. LeaseInv(r)'
    BY Zenon, <1>1 DEF AcquirePin, LeaseInv, LeaseTypeOK, Recorded, Sender, source, network, dest, history
  <2> QED BY Zenon, <2>1, <2>2
<1>2. CASE AcquireRecord(r)
  <2>1. \A q \in Read \ {r} : Same(q)
    BY Zenon, <1>2 DEF AcquireRecord, Same, LeaseTypeOK, source, network, dest, history
  <2>2. LeaseInv(r)'
    BY Zenon, <1>2 DEF AcquireRecord, LeaseInv, LeaseTypeOK, Recorded, Sender, source, network, dest,
       history
  <2> QED BY Zenon, <2>1, <2>2
<1>3. CASE RenewReadLease(r)
  <2>1. \A q \in Read \ {r} : Same(q)
    BY Zenon, <1>3 DEF RenewReadLease, Same, LeaseTypeOK, source, network, dest, history
  <2>2. LeaseInv(r)'
    BY Zenon, <1>3 DEF RenewReadLease, LeaseInv, LeaseTypeOK, Recorded, Sender, source, network, dest,
       history
  <2> QED BY Zenon, <2>1, <2>2
<1>4. CASE ReadRemote(r)
  <2>1. \A q \in Read \ {r} : Same(q)
    BY Zenon, <1>4 DEF ReadRemote, Same, LeaseTypeOK, source, network, dest, history
  <2>2. LeaseInv(r)'
    BY Zenon, <1>4 DEF ReadRemote, LeaseInv, LeaseTypeOK, Recorded, Sender, source, network, dest, history
  <2> QED BY Zenon, <2>1, <2>2
<1>5. CASE AcquireFailed(r)
  <2>1. \A q \in Read \ {r} : Same(q)
    BY Zenon, <1>5 DEF AcquireFailed, Settle, Same, LeaseTypeOK, source, network, dest, history
  <2>2. LeaseInv(r)'
    BY Zenon, <1>5 DEF AcquireFailed, Settle, LeaseInv, LeaseTypeOK, Recorded, Sender, source, network,
       dest, history
  <2> QED BY Zenon, <2>1, <2>2
<1>6. CASE AcquireGranted(r)
  <2>1. \A q \in Read \ {r} : Same(q)
    BY Zenon, <1>6 DEF AcquireGranted, Settle, Same, LeaseTypeOK, source, network, dest, history
  <2>2. LeaseInv(r)'
    BY <1>6 DEF AcquireGranted, Settle, LeaseInv, LeaseTypeOK, Recorded, Sender, source, network,
       dest, history
  <2> QED BY Zenon, <2>1, <2>2
<1>7. CASE PullDone(r)
  <2>1. \A q \in Read \ {r} : Same(q)
    BY Zenon, <1>7 DEF PullDone, Same, LeaseTypeOK, source, network, dest, history
  <2>2. LeaseInv(r)'
    BY Zenon, <1>7 DEF PullDone, LeaseInv, LeaseTypeOK, Recorded, Sender, source, network, dest, history
  <2> QED BY Zenon, <2>1, <2>2
<1>8. CASE Commit(r)
  <2>1. \A q \in Read \ {r} : Same(q)
    BY Zenon, <1>8 DEF Commit, Settle, Same, LeaseTypeOK, source, network, dest, history
  <2>2. LeaseInv(r)'
    BY <1>8 DEF Commit, Settle, LeaseInv, LeaseTypeOK, Recorded, Sender, source, network, dest,
       history
  <2> QED BY Zenon, <2>1, <2>2
<1>9. CASE DeadlineWakes(r)
  <2>1. \A q \in Read \ {r} : Same(q)
    BY Zenon, <1>9 DEF DeadlineWakes, Same, LeaseTypeOK, source, network, dest, history
  <2>2. LeaseInv(r)'
    BY Zenon, <1>9 DEF DeadlineWakes, LeaseInv, LeaseTypeOK, Recorded, Sender, source, network, dest,
       history
  <2> QED BY Zenon, <2>1, <2>2
<1>10. CASE DeadlineReleases(r)
  <2>1. \A q \in Read \ {r} : Same(q)
    BY Zenon, <1>10 DEF DeadlineReleases, Same, LeaseTypeOK, source, network, dest, history
  <2>2. LeaseInv(r)'
    BY <1>10 DEF DeadlineReleases, LeaseInv, LeaseTypeOK, Recorded, Sender, source, network, dest,
       history
  <2> QED BY Zenon, <2>1, <2>2
<1>11. CASE DeadlineSettles(r)
  <2>1. \A q \in Read \ {r} : Same(q)
    BY Zenon, <1>11 DEF DeadlineSettles, Settle, Same, LeaseTypeOK, source, network, dest, history
  <2>2. LeaseInv(r)'
    BY Zenon, <1>11 DEF DeadlineSettles, Settle, LeaseInv, LeaseTypeOK, Recorded, Sender, source, network,
       dest, history
  <2> QED BY Zenon, <2>1, <2>2
<1>12. ASSUME NEW from \in Sender, ReleaseReadLease(r, from)
       PROVE  LeaseInv(r)' /\ \A q \in Read \ {r} : Same(q)
  <2>1. \A q \in Read \ {r} : Same(q)
    <3>1. UNCHANGED <<reused, bytes, timer, phase, settled>>
      BY Zenon, <1>12 DEF ReleaseReadLease, dest, history
    <3>2. \A q \in Read \ {r} : lease'[q] = lease[q]
      BY Zenon, <1>12 DEF ReleaseReadLease, TransitionOutOfLive, LeaseTypeOK
    <3>3. \A q \in Read \ {r} : releases'[q] = releases[q] /\ verdict'[q] = verdict[q]
      BY Zenon, <1>12 DEF ReleaseReadLease, LeaseTypeOK
    <3> QED BY Zenon, <3>1, <3>2, <3>3 DEF Same
  <2>2. LeaseInv(r)'
    BY Zenon, <1>12 DEF ReleaseReadLease, TransitionOutOfLive, VerdictOf, RetireAt, Recorded, LeaseInv,
       LeaseTypeOK, Sender, source, network, dest, history
  <2> QED BY Zenon, <2>1, <2>2
<1>13. ASSUME NEW from \in Sender, ReleaseLost(r, from)
       PROVE  LeaseInv(r)' /\ \A q \in Read \ {r} : Same(q)
  <2>1. \A q \in Read \ {r} : Same(q)
    BY Zenon, <1>13 DEF ReleaseLost, Same, LeaseTypeOK, source, network, dest, history
  <2>2. LeaseInv(r)'
    BY <1>13 DEF ReleaseLost, LeaseInv, LeaseTypeOK, Recorded, Sender, source, network, dest, history
  <2> QED BY Zenon, <2>1, <2>2
<1> QED BY Zenon, <1>1, <1>2, <1>3, <1>4, <1>5, <1>6, <1>7, <1>8, <1>9, <1>10, <1>11, <1>12,
     <1>13 DEF ReadStep

LEMMA StepHolds == IInv /\ [LeaseNext]_lvars => IInv'
<1> SUFFICES ASSUME IInv, [LeaseNext]_lvars PROVE IInv'
  OBVIOUS
<1>0. LeaseTypeOK /\ PinAccounting /\ \A r \in Read : LeaseInv(r)
  BY Zenon DEF IInv
<1>1. ASSUME NEW r \in Read, ReadStep(r) PROVE IInv'
  <2>1. LeaseTypeOK' /\ PinAccounting'
    BY Zenon, <1>0, <1>1, TypeStep, ReadPins
  <2>2. LeaseInv(r)' /\ \A q \in Read \ {r} : Same(q)
    BY Zenon, <1>0, <1>1, ReadOrder
  <2>3. \A q \in Read : LeaseInv(q)'
    BY Zenon, <1>0, <2>2, SameInv
  <2> QED BY Zenon, <2>1, <2>3 DEF IInv
<1>2. CASE RunSweepOnce
  <2>1. Cardinality(Expired) \in Nat
    <3>1. Expired \subseteq Held
      BY Zenon DEF Expired, Held
    <3> QED BY Zenon, <3>1, HeldFinite, FS_Subset, FS_CardinalityType
  <2>2. LeaseTypeOK'
    BY <1>0, <1>2, <2>1, Times DEF RunSweepOnce, RetireAt, LeaseTypeOK, Recorded, network, dest,
       history
  <2>3. ASSUME NEW r \in Read PROVE LeaseInv(r)'
    BY Zenon, <1>0, <1>2 DEF RunSweepOnce, LeaseInv, Expired, Retired, LeaseTypeOK, network, dest,
       history
  <2> QED BY Zenon, <1>0, <1>2, <2>2, <2>3, SweepPins DEF IInv
<1>3. CASE Unpin
  <2>1. \A r \in Read : Same(r)
    BY Zenon, <1>3 DEF Unpin, Same, network, dest, history
  <2> QED BY Zenon, <1>0, <1>3, <2>1, UnpinPins, SameInv DEF IInv
<1>4. CASE Reuse
  <2>1. LeaseTypeOK' /\ PinAccounting'
    BY Zenon, <1>0, <1>4, SamePins DEF Reuse, LeaseTypeOK, Held, source, network, dest
  <2>2. Held = {}
    BY <1>0, <1>4, HeldFinite, FS_EmptySet, PinCount DEF Reuse, LeaseTypeOK
  <2>3. ASSUME NEW r \in Read PROVE LeaseInv(r)'
    <3>1. lease[r] \notin {"pinning", "live"}
      BY Zenon, <2>2 DEF Held
    <3> QED BY Zenon, <1>0, <1>4, <3>1 DEF Reuse, LeaseInv, source, network, dest
  <2> QED BY Zenon, <2>1, <2>3 DEF IInv
<1>5. CASE Restart
  <2>1. LeaseTypeOK'
    BY Zenon, <1>0, <1>5 DEF Restart, LeaseTypeOK, dest, history
  <2>2. ASSUME NEW r \in Read PROVE LeaseInv(r)'
    BY Zenon, <1>0, <1>5 DEF Restart, LeaseInv, LeaseTypeOK, dest, history
  <2> QED BY Zenon, <1>0, <1>5, <2>1, <2>2, RestartPins DEF IInv
<1>6. CASE Cleanup \/ Tick \/ UNCHANGED lvars
  <2>1. UNCHANGED <<source, network, phase, timer, settled, history>>
    BY Zenon, <1>6 DEF Cleanup, Tick, lvars, dest
  <2>2. \A r \in Read : Same(r)
    BY Zenon, <2>1 DEF Same, source, network, history
  <2>3. PinAccounting'
    BY Zenon, <1>0, <2>1, SamePins DEF Held, source
  <2>4. now' \in 0 .. MaxTime
    BY <1>0, <1>6, Times DEF Cleanup, Tick, LeaseTypeOK, lvars
  <2>5. ctrl' \in BOOLEAN /\ UNCHANGED <<began, leaseId>>
    BY Zenon, <1>0, <1>6 DEF Cleanup, Tick, LeaseTypeOK, lvars, dest
  <2>6. LeaseTypeOK'
    BY Zenon, <1>0, <2>1, <2>4, <2>5 DEF LeaseTypeOK, source, network, history
  <2> QED BY Zenon, <1>0, <2>2, <2>3, <2>6, SameInv DEF IInv
<1> QED BY Zenon, <1>1, <1>2, <1>3, <1>4, <1>5, <1>6 DEF LeaseNext

-----------------------------------------------------------------------------
\* The pin count is the leases not yet retired plus the unpins still owed: Release, the
\* sweeper and a restart of the source never unpin a lease twice (TransitionOutOfLive,
\* RunSweepOnce, and the unpin hook that runs after the mutex is left).
THEOREM PinAccountingHolds == LeaseSpec => []PinAccounting
<1>1. IInv => PinAccounting
  BY DEF IInv
<1> QED BY InitHolds, StepHolds, <1>1, PTL DEF LeaseSpec

\* A read that succeeds, and whose deadline thread did not give the lease back first,
\* committed the bytes of the block it leased: the verdict ReleaseReadLease answers is
\* "held" only for a lease that was live until that Release (ReadRemote, Commit).
THEOREM CommittedReadIntactHolds == LeaseSpec => []CommittedReadIntact
<1>1. IInv => CommittedReadIntact
  BY Zenon DEF IInv, LeaseInv, CommittedReadIntact
<1> QED BY InitHolds, StepHolds, <1>1, PTL DEF LeaseSpec
=============================================================================
