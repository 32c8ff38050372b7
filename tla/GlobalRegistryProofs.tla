------------------------ MODULE GlobalRegistryProofs ------------------------
(***************************************************************************)
(* Proofs about the global registry, for any sets of stores, hashes and    *)
(* incarnations: first the directory of blocks, then the tables of stores  *)
(* and of transfer specs with the stores that come and go.                 *)
(***************************************************************************)
EXTENDS BlockDirectory, StoreLifecycle, TLAPS

(***************************************************************************)
(* The directory.                                                          *)
(***************************************************************************)

\* What a stream has still to write or has written: every hash its owner had
\* listed ever since the snapshot, and such a hash is listed.
PullCovers ==
  /\ client \in Store \cup {None}
  /\ client = None => kept = {}
  /\ client # None => kept \subseteq todo \cup emitted
  /\ \A h \in kept : h \in Hash /\ Lists(registry, client, h)

DirectoryInv ==
  /\ registry \in [Hash -> SUBSET Entry]
  /\ owned \in [Store -> SUBSET Hash]
  /\ IndexDerived
  /\ PullCovers

Fresh(s) == [owner |-> s, state |-> "live"]

\* After registration s has one live entry, and the other owners what they had.
LEMMA RegisteredEntries ==
  ASSUME NEW E \in SUBSET Entry, NEW s \in Store,
         \A d, e \in E : d.owner = e.owner => d = e
  PROVE  Registered(E, s) = {e \in E : e.owner # s} \cup {Fresh(s)}
<1>1. CASE s \in Owners(E)
  <2>1. PICK f \in E : f.owner = s
    BY Zenon, <1>1 DEF Owners
  <2>2. \A e \in E : (IF e.owner = s THEN [e EXCEPT !.state = "live"] ELSE e)
                     = IF e.owner = s THEN Fresh(s) ELSE e
    BY DEF Entry, Fresh
  <2>3. Registered(E, s) = {IF e.owner = s THEN Fresh(s) ELSE e : e \in E}
    BY Zenon, <1>1, <2>2 DEF Registered
  <2>4. QED
    BY <2>1, <2>3
<1>2. CASE s \notin Owners(E)
  BY Zenon, <1>2 DEF Registered, Owners, Fresh
<1>3. QED
  BY Zenon, <1>1, <1>2

\* A step between two batches that observes what it does to the directory.
LEMMA ObservedStep ==
  ASSUME PullCovers, Observe(registry'), UNCHANGED pull
  PROVE  PullCovers'
BY Zenon DEF PullCovers, Observe, pull, Lists

LEMMA RegisterStep ==
  ASSUME DirectoryInv, NEW s \in Store, NEW H \in SUBSET Hash, Register(s, H)
  PROVE  DirectoryInv'
<1>1. /\ registry \in [Hash -> SUBSET Entry] /\ owned \in [Store -> SUBSET Hash]
      /\ registry' = [h \in Hash |-> IF h \in H THEN Registered(registry[h], s) ELSE registry[h]]
      /\ owned' = [owned EXCEPT ![s] = @ \cup {h \in H : s \notin Owners(registry[h])}]
      /\ Observe(registry') /\ rr' = rr /\ UNCHANGED pull
  BY Zenon DEF DirectoryInv, Register
<1>2. \A h \in H : registry'[h] = {e \in registry[h] : e.owner # s} \cup {Fresh(s)}
  BY Zenon, <1>1, RegisteredEntries DEF DirectoryInv, IndexDerived
<1>3. registry' \in [Hash -> SUBSET Entry]
  <2>1. Fresh(s) \in Entry
    BY Zenon DEF Fresh, Entry
  <2>2. \A h \in Hash : (IF h \in H THEN Registered(registry[h], s) ELSE registry[h]) \in SUBSET Entry
    BY <1>1, <1>2, <2>1
  <2>3. QED
    BY Zenon, <1>1, <2>2
<1>4. owned' \in [Store -> SUBSET Hash]
  BY Zenon, <1>1
<1>5. \A t \in Store, h \in Hash : t \in Owners(registry'[h]) <=> t \in Owners(registry[h]) \/ (t = s /\ h \in H)
  <2>1. SUFFICES ASSUME NEW t \in Store, NEW h \in H
                 PROVE  t \in Owners(registry'[h]) <=> t \in Owners(registry[h]) \/ t = s
    BY Zenon, <1>1
  <2>2. Fresh(s).owner = s
    BY Zenon DEF Fresh
  <2>3. QED
    BY Zenon, <1>2, <2>2 DEF Owners
<1>6. \A t \in Store, h \in Hash : h \in owned'[t] <=> h \in owned[t] \/ (t = s /\ h \in H /\ s \notin Owners(registry[h]))
  BY Zenon, <1>1
<1>7. \A h \in Hash : \A d, e \in registry'[h] : d.owner = e.owner => d = e
  BY <1>1, <1>2 DEF DirectoryInv, IndexDerived, Fresh
<1>8. \A h \in Hash : rr'[h] # Absent => registry'[h] # {}
  BY <1>1, <1>2 DEF DirectoryInv, IndexDerived
<1>9. IndexDerived'
  BY Zenon, <1>5, <1>6, <1>7, <1>8 DEF DirectoryInv, IndexDerived
<1>10. QED
  BY Zenon, <1>1, <1>3, <1>4, <1>9, ObservedStep DEF DirectoryInv

LEMMA UnregisterStep ==
  ASSUME DirectoryInv, NEW s \in Store, NEW H \in SUBSET Hash, Unregister(s, H)
  PROVE  DirectoryInv'
<1>1. /\ registry \in [Hash -> SUBSET Entry] /\ owned \in [Store -> SUBSET Hash]
      /\ registry' = [h \in Hash |-> IF h \in H THEN {e \in registry[h] : e.owner # s} ELSE registry[h]]
      /\ owned' = [owned EXCEPT ![s] = @ \ {h \in H : s \in Owners(registry[h])}]
      /\ rr' = [h \in Hash |-> IF registry'[h] = {} THEN Absent ELSE rr[h]]
      /\ Observe(registry') /\ UNCHANGED pull
  BY Zenon DEF DirectoryInv, Unregister, Prune
<1>2. registry' \in [Hash -> SUBSET Entry] /\ owned' \in [Store -> SUBSET Hash]
  BY Zenon, <1>1
<1>3. \A t \in Store, h \in Hash : t \in Owners(registry'[h]) <=> t \in Owners(registry[h]) /\ ~(t = s /\ h \in H)
  BY Zenon, <1>1 DEF Owners
<1>4. \A t \in Store, h \in Hash : h \in owned'[t] <=> h \in owned[t] /\ ~(t = s /\ h \in H /\ s \in Owners(registry[h]))
  BY Zenon, <1>1
<1>5. IndexDerived'
  BY Zenon, <1>1, <1>3, <1>4 DEF DirectoryInv, IndexDerived
<1>6. QED
  BY Zenon, <1>1, <1>2, <1>5, ObservedStep DEF DirectoryInv

LEMMA LookupStep ==
  ASSUME DirectoryInv, NEW q \in Queries, Lookup(q)
  PROVE  DirectoryInv'
<1>1. \A h \in {q[i] : i \in Hits(q)} : registry[h] # {}
  <2>1. SUFFICES ASSUME NEW i \in DOMAIN q, \A j \in 1 .. i : Live(registry[q[j]]) # {}
                 PROVE  registry[q[i]] # {}
    BY Zenon DEF Hits
  <2>2. i \in 1 .. i
    BY DEF Queries
  <2>3. QED
    BY Zenon, <2>1, <2>2 DEF Live
<1>2. \A h \in Hash : rr'[h] # Absent => registry[h] # {}
  BY Zenon, <1>1 DEF Lookup, DirectoryInv, IndexDerived
<1>3. QED
  BY Zenon, <1>2 DEF Lookup, DirectoryInv, IndexDerived, PullCovers, pull, Lists

LEMMA PullOwnedStep ==
  ASSUME DirectoryInv, NEW s \in Store, PullOwned(s)
  PROVE  DirectoryInv'
<1>1. \A h \in Hash : Lists(registry, s, h) => h \in owned[s]
  BY Zenon DEF DirectoryInv, IndexDerived, Lists, Owners, Live
<1>2. PullCovers'
  BY Zenon, <1>1, DirectoryAssumption DEF PullOwned, PullCovers, directory, Lists
<1>3. QED
  BY Zenon, <1>2 DEF DirectoryInv, IndexDerived, PullOwned, directory

LEMMA PullBatchStep ==
  ASSUME DirectoryInv, PullBatch
  PROVE  DirectoryInv'
BY Zenon DEF DirectoryInv, IndexDerived, PullCovers, PullBatch, directory, Lists

LEMMA PullEndStep ==
  ASSUME DirectoryInv, PullEnd
  PROVE  DirectoryInv'
BY Zenon DEF DirectoryInv, IndexDerived, PullCovers, PullEnd, directory, Lists

LEMMA ExpireStep ==
  ASSUME DirectoryInv, NEW s \in Store, NEW h \in Hash, Expire(s, h)
  PROVE  DirectoryInv'
<1> DEFINE Old == [owner |-> s, state |-> "expired"]
<1>1. /\ registry \in [Hash -> SUBSET Entry]
      /\ registry' = [registry EXCEPT ![h] = {IF e.owner = s THEN [e EXCEPT !.state = "expired"] ELSE e : e \in registry[h]}]
      /\ Observe(registry') /\ UNCHANGED <<owned, rr, pull>>
  BY Zenon DEF DirectoryInv, Expire
<1>2. PICK f \in registry[h] : f.owner = s
  BY Zenon DEF Expire, Lists, Owners, Live
<1>3. \A d, e \in registry[h] : d.owner = e.owner => d = e
  BY Zenon DEF DirectoryInv, IndexDerived
<1>4. \A e \in registry[h] : (IF e.owner = s THEN [e EXCEPT !.state = "expired"] ELSE e)
                             = IF e.owner = s THEN Old ELSE e
  BY <1>1 DEF Entry
<1>5. registry'[h] = {IF e.owner = s THEN Old ELSE e : e \in registry[h]}
  BY Zenon, <1>1, <1>4
<1>6. registry'[h] = {e \in registry[h] : e.owner # s} \cup {Old}
  BY <1>2, <1>3, <1>5
<1>7. registry' \in [Hash -> SUBSET Entry]
  <2>1. Old \in Entry
    BY Zenon DEF Entry
  <2>2. QED
    BY <1>1, <1>5, <2>1
<1>8. \A t \in Store, g \in Hash : t \in Owners(registry'[g]) <=> t \in Owners(registry[g])
  <2>1. \A t \in Store : t \in Owners(registry'[h]) <=> t \in Owners(registry[h])
    <3>1. Old.owner = s
      OBVIOUS
    <3>2. QED
      BY Zenon, <1>2, <1>6, <3>1 DEF Owners
  <2>2. QED
    BY Zenon, <1>1, <2>1
<1>9. \A g \in Hash : \A d, e \in registry'[g] : d.owner = e.owner => d = e
  BY <1>1, <1>6 DEF DirectoryInv, IndexDerived
<1>10. \A g \in Hash : rr'[g] # Absent => registry'[g] # {}
  BY Zenon, <1>1, <1>6 DEF DirectoryInv, IndexDerived
<1>11. IndexDerived'
  BY Zenon, <1>1, <1>8, <1>9, <1>10 DEF DirectoryInv, IndexDerived
<1>12. QED
  BY Zenon, <1>1, <1>7, <1>11, ObservedStep DEF DirectoryInv

LEMMA CleanupStep ==
  ASSUME DirectoryInv, CleanupExpiredEntries
  PROVE  DirectoryInv'
<1>1. /\ registry \in [Hash -> SUBSET Entry] /\ owned \in [Store -> SUBSET Hash]
      /\ registry' = [h \in Hash |-> Live(registry[h])]
      /\ owned' = [s \in Store |-> {h \in owned[s] : s \notin Owners(registry[h]) \/ Lists(registry, s, h)}]
      /\ rr' = [h \in Hash |-> IF registry'[h] = {} THEN Absent ELSE rr[h]]
      /\ Observe(registry') /\ UNCHANGED pull
  BY Zenon DEF DirectoryInv, CleanupExpiredEntries, Prune
<1>2. registry' \in [Hash -> SUBSET Entry] /\ owned' \in [Store -> SUBSET Hash]
  BY Zenon, <1>1 DEF Live
<1>3. \A s \in Store, h \in Hash : s \in Owners(registry'[h]) <=> Lists(registry, s, h)
  BY Zenon, <1>1 DEF Lists
<1>4. \A s \in Store, h \in Hash : Lists(registry, s, h) => s \in Owners(registry[h])
  BY Zenon DEF Lists, Owners, Live
<1>5. \A s \in Store, h \in Hash : h \in owned'[s] <=> s \in Owners(registry'[h])
  BY Zenon, <1>1, <1>3, <1>4 DEF DirectoryInv, IndexDerived
<1>6. IndexDerived'
  BY Zenon, <1>1, <1>5 DEF DirectoryInv, IndexDerived, Live
<1>7. QED
  BY Zenon, <1>1, <1>2, <1>6, ObservedStep DEF DirectoryInv

LEMMA RestartStep ==
  ASSUME Restart
  PROVE  DirectoryInv'
BY Zenon DEF DirectoryInv, IndexDerived, PullCovers, Restart, Owners, Entry

LEMMA DirectoryInvHolds == Spec => []DirectoryInv
<1>1. Init => DirectoryInv
  BY Zenon DEF Init, DirectoryInv, IndexDerived, PullCovers, Owners, Entry
<1>2. DirectoryInv /\ [Next]_vars => DirectoryInv'
  <2>1. SUFFICES ASSUME DirectoryInv, [Next]_vars PROVE DirectoryInv'
    OBVIOUS
  <2>2. CASE UNCHANGED vars
    BY Zenon, <2>1, <2>2 DEF vars, directory, pull, DirectoryInv, IndexDerived, PullCovers, Lists
  <2>3. ASSUME NEW s \in Store, NEW H \in Calls, Register(s, H) PROVE DirectoryInv'
    BY Zenon, <2>1, <2>3, RegisterStep DEF Calls
  <2>4. ASSUME NEW s \in Store, NEW H \in Calls, Unregister(s, H) PROVE DirectoryInv'
    BY Zenon, <2>1, <2>4, UnregisterStep DEF Calls
  <2>5. ASSUME NEW q \in Queries, Lookup(q) PROVE DirectoryInv'
    BY Zenon, <2>1, <2>5, LookupStep
  <2>6. ASSUME NEW s \in Store, PullOwned(s) PROVE DirectoryInv'
    BY Zenon, <2>1, <2>6, PullOwnedStep
  <2>7. ASSUME NEW s \in Store, NEW h \in Hash, Expire(s, h) PROVE DirectoryInv'
    BY Zenon, <2>1, <2>7, ExpireStep
  <2>8. QED
    BY Zenon, <2>1, <2>2, <2>3, <2>4, <2>5, <2>6, <2>7, PullBatchStep, PullEndStep, CleanupStep, RestartStep
       DEF Next
<1>3. QED
  BY <1>1, <1>2, PTL DEF Spec

\* The index by owner stays the inverse of the map, with one entry per owner and
\* hash, through every sequence of registrations, expiries and cleanups.
THEOREM IndexDerivedHolds == Spec => []IndexDerived
<1>1. DirectoryInv => IndexDerived
  BY DEF DirectoryInv
<1>2. QED
  BY <1>1, DirectoryInvHolds, PTL

\* A finished stream has written every hash its owner had listed all the time, for
\* every size of the batches and whatever happens between them.
THEOREM PullCompleteHolds == Spec => []PullComplete
<1>1. DirectoryInv => PullComplete
  BY DEF DirectoryInv, PullCovers, PullComplete
<1>2. QED
  BY <1>1, DirectoryInvHolds, PTL

-----------------------------------------------------------------------------
(* The lifecycle of a store.                                               *)

\* The stages between which a part of a store takes calls, and between which the
\* calls it let in may run.
Wired == {"spec", "monitor", "ranks", "reshard", "up", "stopping", "unlisted", "draining"}
Served == {"publish", "threads", "spec", "monitor", "ranks", "reshard", "up", "stopping",
           "unlisted", "abort"}
Leaving == {"up", "stopping", "unlisted", "draining", "joining", "awaiting"}
Unbuilt == {"off", "await", "construct", "gone"}

\* Who is inside an object keeps it alive.
Safe(c, o, b, a) ==
  /\ o \cap {"server", "backendserver", "service"} # {} => {"service", "controller"} \subseteq a
  /\ b \cap {"rpc", "commit"} # {} => {"service", "controller"} \subseteq a
  /\ "poller" \in o \/ "poll" \in b => {"store", "controller"} \subseteq a
  /\ o \cap {"hooks", "monitor"} # {} \/ b \cap {"lease", "beat", "relist"} # {} => "store" \in a
  /\ o \cap {"ctlserver", "controller"} # {} \/ b \cap {"enroll", "save", "resume"} # {} => "controller" \in a
  /\ "reshard" \in o \/ "reshard" \in b => (IF c.kind = "sidecar" THEN "store" ELSE "controller") \in a

\* Which part is open, and which call runs, by how far the store has come up or gone
\* down.
DoorsAt(s, o) ==
  /\ "monitor" \in o => s \in {"ranks", "reshard", "up"}
  /\ "server" \in o => s \in Served
  /\ "backendserver" \in o => s \in {"up", "stopping", "unlisted"}
  /\ "service" \in o => s \in Served \cup {"draining"}
  /\ "poller" \in o => s \in Wired
  /\ "reshard" \in o => s \in Leaving
  /\ "hooks" \in o => s \in Wired \cup {"joining", "awaiting", "cleanup"}
  /\ o \cap {"ctlserver", "controller"} # {} => s \notin Unbuilt \cup {"closing"}

CallsAt(s, b) ==
  /\ b \cap {"beat", "relist"} # {} => s \in {"ranks", "reshard", "up", "stopping"}
  /\ b \cap {"rpc", "commit"} # {} => s \in Served \cup {"draining"}
  /\ "poll" \in b => s \in Wired \cup {"joining"}
  /\ "save" \in b => s \in Leaving
  /\ "reshard" \in b => s \in Leaving \cup {"cleanup"}
  /\ "lease" \in b => s \in Wired \cup {"joining", "awaiting", "cleanup", "closing"}
  /\ b \cap {"enroll", "resume"} # {} => s \notin Unbuilt \cup {"closing"}

PinsAt(s, n) ==
  /\ n \subseteq {"lease", "write"}
  /\ "write" \in n => s \in {"up", "stopping", "unlisted", "draining", "joining"}
  /\ "lease" \in n => s \in Wired \cup {"joining", "awaiting", "cleanup", "closing"}

BuiltAt(c, s, a) ==
  /\ c.kind # "sidecar" /\ s \notin Unbuilt => "controller" \in a
  /\ s \in {"wire", "publish", "threads", "spec", "monitor"} => "store" \in a
  /\ c.kind = "sidecar" => s \in {"off", "reshard", "cleanup", "closing", "gone"} \cup Leaving

Orderly(p) ==
  LET c == conf[p] s == stage[p]
  IN /\ open[p] \subseteq Part /\ busy[p] \subseteq User
     /\ Safe(c, open[p], busy[p], alive[p])
     /\ DoorsAt(s, open[p]) /\ CallsAt(s, busy[p]) /\ PinsAt(s, pinned[p]) /\ BuiltAt(c, s, alive[p])

\* The stages in which a store may be registered.
Listable == {"threads", "spec", "monitor", "ranks", "reshard", "up", "stopping"}

\* A registered store that is not excused serves; the monitor runs, and its last round
\* ends, while the store is registered.
Listing(p) ==
  /\ registered[p] => stage[p] \in Listable \cup {"gone"}
  /\ registered[p] /\ p \notin excused => "server" \in open[p] /\ stage[p] # "gone"
  /\ stage[p] = "publish" => "server" \in open[p]
  /\ "monitor" \in open[p] => registered[p] /\ stage[p] \in {"ranks", "reshard", "up"}
  /\ busy[p] \cap {"beat", "relist"} # {} =>
       registered[p] /\ stage[p] \in {"ranks", "reshard", "up", "stopping"}

\* A record is its owner's, and its owner is registered or excused.
Listed ==
  /\ DOMAIN stores = Id
  /\ \A i \in Id : stores[i] # Nil =>
       /\ stores[i].at \in Proc /\ conf[stores[i].at].id = i
       /\ stores[i].at \in excused \/ registered[stores[i].at]

\* What a member of a group published or read is what the group's spec says.
GroupInv ==
  /\ DOMAIN specs = Groups /\ DOMAIN geometry = Proc /\ current \subseteq Proc
  /\ \A p \in current : specs[Group(p)] = geometry[p] /\ geometry[p] # Nil

Domains ==
  /\ DOMAIN stage = Proc /\ DOMAIN open = Proc /\ DOMAIN busy = Proc
  /\ DOMAIN alive = Proc /\ DOMAIN pinned = Proc /\ DOMAIN registered = Proc

InOrder(p) == (conf[p].private => Orderly(p)) /\ Listing(p)

LifeInv == Domains /\ (\A p \in Proc : InOrder(p)) /\ Listed /\ GroupInv

Same(q) == /\ stage'[q] = stage[q] /\ open'[q] = open[q] /\ busy'[q] = busy[q]
           /\ alive'[q] = alive[q] /\ pinned'[q] = pinned[q]
           /\ registered'[q] = registered[q] /\ (q \in excused' <=> q \in excused)

\* A step of p leaves the other stores alone, and keeps p in order.
Frame(p) == Domains' /\ conf' = conf /\ \A q \in Proc \ {p} : Same(q)

Keeps(p) == Frame(p) /\ (conf[p].private => Orderly(p)') /\ Listing(p)'

\* A call that ends and a pin that is returned leave the rest of the store in order.
LEMMA FewerOrder == ASSUME NEW p \in Proc, Orderly(p), conf' = conf, stage'[p] = stage[p],
                           open'[p] = open[p], alive'[p] = alive[p],
                           busy'[p] \subseteq busy[p], pinned'[p] \subseteq pinned[p]
                    PROVE  Orderly(p)'
<1>1. Safe(conf[p], open[p], busy'[p], alive[p])
  BY Zenon DEF Orderly, Safe
<1>2. CallsAt(stage[p], busy'[p])
  BY Zenon DEF Orderly, CallsAt
<1>3. PinsAt(stage[p], pinned'[p])
  BY Zenon DEF Orderly, PinsAt
<1>4. QED
  BY Zenon, <1>1, <1>2, <1>3 DEF Orderly

\* A destructor that begins only moves the stage on.
LEMMA DestructOrder == ASSUME NEW p \in Proc, Orderly(p), stage[p] = "up", conf' = conf,
                              stage'[p] = "stopping", open'[p] = open[p] \ {"monitor"},
                              alive'[p] = alive[p], busy'[p] = busy[p], pinned'[p] = pinned[p]
                       PROVE  Orderly(p)'
<1>1. Safe(conf[p], open'[p], busy[p], alive[p])
  BY Zenon DEF Orderly, Safe
<1>2. DoorsAt("stopping", open'[p])
  BY Zenon DEF Orderly, DoorsAt, Wired, Served, Leaving, Unbuilt
<1>3. CallsAt("stopping", busy[p])
  BY Zenon DEF Orderly, CallsAt, Wired, Served, Leaving, Unbuilt
<1>4. PinsAt("stopping", pinned[p])
  BY Zenon DEF Orderly, PinsAt, Wired
<1>5. BuiltAt(conf[p], "stopping", alive[p])
  BY Zenon DEF Orderly, BuiltAt, Leaving, Unbuilt
<1>6. QED
  BY Zenon, <1>1, <1>2, <1>3, <1>4, <1>5 DEF Orderly

\* Each step of a construction, failures included, keeps the store in order.
LEMMA BootOrder == ASSUME Domains, NEW p \in Proc, InOrder(p), Boot(p)
                PROVE Keeps(p)
<1> USE DEF Domains, InOrder, Go
<1>1. CASE Launch(p)
  <2>1. Frame(p)
    BY Zenon, <1>1 DEF Launch, Frame, Same
  <2>2. ASSUME conf[p].private PROVE Orderly(p)'
    BY Zenon, <1>1, <2>2 DEF Launch, Orderly, Safe, DoorsAt, CallsAt, PinsAt, BuiltAt, Wired,
       Served, Leaving, Unbuilt, Part, User
  <2>3. Listing(p)'
    BY Zenon, <1>1 DEF Launch, Listing, Listable
  <2>4. QED
    BY Zenon, <2>1, <2>2, <2>3 DEF Keeps
<1>2. CASE WaitForSpec(p)
  <2>1. Frame(p)
    BY Zenon, <1>2 DEF WaitForSpec, Frame, Same
  <2>2. ASSUME conf[p].private PROVE Orderly(p)'
    BY <1>2, <2>2 DEF WaitForSpec, Orderly, Safe, DoorsAt, CallsAt, PinsAt, BuiltAt, Wired,
       Served, Leaving, Unbuilt, Part, User
  <2>3. Listing(p)'
    BY Zenon, <1>2 DEF WaitForSpec, Listing, Listable
  <2>4. QED
    BY Zenon, <2>1, <2>2, <2>3 DEF Keeps
<1>3. CASE MakeRaidenController(p)
  <2>1. Frame(p)
    BY Zenon, <1>3 DEF MakeRaidenController, StartControllerServer, Start, Frame, Same
  <2>2. ASSUME conf[p].private PROVE Orderly(p)'
    BY <1>3, <2>2 DEF MakeRaidenController, StartControllerServer, Start, Orderly, Safe,
       DoorsAt, CallsAt, PinsAt, BuiltAt, Wired, Served, Leaving, Unbuilt, Part, User
  <2>3. Listing(p)'
    BY <1>3 DEF MakeRaidenController, StartControllerServer, Start, Listing, Listable
  <2>4. QED
    BY Zenon, <2>1, <2>2, <2>3 DEF Keeps
<1>4. CASE AwaitWorkerCount(p)
  <2>1. Frame(p)
    BY Zenon, <1>4 DEF AwaitWorkerCount, Fail, Destruct, Shut, Frame, Same
  <2>2. ASSUME conf[p].private PROVE Orderly(p)'
    BY <1>4, <2>2 DEF AwaitWorkerCount, Fail, Destruct, Shut, Orderly, Safe, DoorsAt,
       CallsAt, PinsAt, BuiltAt, Wired, Served, Leaving, Unbuilt, Part, User
  <2>3. Listing(p)'
    BY Zenon, <1>4 DEF AwaitWorkerCount, Fail, Destruct, Shut, Listing, Listable
  <2>4. QED
    BY Zenon, <2>1, <2>2, <2>3 DEF Keeps
<1>5. CASE CreateStore(p)
  <2>1. Frame(p)
    BY Zenon, <1>5 DEF CreateStore, Fail, Destruct, Shut, Construct, Frame, Same
  <2>2. ASSUME conf[p].private PROVE Orderly(p)'
    BY <1>5, <2>2 DEF CreateStore, Fail, Destruct, Shut, Construct, Orderly, Safe, DoorsAt,
       CallsAt, PinsAt, BuiltAt, Wired, Served, Leaving, Unbuilt, Part, User
  <2>3. Listing(p)'
    BY Zenon, <1>5 DEF CreateStore, Fail, Destruct, Shut, Construct, Listing, Listable
  <2>4. QED
    BY Zenon, <2>1, <2>2, <2>3 DEF Keeps
<1>6. CASE StartStoreServer(p)
  <2>1. Frame(p)
    BY Zenon, <1>6 DEF StartStoreServer, Fail, Destruct, Shut, StartServer, NewService, Start,
       Frame, Same
  <2>2. ASSUME conf[p].private PROVE Orderly(p)'
    BY <1>6, <2>2 DEF StartStoreServer, Fail, Destruct, Shut, StartServer, NewService, Start,
       Orderly, Safe, DoorsAt, CallsAt, PinsAt, BuiltAt, Wired, Served, Leaving, Unbuilt,
       Part, User
  <2>3. Listing(p)'
    BY <1>6 DEF StartStoreServer, Fail, Destruct, Shut, StartServer, NewService, Start,
       Listing, Listable
  <2>4. QED
    BY Zenon, <2>1, <2>2, <2>3 DEF Keeps
<1>7. CASE Publish(p)
  <2>1. Frame(p)
    BY Zenon, <1>7 DEF Publish, Fail, Destruct, Shut, Frame, Same
  <2>2. ASSUME conf[p].private PROVE Orderly(p)'
    BY <1>7, <2>2 DEF Publish, Fail, Destruct, Shut, Orderly, Safe, DoorsAt, CallsAt, PinsAt,
       BuiltAt, Wired, Served, Leaving, Unbuilt, Part, User
  <2>3. Listing(p)'
    BY <1>7 DEF Publish, Fail, Destruct, Shut, Listing, Listable
  <2>4. QED
    BY Zenon, <2>1, <2>2, <2>3 DEF Keeps
<1>8. CASE StartThreads(p)
  <2>1. Frame(p)
    BY Zenon, <1>8 DEF StartThreads, Start, Hooks, Frame, Same
  <2>2. ASSUME conf[p].private PROVE Orderly(p)'
    BY Zenon, <1>8, <2>2 DEF StartThreads, Start, Hooks, Orderly, Safe, DoorsAt, CallsAt, PinsAt,
       BuiltAt, Wired, Served, Leaving, Unbuilt, Part, User
  <2>3. Listing(p)'
    BY Zenon, <1>8 DEF StartThreads, Start, Hooks, Listing, Listable
  <2>4. QED
    BY Zenon, <2>1, <2>2, <2>3 DEF Keeps
<1>9. CASE RegisterKVTransferSpecFromWorkers(p)
  <2>1. Frame(p)
    BY Zenon, <1>9 DEF RegisterKVTransferSpecFromWorkers, Destruct, Shut, Frame, Same
  <2>2. ASSUME conf[p].private PROVE Orderly(p)'
    BY <1>9, <2>2 DEF RegisterKVTransferSpecFromWorkers, Destruct, Shut, Orderly, Safe,
       DoorsAt, CallsAt, PinsAt, BuiltAt, Wired, Served, Leaving, Unbuilt, Part, User
  <2>3. Listing(p)'
    BY <1>9 DEF RegisterKVTransferSpecFromWorkers, Destruct, Shut, Listing, Listable
  <2>4. QED
    BY Zenon, <2>1, <2>2, <2>3 DEF Keeps
<1>10. CASE StartMonitor(p)
  <2>1. Frame(p)
    BY Zenon, <1>10 DEF StartMonitor, Destruct, Shut, Start, Frame, Same
  <2>2. ASSUME conf[p].private PROVE Orderly(p)'
    BY <1>10, <2>2 DEF StartMonitor, Destruct, Shut, Start, Orderly, Safe, DoorsAt, CallsAt,
       PinsAt, BuiltAt, Wired, Served, Leaving, Unbuilt, Part, User
  <2>3. Listing(p)'
    BY <1>10 DEF StartMonitor, Destruct, Shut, Start, Listing, Listable
  <2>4. QED
    BY Zenon, <2>1, <2>2, <2>3 DEF Keeps
<1>11. CASE RegisterRank(p)
  <2>1. Frame(p)
    BY Zenon, <1>11 DEF RegisterRank, Destruct, Shut, Frame, Same
  <2>2. ASSUME conf[p].private PROVE Orderly(p)'
    BY <1>11, <2>2 DEF RegisterRank, Destruct, Shut, Orderly, Safe, DoorsAt, CallsAt, PinsAt,
       BuiltAt, Wired, Served, Leaving, Unbuilt, Part, User
  <2>3. Listing(p)'
    BY Zenon, <1>11 DEF RegisterRank, Destruct, Shut, Listing, Listable
  <2>4. QED
    BY Zenon, <2>1, <2>2, <2>3 DEF Keeps
<1>12. CASE StartReshardService(p)
  <2>1. Frame(p)
    BY Zenon, <1>12 DEF StartReshardService, Start, Destruct, Shut, Frame, Same
  <2>2. ASSUME conf[p].private PROVE Orderly(p)'
    BY <1>12, <2>2 DEF StartReshardService, Start, Destruct, Shut, Orderly, Safe, DoorsAt,
       CallsAt, PinsAt, BuiltAt, Wired, Served, Leaving, Unbuilt, Part, User
  <2>3. Listing(p)'
    BY <1>12 DEF StartReshardService, Start, Destruct, Shut, Listing, Listable
  <2>4. QED
    BY Zenon, <2>1, <2>2, <2>3 DEF Keeps
<1>13. QED
  BY Zenon, <1>1, <1>2, <1>3, <1>4, <1>5, <1>6, <1>7, <1>8, <1>9, <1>10, <1>11, <1>12 DEF Boot

\* So does each step of a destruction.
LEMMA TeardownOrder == ASSUME Domains, NEW p \in Proc, InOrder(p), Teardown(p)
                PROVE Keeps(p)
<1> USE DEF Domains, InOrder, Go
<1>1. CASE Unlist(p)
  <2>1. Frame(p)
    BY Zenon, <1>1 DEF Unlist, Idle, CallUnregisterStore, Frame, Same
  <2>2. ASSUME conf[p].private PROVE Orderly(p)'
    BY <1>1, <2>2 DEF Unlist, Idle, CallUnregisterStore, Orderly, Safe, DoorsAt, CallsAt,
       PinsAt, BuiltAt, Wired, Served, Leaving, Unbuilt, Part, User
  <2>3. Listing(p)'
    BY Zenon, <1>1 DEF Unlist, Idle, CallUnregisterStore, Listing, Listable
  <2>4. QED
    BY Zenon, <2>1, <2>2, <2>3 DEF Keeps
<1>2. CASE ShutdownServers(p)
  <2>1. Frame(p)
    BY Zenon, <1>2 DEF ShutdownServers, Shut, BackendStoreServers, Frame, Same
  <2>2. ASSUME conf[p].private PROVE Orderly(p)'
    BY <1>2, <2>2 DEF ShutdownServers, Shut, BackendStoreServers, Orderly, Safe, DoorsAt,
       CallsAt, PinsAt, BuiltAt, Wired, Served, Leaving, Unbuilt, Part, User
  <2>3. Listing(p)'
    BY Zenon, <1>2 DEF ShutdownServers, Shut, BackendStoreServers, Listing, Listable
  <2>4. QED
    BY Zenon, <2>1, <2>2, <2>3 DEF Keeps
<1>3. CASE Quiesce(p)
  <2>1. Frame(p)
    BY Zenon, <1>3 DEF Quiesce, Shut, ResetService, Idle, Frame, Same
  <2>2. ASSUME conf[p].private PROVE Orderly(p)'
    BY <1>3, <2>2 DEF Quiesce, Shut, ResetService, Idle, Orderly, Safe, DoorsAt, CallsAt,
       PinsAt, BuiltAt, Wired, Served, Leaving, Unbuilt, Part, User
  <2>3. Listing(p)'
    BY Zenon, <1>3 DEF Quiesce, Shut, ResetService, Idle, Listing, Listable
  <2>4. QED
    BY Zenon, <2>1, <2>2, <2>3 DEF Keeps
<1>4. CASE AbandonWrites(p)
  <2>1. Frame(p)
    BY Zenon, <1>4 DEF AbandonWrites, Idle, Frame, Same
  <2>2. ASSUME conf[p].private PROVE Orderly(p)'
    BY Zenon, <1>4, <2>2 DEF AbandonWrites, Idle, Orderly, Safe, DoorsAt, CallsAt, PinsAt, BuiltAt,
       Wired, Served, Leaving, Unbuilt, Part, User
  <2>3. Listing(p)'
    BY Zenon, <1>4 DEF AbandonWrites, Idle, Listing, Listable
  <2>4. QED
    BY Zenon, <2>1, <2>2, <2>3 DEF Keeps
<1>5. CASE AwaitFutures(p)
  <2>1. Frame(p)
    BY Zenon, <1>5 DEF AwaitFutures, Shut, Idle, Frame, Same
  <2>2. ASSUME conf[p].private PROVE Orderly(p)'
    BY <1>5, <2>2 DEF AwaitFutures, Shut, Idle, Orderly, Safe, DoorsAt, CallsAt, PinsAt,
       BuiltAt, Wired, Served, Leaving, Unbuilt, Part, User
  <2>3. Listing(p)'
    BY Zenon, <1>5 DEF AwaitFutures, Shut, Idle, Listing, Listable
  <2>4. QED
    BY Zenon, <2>1, <2>2, <2>3 DEF Keeps
<1>6. CASE DetachController(p)
  <2>1. Frame(p)
    BY Zenon, <1>6 DEF DetachController, Shut, Idle, Frame, Same
  <2>2. ASSUME conf[p].private PROVE Orderly(p)'
    BY Zenon, <1>6, <2>2 DEF DetachController, Shut, Idle, Orderly, Safe, DoorsAt, CallsAt, PinsAt,
       BuiltAt, Wired, Served, Leaving, Unbuilt, Part, User
  <2>3. Listing(p)'
    BY Zenon, <1>6 DEF DetachController, Shut, Idle, Listing, Listable
  <2>4. QED
    BY Zenon, <2>1, <2>2, <2>3 DEF Keeps
<1>7. CASE FreeController(p)
  <2>1. Frame(p)
    BY Zenon, <1>7 DEF FreeController, Idle, Frame, Same
  <2>2. ASSUME conf[p].private PROVE Orderly(p)'
    BY <1>7, <2>2 DEF FreeController, Idle, Orderly, Safe, DoorsAt, CallsAt, PinsAt, BuiltAt,
       Wired, Served, Leaving, Unbuilt, Part, User
  <2>3. Listing(p)'
    BY Zenon, <1>7 DEF FreeController, Idle, Listing, Listable
  <2>4. QED
    BY Zenon, <2>1, <2>2, <2>3 DEF Keeps
<1>8. QED
  BY Zenon, <1>1, <1>2, <1>3, <1>4, <1>5, <1>6, <1>7 DEF Teardown

\* So does a call that returns.
LEMMA FinishOrder == ASSUME Domains, NEW p \in Proc, InOrder(p), Finish(p)
                PROVE Keeps(p)
<1> USE DEF Domains, InOrder, Go
<1>1. CASE EndEnroll(p)
  <2>1. Frame(p)
    BY Zenon, <1>1 DEF EndEnroll, Leave, Frame, Same
  <2>2. ASSUME conf[p].private PROVE Orderly(p)'
    BY Zenon, <1>1, <2>2, FewerOrder DEF EndEnroll, Leave
  <2>3. Listing(p)'
    BY Zenon, <1>1 DEF EndEnroll, Leave, Listing, Listable
  <2>4. QED
    BY Zenon, <2>1, <2>2, <2>3 DEF Keeps
<1>2. CASE EndLease(p)
  <2>1. Frame(p)
    BY Zenon, <1>2 DEF EndLease, Leave, Frame, Same
  <2>2. ASSUME conf[p].private PROVE Orderly(p)'
    <3>1. /\ "lease" \in busy[p] /\ busy'[p] = busy[p] \ {"lease"}
          /\ pinned'[p] \in {pinned[p] \cup {"lease"}, pinned[p] \ {"lease"}}
      BY Zenon, <1>2 DEF EndLease, Leave
    <3>2. Safe(conf[p], open[p], busy'[p], alive[p]) /\ CallsAt(stage[p], busy'[p])
      BY Zenon, <2>2, <3>1 DEF Orderly, Safe, CallsAt
    <3>3. PinsAt(stage[p], pinned'[p])
      BY Zenon, <2>2, <3>1 DEF Orderly, CallsAt, PinsAt
    <3>4. QED
      BY Zenon, <1>2, <2>2, <3>1, <3>2, <3>3 DEF EndLease, Orderly
  <2>3. Listing(p)'
    BY Zenon, <1>2 DEF EndLease, Leave, Listing, Listable
  <2>4. QED
    BY Zenon, <2>1, <2>2, <2>3 DEF Keeps
<1>3. CASE EndRpc(p)
  <2>1. Frame(p)
    BY Zenon, <1>3 DEF EndRpc, Leave, Become, Frame, Same
  <2>2. ASSUME conf[p].private PROVE Orderly(p)'
    <3>1. busy'[p] \in {busy[p] \ {"rpc"}, (busy[p] \ {"rpc"}) \cup {"landing"}}
      BY Zenon, <1>3 DEF EndRpc, Leave, Become
    <3>2. Safe(conf[p], open[p], busy'[p], alive[p]) /\ busy'[p] \subseteq User
      BY Zenon, <2>2, <3>1 DEF Orderly, Safe, User
    <3>3. CallsAt(stage[p], busy'[p])
      BY Zenon, <2>2, <3>1 DEF Orderly, CallsAt
    <3>4. QED
      BY Zenon, <1>3, <2>2, <3>2, <3>3 DEF EndRpc, Orderly
  <2>3. Listing(p)'
    BY Zenon, <1>3 DEF EndRpc, Leave, Become, Listing, Listable
  <2>4. QED
    BY Zenon, <2>1, <2>2, <2>3 DEF Keeps
<1>4. CASE Heartbeat(p)
  <2>1. Frame(p)
    BY Zenon, <1>4 DEF Heartbeat, Leave, Become, Frame, Same
  <2>2. ASSUME conf[p].private PROVE Orderly(p)'
    <3>1. /\ "beat" \in busy[p]
          /\ busy'[p] \in {busy[p] \ {"beat"}, (busy[p] \ {"beat"}) \cup {"relist"}}
      BY Zenon, <1>4 DEF Heartbeat, Leave, Become
    <3>2. Safe(conf[p], open[p], busy'[p], alive[p]) /\ busy'[p] \subseteq User
      BY Zenon, <2>2, <3>1 DEF Orderly, Safe, User
    <3>3. CallsAt(stage[p], busy'[p])
      BY Zenon, <2>2, <3>1 DEF Orderly, CallsAt
    <3>4. QED
      BY Zenon, <1>4, <2>2, <3>2, <3>3 DEF Heartbeat, Orderly
  <2>3. Listing(p)'
    BY Zenon, <1>4 DEF Heartbeat, Leave, Become, Listing, Listable
  <2>4. QED
    BY Zenon, <2>1, <2>2, <2>3 DEF Keeps
<1>5. CASE Reregister(p)
  <2>1. Frame(p)
    BY Zenon, <1>5 DEF Reregister, Leave, Frame, Same
  <2>2. ASSUME conf[p].private PROVE Orderly(p)'
    BY Zenon, <1>5, <2>2, FewerOrder DEF Reregister, Leave
  <2>3. Listing(p)'
    BY Zenon, <1>5 DEF Reregister, Leave, Listing, Listable
  <2>4. QED
    BY Zenon, <2>1, <2>2, <2>3 DEF Keeps
<1>6. ASSUME NEW u \in {"poll", "save", "reshard", "commit", "resume"}, EndCall(p, u)
     PROVE Keeps(p)
  <2>1. Frame(p)
    BY Zenon, <1>6 DEF EndCall, Leave, Frame, Same
  <2>2. ASSUME conf[p].private PROVE Orderly(p)'
    <3>1. busy'[p] \subseteq busy[p] /\ pinned'[p] \subseteq pinned[p]
      BY Zenon, <1>6 DEF EndCall, Leave
    <3>2. QED
      BY Zenon, <1>6, <2>2, <3>1, FewerOrder DEF EndCall
  <2>3. Listing(p)'
    BY Zenon, <1>6 DEF EndCall, Leave, Listing, Listable
  <2>4. QED
    BY Zenon, <2>1, <2>2, <2>3 DEF Keeps
<1>7. QED
  BY Zenon, <1>1, <1>2, <1>3, <1>4, <1>5, <1>6 DEF Finish

\* So does a call that enters, a transfer that completes, a server that is added, and
\* the beginning or the abrupt end of a destruction.
LEMMA OtherOrder == ASSUME Domains, NEW p \in Proc, InOrder(p), 
                       \/ Call(p) \/ StartBackendServer(p) \/ Destroy(p) \/ Crash(p)
                       \/ Abort(p) \/ LateRegister(p)
                       \/ \E u \in DOMAIN Guard : Continue(p, u)
                PROVE Keeps(p)
<1> USE DEF Domains, InOrder, Go
<1>1. CASE Call(p)
  <2>1. Frame(p)
    BY Zenon, <1>1 DEF Call, Enter, Frame, Same
  <2>2. PICK u \in User :
          /\ busy' = [busy EXCEPT ![p] = @ \cup {u}]
          /\ u = "enroll" => "ctlserver" \in open[p]
          /\ u = "lease" => "hooks" \in open[p]
          /\ u = "poll" => "poller" \in open[p]
          /\ u = "beat" => "monitor" \in open[p]
          /\ u = "reshard" => "reshard" \in open[p]
          /\ u = "rpc" => open[p] \cap {"server", "backendserver"} # {}
          /\ u \in {"save", "read"} => stage[p] = "up" /\ conf[p].kind # "sidecar"
          /\ u \notin {"landing", "commit", "relist", "resume"}
    BY <1>1 DEF Call, Enter, Door, User
  <2>3. UNCHANGED <<conf, stage, open, alive, registered, pinned, excused>>
    BY Zenon, <1>1 DEF Call
  <2>4. busy'[p] = busy[p] \cup {u}
    BY Zenon, <2>2
  <2>5. ASSUME conf[p].private PROVE Orderly(p)'
    <3>1. Safe(conf[p], open[p], busy'[p], alive[p])
      BY Zenon, <2>2, <2>4, <2>5 DEF Orderly, Safe, BuiltAt, Unbuilt
    <3>2. CallsAt(stage[p], busy'[p])
      BY Zenon, <2>2, <2>4, <2>5 DEF Orderly, DoorsAt, CallsAt, Wired, Served, Leaving, Unbuilt
    <3>3. QED
      BY Zenon, <2>3, <2>4, <2>5, <3>1, <3>2 DEF Orderly
  <2>6. Listing(p)'
    BY Zenon, <2>2, <2>3, <2>4 DEF Listing, Listable
  <2>7. QED
    BY Zenon, <2>1, <2>5, <2>6 DEF Keeps
<1>2. CASE StartBackendServer(p)
  <2>1. Frame(p)
    BY Zenon, <1>2 DEF StartBackendServer, StartServer, NewService, Start, Frame, Same
  <2>2. ASSUME conf[p].private PROVE Orderly(p)'
    <3>1. /\ stage[p] = "up" /\ conf[p].kind # "sidecar" /\ Orderly(p)
          /\ conf' = conf /\ stage' = stage /\ busy' = busy /\ pinned' = pinned
          /\ open'[p] = open[p] \cup {"backendserver", "service"}
          /\ alive'[p] = alive[p] \cup {"service"}
      BY Zenon, <1>2, <2>2 DEF StartBackendServer, StartServer, NewService, Start
    <3>2. "controller" \in alive[p]
      BY Zenon, <3>1 DEF Orderly, BuiltAt, Unbuilt
    <3>3. Safe(conf[p], open'[p], busy[p], alive'[p])
      BY Zenon, <3>1, <3>2 DEF Orderly, Safe
    <3>4. DoorsAt("up", open'[p]) /\ open'[p] \subseteq Part
      BY Zenon, <3>1 DEF Orderly, DoorsAt, Served, Part
    <3>5. BuiltAt(conf[p], "up", alive'[p])
      BY Zenon, <3>1 DEF Orderly, BuiltAt
    <3>6. QED
      BY Zenon, <3>1, <3>3, <3>4, <3>5 DEF Orderly
  <2>3. Listing(p)'
    BY Zenon, <1>2 DEF StartBackendServer, StartServer, NewService, Start, Listing, Listable
  <2>4. QED
    BY Zenon, <2>1, <2>2, <2>3 DEF Keeps
<1>3. CASE Destroy(p)
  <2>1. Frame(p)
    BY Zenon, <1>3 DEF Destroy, Destruct, Shut, Frame, Same
  <2>2. ASSUME conf[p].private PROVE Orderly(p)'
    BY Zenon, <1>3, <2>2, DestructOrder DEF Destroy, Destruct, Shut
  <2>3. Listing(p)'
    BY Zenon, <1>3 DEF Destroy, Destruct, Shut, Listing, Listable
  <2>4. QED
    BY Zenon, <2>1, <2>2, <2>3 DEF Keeps
<1>4. CASE Crash(p)
  <2>1. Frame(p)
    BY Zenon, <1>4 DEF Crash, Die, Frame, Same
  <2>2. ASSUME conf[p].private PROVE Orderly(p)'
    <3>1. /\ conf' = conf /\ stage'[p] = "gone" /\ open'[p] = {} /\ busy'[p] = {}
          /\ pinned'[p] = {}
      BY Zenon, <1>4 DEF Crash, Die
    <3>2. QED
      BY Zenon, <3>1 DEF Orderly, Safe, DoorsAt, CallsAt, PinsAt, BuiltAt, Unbuilt, Leaving
  <2>3. Listing(p)'
    BY Zenon, <1>4 DEF Crash, Die, Listing, Listable
  <2>4. QED
    BY Zenon, <2>1, <2>2, <2>3 DEF Keeps
<1>5. CASE Abort(p)
  <2>1. Frame(p)
    BY Zenon, <1>5 DEF Abort, Die, Frame, Same
  <2>2. ASSUME conf[p].private PROVE Orderly(p)'
    BY Zenon, <1>5, <2>2 DEF Abort, Die, Orderly, Safe, DoorsAt, CallsAt, PinsAt, BuiltAt, Wired,
       Served, Leaving, Unbuilt, Part, User
  <2>3. Listing(p)'
    BY Zenon, <1>5 DEF Abort, Die, Listing, Listable
  <2>4. QED
    BY Zenon, <2>1, <2>2, <2>3 DEF Keeps
<1>6. CASE LateRegister(p)
  <2>1. Frame(p)
    BY Zenon, <1>6 DEF LateRegister, object, Frame, Same
  <2>2. ASSUME conf[p].private PROVE Orderly(p)'
    BY Zenon, <1>6, <2>2 DEF LateRegister, object, Orderly
  <2>3. Listing(p)'
    BY Zenon, <1>6 DEF LateRegister, object, Listing, Listable
  <2>4. QED
    BY Zenon, <2>1, <2>2, <2>3 DEF Keeps
<1>7. ASSUME NEW u \in {"landing", "read"}, Continue(p, u)
     PROVE Keeps(p)
  <2>1. Frame(p)
    BY Zenon, <1>7 DEF Continue, Become, Leave, Frame, Same
  <2>2. UNCHANGED <<conf, stage, open, alive, registered, pinned, excused>>
    BY Zenon, <1>7 DEF Continue
  <2>3. \/ busy'[p] = busy[p] \ {u}
        \/ "service" \in open[p] /\ busy'[p] = (busy[p] \ {u}) \cup {"commit"}
        \/ "controller" \in open[p] /\ busy'[p] = (busy[p] \ {u}) \cup {"resume"}
    <3>1. CASE u = "landing"
      BY Zenon, <1>7, <3>1 DEF Continue, Guard, Resumed, Become, Leave
    <3>2. CASE u = "read"
      BY Zenon, <1>7, <3>2 DEF Continue, Guard, Resumed, Become, Leave
    <3>3. QED
      BY Zenon, <3>1, <3>2
  <2>4. ASSUME conf[p].private PROVE Orderly(p)'
    <3>1. CASE busy'[p] = busy[p] \ {u}
      BY Zenon, <2>2, <2>4, <3>1, FewerOrder
    <3>2. CASE "service" \in open[p] /\ busy'[p] = (busy[p] \ {u}) \cup {"commit"}
      <4>1. Safe(conf[p], open[p], busy'[p], alive[p]) /\ busy'[p] \subseteq User
        BY Zenon, <2>4, <3>2 DEF Orderly, Safe, User
      <4>2. CallsAt(stage[p], busy'[p])
        BY Zenon, <2>4, <3>2 DEF Orderly, DoorsAt, CallsAt, Served
      <4>3. QED
        BY Zenon, <2>2, <2>4, <4>1, <4>2 DEF Orderly
    <3>3. CASE "controller" \in open[p] /\ busy'[p] = (busy[p] \ {u}) \cup {"resume"}
      <4>1. Safe(conf[p], open[p], busy'[p], alive[p]) /\ busy'[p] \subseteq User
        BY Zenon, <2>4, <3>3 DEF Orderly, Safe, User
      <4>2. CallsAt(stage[p], busy'[p])
        BY Zenon, <2>4, <3>3 DEF Orderly, DoorsAt, CallsAt, Served
      <4>3. QED
        BY Zenon, <2>2, <2>4, <4>1, <4>2 DEF Orderly
    <3>4. QED
      BY Zenon, <2>3, <3>1, <3>2, <3>3
  <2>5. Listing(p)'
    BY Zenon, <2>2, <2>3 DEF Listing, Listable
  <2>6. QED
    BY Zenon, <2>1, <2>4, <2>5 DEF Keeps
<1>8. DOMAIN Guard = {"landing", "read"}
  BY Zenon DEF Guard
<1>9. QED
  BY Zenon, <1>1, <1>2, <1>3, <1>4, <1>5, <1>6, <1>7, <1>8

\* The stores that a step leaves alone stay in order.
LEMMA KeepsOrder == ASSUME Domains, \A q \in Proc : InOrder(q), NEW p \in Proc, Keeps(p)
                    PROVE  Domains' /\ \A q \in Proc : InOrder(q)'
<1>1. ASSUME NEW q \in Proc \ {p} PROVE InOrder(q)'
  BY Zenon DEF Keeps, Frame, Same, InOrder, Orderly, Listing
<1>2. QED
  BY Zenon, <1>1 DEF Keeps, Frame, InOrder

\* A remote write pins blocks here and enters the handler of a store that serves.
LEMMA SaveRemoteOrder == ASSUME Domains, \A q \in Proc : InOrder(q), NEW p \in Proc, SaveRemote(p)
                         PROVE  Domains' /\ \A q \in Proc : InOrder(q)'
<1>1. /\ UNCHANGED <<conf, stage, open, alive, registered, excused>>
      /\ DOMAIN busy' = Proc /\ DOMAIN pinned' = Proc
      /\ \A q \in Proc : \/ busy'[q] = busy[q]
                         \/ "server" \in open[q] /\ busy'[q] = busy[q] \cup {"rpc"}
      /\ \A q \in Proc : \/ pinned'[q] = pinned[q]
                         \/ stage[q] = "up" /\ pinned'[q] = pinned[q] \cup {"write"}
  BY DEF SaveRemote, Enter, Domains
<1>2. ASSUME NEW q \in Proc, conf[q].private PROVE Orderly(q)'
  <2>1. Orderly(q)
    BY Zenon, <1>2 DEF InOrder
  <2>2. \/ busy'[q] = busy[q]
        \/ "server" \in open[q] /\ busy'[q] = busy[q] \cup {"rpc"}
    BY Zenon, <1>1
  <2>3. Safe(conf[q], open[q], busy'[q], alive[q])
    BY Zenon, <2>1, <2>2 DEF Orderly, Safe
  <2>4. CallsAt(stage[q], busy'[q])
    BY Zenon, <2>1, <2>2 DEF Orderly, DoorsAt, CallsAt, Served
  <2>5. PinsAt(stage[q], pinned'[q]) /\ busy'[q] \subseteq User
    BY <1>1, <2>1 DEF Orderly, PinsAt, User
  <2>6. QED
    BY Zenon, <1>1, <2>1, <2>3, <2>4, <2>5 DEF Orderly
<1>3. ASSUME NEW q \in Proc PROVE Listing(q)'
  BY Zenon, <1>1 DEF InOrder, Listing
<1>4. QED
  BY Zenon, <1>1, <1>2, <1>3 DEF Domains, InOrder

-----------------------------------------------------------------------------
(* The registry's tables.                                                  *)

StoresQuiet == UNCHANGED <<conf, stores, registered>> /\ excused \subseteq excused'
SpecsQuiet == UNCHANGED <<conf, specs, geometry, current>>

\* The steps of a store that touch neither table.
QuietStep(p) ==
  \/ Launch(p) \/ MakeRaidenController(p) \/ AwaitWorkerCount(p) \/ StartStoreServer(p)
  \/ StartThreads(p) \/ StartMonitor(p) \/ RegisterRank(p) \/ StartReshardService(p)
  \/ ShutdownServers(p) \/ Quiesce(p) \/ AbandonWrites(p) \/ AwaitFutures(p)
  \/ DetachController(p) \/ FreeController(p)
  \/ EndEnroll(p) \/ EndLease(p) \/ EndRpc(p) \/ Heartbeat(p)
  \/ (\E u \in {"poll", "save", "reshard", "commit", "resume"} : EndCall(p, u))
  \/ Call(p) \/ SaveRemote(p) \/ StartBackendServer(p) \/ Destroy(p) \/ Crash(p) \/ Abort(p)
  \/ \E u \in DOMAIN Guard : Continue(p, u)

LEMMA QuietTables == ASSUME NEW p \in Proc, QuietStep(p) PROVE StoresQuiet /\ SpecsQuiet
<1> USE DEF table, StoresQuiet, SpecsQuiet
<1>1. CASE Launch(p) \/ MakeRaidenController(p) \/ AwaitWorkerCount(p) \/ StartStoreServer(p)
  BY Zenon, <1>1 DEF Launch, MakeRaidenController, AwaitWorkerCount, StartStoreServer
<1>2. CASE StartThreads(p) \/ StartMonitor(p) \/ RegisterRank(p) \/ StartReshardService(p)
  BY Zenon, <1>2 DEF StartThreads, StartMonitor, RegisterRank, StartReshardService
<1>3. CASE ShutdownServers(p) \/ Quiesce(p) \/ AbandonWrites(p) \/ AwaitFutures(p)
  BY Zenon, <1>3 DEF ShutdownServers, Quiesce, AbandonWrites, AwaitFutures
<1>4. CASE DetachController(p) \/ FreeController(p) \/ EndEnroll(p) \/ EndLease(p)
  BY Zenon, <1>4 DEF DetachController, FreeController, EndEnroll, EndLease
<1>5. CASE EndRpc(p) \/ Heartbeat(p) \/ Call(p) \/ SaveRemote(p) \/ StartBackendServer(p)
  BY Zenon, <1>5 DEF EndRpc, Heartbeat, Call, SaveRemote, StartBackendServer
<1>6. CASE Destroy(p) \/ Crash(p) \/ Abort(p)
  BY Zenon, <1>6 DEF Destroy, Crash, Abort, Die
<1>7. CASE \/ \E u \in {"poll", "save", "reshard", "commit", "resume"} : EndCall(p, u)
           \/ \E u \in DOMAIN Guard : Continue(p, u)
  BY Zenon, <1>7 DEF EndCall, Continue
<1>8. QED
  BY Zenon, <1>1, <1>2, <1>3, <1>4, <1>5, <1>6, <1>7 DEF QuietStep

\* A record that stays keeps what is said of its owner.
LEMMA QuietListed == Listed /\ StoresQuiet => Listed'
  BY Zenon DEF Listed, StoresQuiet

\* The groups are a matter of the configuration.
LEMMA SameGroups == ASSUME conf' = conf PROVE Groups' = Groups /\ \A p \in Proc : Group(p)' = Group(p)
<1>1. \A p : Group(p)' = Group(p)
  BY Zenon DEF Group
<1>2. QED
  BY Zenon, <1>1 DEF Groups

LEMMA QuietGroup == GroupInv /\ SpecsQuiet => GroupInv'
  BY Zenon, SameGroups DEF GroupInv, SpecsQuiet

\* A record that is written names its owner, who is registered or excused.
LEMMA RegisterStoreListed ==
  ASSUME Listed, NEW p \in Proc, RegisterStore(p), conf' = conf, excused \subseteq excused',
         \A q \in Proc : registered[q] => registered'[q], p \in excused' \/ registered'[p]
  PROVE  Listed'
<1>1. Record(p).at = p
  BY Zenon DEF Record
<1>2. DOMAIN stores' = Id
  BY Zenon DEF RegisterStore, Listed
<1>3. ASSUME NEW i \in Id, stores'[i] # Nil
      PROVE  /\ stores'[i].at \in Proc /\ conf[stores'[i].at].id = i
             /\ stores'[i].at \in excused' \/ registered'[stores'[i].at]
  <2>1. CASE i = conf[p].id
    BY <1>1, <2>1 DEF RegisterStore, Listed
  <2>2. CASE i # conf[p].id
    BY Zenon, <1>3, <2>2 DEF RegisterStore, Listed
  <2>3. QED
    BY Zenon, <2>1, <2>2
<1>4. QED
  BY Zenon, <1>2, <1>3 DEF Listed

\* A store that unregisters leaves no record of its own, or is excused.
LEMMA UnlistListed == ASSUME Domains, Listed, NEW p \in Proc, Listing(p), Unlist(p) PROVE Listed'
<1>1. conf' = conf /\ excused \subseteq excused' /\ \A q \in Proc \ {p} : registered'[q] = registered[q]
  BY Zenon DEF Unlist, CallUnregisterStore, Domains
<1>2. CASE registered[p] /\ UnregisterStore(p)
  BY <1>1, <1>2 DEF Listed, UnregisterStore
<1>3. CASE p \in excused' /\ stores' = stores
  BY Zenon, <1>1, <1>3 DEF Listed
<1>4. CASE ~registered[p] /\ stores' = stores
  BY <1>1, <1>4 DEF Listed
<1>5. QED
  BY Zenon, <1>2, <1>3, <1>4 DEF Unlist, CallUnregisterStore

\* Only a spec the group has, or the first one, is adopted.
LEMMA AdoptGroup ==
  ASSUME GroupInv, NEW p \in Proc, NEW s, s # Nil, conf' = conf, specs[Group(p)] \in {Nil, s}, Adopt(p, s),
         DOMAIN specs' = Groups, specs'[Group(p)] = s,
         \A g \in Groups \ {Group(p)} : specs'[g] = specs[g]
  PROVE  GroupInv'
<1>1. \A q \in Proc : Group(q) \in Groups
  BY Zenon DEF Groups
<1>2. Groups' = Groups /\ \A q \in Proc : Group(q)' = Group(q)
  BY Zenon, SameGroups
<1>3. ASSUME NEW q \in current' PROVE specs'[Group(q)] = geometry'[q] /\ geometry'[q] # Nil
  <2>1. CASE q = p
    BY Zenon, <1>1, <2>1 DEF GroupInv, Adopt
  <2>2. CASE q # p /\ Group(q) = Group(p)
    BY Zenon, <1>1, <1>3, <2>2 DEF GroupInv, Adopt
  <2>3. CASE q # p /\ Group(q) # Group(p)
    BY Zenon, <1>1, <1>3, <2>3 DEF GroupInv, Adopt
  <2>4. QED
    BY Zenon, <2>1, <2>2, <2>3
<1>4. DOMAIN specs' = Groups' /\ DOMAIN geometry' = Proc /\ current' \subseteq Proc
  BY Zenon, <1>2 DEF GroupInv, Adopt
<1>5. QED
  BY Zenon, <1>2, <1>3, <1>4 DEF GroupInv

\* A call that publishes a spec, whatever becomes of it.
LEMMA PublishGroup ==
  ASSUME GroupInv, NEW p \in Proc, NEW s, NEW ok \in BOOLEAN, conf' = conf, PublishSpec(p, s, ok)
  PROVE  GroupInv'
<1>1. \/ UNCHANGED <<specs, geometry, current>>
      \/ s # Nil /\ RegisterKVTransferSpec(p, s)
  BY Zenon DEF PublishSpec, CallRegisterSpec
<1>2. CASE UNCHANGED <<specs, geometry, current>>
  BY Zenon, <1>2, QuietGroup DEF SpecsQuiet
<1>3. CASE s # Nil /\ RegisterKVTransferSpec(p, s)
  <2>1. Group(p) \in Groups
    BY Zenon DEF Groups
  <2>2. QED
    BY Zenon, <1>3, <2>1, AdoptGroup DEF RegisterKVTransferSpec, GroupInv
<1>4. QED
  BY Zenon, <1>1, <1>2, <1>3

\* Every step keeps both tables.
LEMMA TablesStep == ASSUME LifeInv, LifeNext PROVE Listed' /\ GroupInv'
<1>1. Domains /\ (\A p \in Proc : Listing(p)) /\ Listed /\ GroupInv
  BY Zenon DEF LifeInv, InOrder
<1>2. ASSUME NEW p \in Proc, QuietStep(p) PROVE Listed' /\ GroupInv'
  BY Zenon, <1>1, <1>2, QuietTables, QuietListed, QuietGroup
<1>3. ASSUME NEW p \in Proc, WaitForSpec(p) PROVE Listed' /\ GroupInv'
  <2>1. StoresQuiet /\ conf' = conf
    BY Zenon, <1>3 DEF WaitForSpec, StoresQuiet
  <2>2. CASE UNCHANGED <<geometry, current>>
    BY Zenon, <1>1, <1>3, <2>1, <2>2, QuietListed, QuietGroup DEF WaitForSpec, SpecsQuiet
  <2>3. CASE GetKVTransferSpec(p) # Nil /\ Adopt(p, GetKVTransferSpec(p))
    <3>1. /\ specs' = specs /\ DOMAIN specs' = Groups
          /\ specs'[Group(p)] = GetKVTransferSpec(p)
      BY Zenon, <1>1, <1>3 DEF WaitForSpec, GetKVTransferSpec, GroupInv
    <3>2. specs[Group(p)] \in {Nil, GetKVTransferSpec(p)}
      BY Zenon DEF GetKVTransferSpec
    <3>3. GroupInv'
      BY Zenon, <1>1, <2>1, <2>3, <3>1, <3>2, AdoptGroup
    <3>4. QED
      BY Zenon, <1>1, <2>1, <3>3, QuietListed
  <2>4. QED
    BY Zenon, <1>1, <1>3, <2>1, <2>2, <2>3, QuietListed DEF WaitForSpec
<1>4. ASSUME NEW p \in Proc, CreateStore(p) PROVE Listed' /\ GroupInv'
  <2>1. StoresQuiet /\ conf' = conf
    BY Zenon, <1>4 DEF CreateStore, StoresQuiet
  <2>2. PICK ok \in BOOLEAN : CreateBackend(p, ok)
    BY Zenon, <1>4 DEF CreateStore
  <2>3. GroupInv'
    BY Zenon, <1>1, <2>1, <2>2, PublishGroup, QuietGroup DEF CreateBackend, SpecsQuiet
  <2>4. QED
    BY Zenon, <1>1, <2>1, <2>3, QuietListed
<1>5. ASSUME NEW p \in Proc, RegisterKVTransferSpecFromWorkers(p) PROVE Listed' /\ GroupInv'
  <2>1. StoresQuiet /\ conf' = conf
    BY Zenon, <1>5 DEF RegisterKVTransferSpecFromWorkers, StoresQuiet
  <2>2. PICK ok \in BOOLEAN : SpecFromWorkers(p, ok) \/ UNCHANGED <<specs, geometry, current>>
    BY Zenon, <1>5 DEF RegisterKVTransferSpecFromWorkers
  <2>3. GroupInv'
    BY Zenon, <1>1, <2>1, <2>2, PublishGroup, QuietGroup DEF SpecFromWorkers, SpecsQuiet
  <2>4. QED
    BY Zenon, <1>1, <2>1, <2>3, QuietListed
<1>6. ASSUME NEW p \in Proc, Publish(p) PROVE Listed' /\ GroupInv'
  <2>1. ~registered[p]
    BY Zenon, <1>1, <1>6 DEF Publish, Listing, Listable
  <2>2. SpecsQuiet /\ conf' = conf /\ excused' = excused
    BY Zenon, <1>6 DEF Publish, SpecsQuiet
  <2>3. PICK ok \in BOOLEAN : CallRegisterStore(p, ok) /\ registered' = [registered EXCEPT ![p] = ok]
    BY Zenon, <1>6 DEF Publish
  <2>4. CASE ok
    BY Zenon, <1>1, <2>1, <2>2, <2>3, <2>4, RegisterStoreListed, QuietGroup DEF CallRegisterStore, Domains
  <2>5. CASE ~ok
    BY <1>1, <2>1, <2>2, <2>3, <2>5, QuietGroup DEF CallRegisterStore, Domains, Listed
  <2>6. QED
    BY Zenon, <2>4, <2>5
<1>7. ASSUME NEW p \in Proc, Unlist(p) PROVE Listed' /\ GroupInv'
  <2>1. SpecsQuiet
    BY Zenon, <1>7 DEF Unlist, SpecsQuiet
  <2>2. QED
    BY Zenon, <1>1, <1>7, <2>1, UnlistListed, QuietGroup
<1>8. ASSUME NEW p \in Proc, Reregister(p) PROVE Listed' /\ GroupInv'
  <2>1. SpecsQuiet /\ UNCHANGED <<conf, registered, excused>>
    BY Zenon, <1>8 DEF Reregister, SpecsQuiet
  <2>2. registered[p]
    BY Zenon, <1>1, <1>8 DEF Reregister, Leave, Listing
  <2>3. \/ stores' = stores
        \/ RegisterStore(p)
    BY Zenon, <1>8 DEF Reregister, CallRegisterStore
  <2>4. QED
    BY Zenon, <1>1, <2>1, <2>2, <2>3, RegisterStoreListed, QuietListed, QuietGroup DEF StoresQuiet
<1>9. ASSUME NEW p \in Proc, LateRegister(p) PROVE Listed' /\ GroupInv'
  <2>1. /\ SpecsQuiet /\ RegisterStore(p) /\ UNCHANGED <<conf, registered>>
        /\ excused \subseteq excused' /\ p \in excused'
    BY Zenon, <1>9 DEF LateRegister, SpecsQuiet, object
  <2>2. QED
    BY Zenon, <1>1, <2>1, RegisterStoreListed, QuietGroup
<1>10. ASSUME NEW i \in Id, Lapse(i) PROVE Listed' /\ GroupInv'
  <2>1. SpecsQuiet /\ UNCHANGED <<conf, registered, excused>>
    BY Zenon, <1>10 DEF Lapse, SpecsQuiet, object
  <2>2. Listed'
    BY Zenon, <1>1, <1>10, <2>1 DEF Lapse, Listed
  <2>3. QED
    BY Zenon, <1>1, <2>1, <2>2, QuietGroup
<1>11. CASE RegistryRestart
  BY Zenon, <1>1, <1>11, SameGroups DEF RegistryRestart, Listed, GroupInv
<1>12. QED
  BY Zenon, <1>2, <1>3, <1>4, <1>5, <1>6, <1>7, <1>8, <1>9, <1>10, <1>11
     DEF LifeNext, QuietStep, Boot, Teardown, Finish

\* Every step keeps every store in order.
LEMMA OrderStep == ASSUME LifeInv, LifeNext PROVE Domains' /\ \A q \in Proc : InOrder(q)'
<1>1. Domains /\ \A q \in Proc : InOrder(q)
  BY Zenon DEF LifeInv
<1>2. ASSUME NEW p \in Proc, Boot(p) \/ Teardown(p) \/ Finish(p)
      PROVE  Domains' /\ \A q \in Proc : InOrder(q)'
  BY Zenon, <1>1, <1>2, BootOrder, TeardownOrder, FinishOrder, KeepsOrder
<1>3. ASSUME NEW p \in Proc,
             \/ Call(p) \/ StartBackendServer(p) \/ Destroy(p) \/ Crash(p)
             \/ Abort(p) \/ LateRegister(p)
             \/ \E u \in DOMAIN Guard : Continue(p, u)
      PROVE  Domains' /\ \A q \in Proc : InOrder(q)'
  BY Zenon, <1>1, <1>3, OtherOrder, KeepsOrder
<1>4. ASSUME NEW p \in Proc, SaveRemote(p)
      PROVE  Domains' /\ \A q \in Proc : InOrder(q)'
  BY Zenon, <1>1, <1>4, SaveRemoteOrder
<1>5. CASE (\E i \in Id : Lapse(i)) \/ RegistryRestart
  <2>1. UNCHANGED <<conf, object, excused>>
    BY Zenon, <1>5 DEF Lapse, RegistryRestart
  <2>2. QED
    BY Zenon, <1>1, <2>1 DEF object, Domains, InOrder, Orderly, Listing
<1>6. QED
  BY Zenon, <1>2, <1>3, <1>4, <1>5 DEF LifeNext

\* The inductive invariant of the lifecycle.
LEMMA LifeInvHolds == LifeSpec => []LifeInv
<1>1. LifeInit => LifeInv
  <2> SUFFICES ASSUME LifeInit PROVE LifeInv
    OBVIOUS
  <2>1. Domains /\ Listed /\ GroupInv
    BY Zenon DEF LifeInit, Domains, Listed, GroupInv
  <2>2. ASSUME NEW p \in Proc PROVE InOrder(p)
    BY Zenon DEF LifeInit, InOrder, Listing, Orderly, Safe, DoorsAt, CallsAt, PinsAt, BuiltAt,
           Unbuilt, Part, User
  <2>3. QED
    BY Zenon, <2>1, <2>2 DEF LifeInv
<1>2. LifeInv /\ [LifeNext]_lvars => LifeInv'
  <2>1. ASSUME LifeInv, LifeNext PROVE LifeInv'
    BY Zenon, <2>1, TablesStep, OrderStep DEF LifeInv
  <2>2. ASSUME LifeInv, UNCHANGED lvars PROVE LifeInv'
    <3>1. UNCHANGED <<conf, stage, open, busy, alive, pinned, registered, excused>>
      BY Zenon, <2>2 DEF lvars, object
    <3>2. StoresQuiet /\ SpecsQuiet
      BY Zenon, <2>2 DEF lvars, object, table, StoresQuiet, SpecsQuiet
    <3>3. Domains' /\ \A q \in Proc : InOrder(q)'
      BY Zenon, <2>2, <3>1 DEF LifeInv, Domains, InOrder, Orderly, Listing
    <3>4. QED
      BY Zenon, <2>2, <3>2, <3>3, QuietListed, QuietGroup DEF LifeInv
  <2>3. QED
    BY <2>1, <2>2
<1>3. QED
  BY <1>1, <1>2, PTL DEF LifeSpec

\* A record in the registry's table names a store whose server runs, for any number of
\* incarnations, ids and failures.
THEOREM ListedServesHolds == LifeSpec => []ListedServes
<1>1. LifeInv => ListedServes
  BY DEF LifeInv, Listed, InOrder, Listing, ListedServes
<1>2. QED
  BY <1>1, LifeInvHolds, PTL

\* Whatever fails on the way up and whatever runs on the way down, no call touches an
\* object that is gone and no pin stays behind.
THEOREM NothingOutlivesItsStoreHolds == LifeSpec => []NothingOutlivesItsStore
<1>1. ASSUME LifeInv, NEW p \in Proc, conf[p].private
      PROVE  /\ \A u \in busy[p] : Touches(p)[u] \subseteq alive[p]
             /\ stage[p] = "gone" => pinned[p] = {}
  <2>1. Orderly(p)
    BY Zenon, <1>1 DEF LifeInv, InOrder
  <2>2. ASSUME NEW u \in busy[p] PROVE Touches(p)[u] \subseteq alive[p]
    <3>1. u \in User
      BY Zenon, <2>1 DEF Orderly
    <3>2. CASE u \in {"enroll", "lease", "rpc", "landing", "commit", "poll"}
      BY <2>1, <2>2, <3>2 DEF Orderly, Safe, Touches
    <3>3. CASE u \in {"beat", "relist", "save", "read", "resume", "reshard"}
      BY <2>1, <2>2, <3>3 DEF Orderly, Safe, Touches
    <3>4. QED
      BY Zenon, <3>1, <3>2, <3>3 DEF User
  <2>3. stage[p] = "gone" => pinned[p] = {}
    BY Zenon, <2>1 DEF Orderly, PinsAt, Wired
  <2>4. QED
    BY Zenon, <2>2, <2>3
<1>2. LifeInv => NothingOutlivesItsStore
  BY <1>1 DEF NothingOutlivesItsStore
<1>3. QED
  BY <1>2, LifeInvHolds, PTL

\* The stores of a group agree on its transfer spec, however many publish at once.
THEOREM GroupAgreesHolds == LifeSpec => []GroupAgrees
<1>1. LifeInv => GroupAgrees
  BY DEF LifeInv, GroupInv, GroupAgrees
<1>2. QED
  BY <1>1, LifeInvHolds, PTL
=============================================================================
