--------------------------- MODULE StoreLifecycle ---------------------------
(***************************************************************************)
(* How a KVCacheStore comes up and goes away (KVCacheStore::Create and     *)
(* ~KVCacheStore, the host store node, the sidecars), against the global   *)
(* registry's tables of stores and of transfer specs.                      *)
(*                                                                         *)
(* A member of Proc is one incarnation of a store: it is built once and    *)
(* destroyed once, and two of them may carry the same raiden id, as a      *)
(* restarted node does.  stage[p] is where its constructing or destroying  *)
(* thread stands; busy[p] is the code of other threads that is running     *)
(* inside it; open[p] is what still lets such code in; alive[p] is the     *)
(* objects whose memory that code may touch.  A part that is shut down     *)
(* leaves open first, the thread that shuts it down then waits until the   *)
(* code it let in has left, and only then does the object leave alive.     *)
(***************************************************************************)
EXTENDS Naturals, Sequences, FiniteSets

CONSTANTS
  Proc,         \* the incarnations
  Id,           \* the raiden ids, records with a job name
  Deployments,  \* the configurations they are started with
  MaxTargets,   \* kDefaultMaxPlacementTargets
  MaxBusy,      \* bound on the calls running at any time
  MaxFaults,    \* bound on what goes wrong
  Nil

VARIABLES
  conf,        \* the deployment: each incarnation's configuration
  stage,
  open,
  busy,
  alive,
  workers,     \* worker_registry_: the workers that have registered
  registered,  \* registered_in_global_registry_
  peers,       \* store_clients_: the store each last reached under an id
  pinned,      \* the internal pins it holds in its backend: for a lease, for a write
  stores,      \* store_registry_
  specs,       \* transfer_specs_
  late,        \* stores whose RegisterStore was given up on and may still be applied
  geometry,    \* the spec each published or read
  current,     \* history: those that did so since the registry last started
  excused,     \* history: crashed, or an unregistration failed, or registered late
  faults

object == <<stage, open, busy, alive, workers, registered, peers, pinned>>
table == <<stores, specs, late, geometry, current>>
lvars == <<conf, object, table, excused, faults>>

Group(p) == IF conf[p].group = "" THEN conf[p].id.job ELSE conf[p].group
Groups == {Group(p) : p \in Proc}

User == {"enroll", "lease", "rpc", "landing", "commit", "poll", "beat", "relist",
         "save", "read", "resume", "reshard"}
Part == {"server", "backendserver", "service", "ctlserver", "hooks", "poller",
         "monitor", "controller", "reshard"}

LifeTypeOK ==
  /\ \A p \in Proc : /\ open[p] \subseteq Part
                     /\ busy[p] \subseteq User
                     /\ alive[p] \subseteq {"store", "controller", "service"}
                     /\ pinned[p] \subseteq {"lease", "write"}
  /\ late \cup current \cup excused \subseteq Proc
  /\ faults \in 0 .. MaxFaults

LifeInit ==
  /\ conf \in Deployments
  /\ stage = [p \in Proc |-> "off"]
  /\ open = [p \in Proc |-> {}]
  /\ busy = [p \in Proc |-> {}]
  /\ alive = [p \in Proc |-> {}]
  /\ workers = [p \in Proc |-> {}]
  /\ registered = [p \in Proc |-> FALSE]
  /\ peers = [p \in Proc |-> [i \in Id |-> Nil]]
  /\ pinned = [p \in Proc |-> {}]
  /\ stores = [i \in Id |-> Nil]
  /\ specs = [g \in Groups |-> Nil]
  /\ late = {} /\ current = {} /\ excused = {} /\ faults = 0
  /\ geometry = [p \in Proc |-> Nil]

Go(p, s) == stage' = [stage EXCEPT ![p] = s]
Shut(p, parts) == open' = [open EXCEPT ![p] = @ \ parts]
Start(p, parts) == open' = [open EXCEPT ![p] = @ \cup parts]
Fault == faults < MaxFaults /\ faults' = faults + 1

\* What the destructor of the store that a failed construction leaves behind does
\* first, and what a caller's does: the monitor's thread is told to stop.
Destruct(p) == Go(p, "stopping") /\ Shut(p, {"monitor"})

\* A construction that fails: Create returns the error and destroys what it has
\* built, with a store or with no more than its controller; the public constructors
\* end the process.
Fail(p, built) ==
  IF conf[p].raw THEN Go(p, "abort") /\ UNCHANGED open
  ELSE IF built THEN Destruct(p)
  ELSE Go(p, "cleanup") /\ UNCHANGED open

(***************************************************************************)
(* The registry.                                                           *)
(***************************************************************************)

Record(p) == [at |-> p, ttl |-> conf[p].monitor, group |-> Group(p), tier |-> conf[p].tier]

\* The same id again replaces the record: how a restarted store heals its entry.
RegisterStore(p) == stores' = [stores EXCEPT ![conf[p].id] = Record(p)]

UnregisterStore(p) == stores' = [stores EXCEPT ![conf[p].id] = Nil]

CallUnregisterStore(p) ==
  \/ UnregisterStore(p) /\ UNCHANGED <<excused, faults>>
  \/ Fault /\ excused' = excused \cup {p} /\ UNCHANGED stores

\* The client's call: it succeeds, or it fails, and a call that was given up on
\* after ten seconds may be applied at any later time.
CallRegisterStore(p, ok) ==
  IF ok THEN RegisterStore(p) /\ UNCHANGED <<late, faults>>
        ELSE Fault /\ late' \in {late, late \cup {p}} /\ UNCHANGED stores

LateRegister(p) ==
  /\ p \in late
  /\ late' = late \ {p}
  /\ RegisterStore(p)
  /\ excused' = excused \cup {p}
  /\ UNCHANGED <<conf, object, specs, geometry, current, faults>>

\* The members of the caller's group on the nearest greater tier; which of them are
\* handed out depends on the free blocks they reported.
PlacementTargets(i) ==
  LET above == {j \in Id : /\ stores[j] # Nil /\ stores[i] # Nil
                           /\ stores[j].group = stores[i].group
                           /\ stores[j].tier > stores[i].tier}
      nearest == {j \in above : \A k \in above : stores[j].tier <= stores[k].tier}
      n == IF Cardinality(nearest) < MaxTargets THEN Cardinality(nearest) ELSE MaxTargets
  IN {T \in SUBSET nearest : Cardinality(T) = n}

\* The time to live of a record nobody refreshed runs out.
Lapse(i) ==
  /\ stores[i] # Nil /\ stores[i].ttl
  /\ stores' = [stores EXCEPT ![i] = Nil]
  /\ UNCHANGED <<conf, object, specs, late, geometry, current, excused, faults>>

RegistryRestart ==
  /\ Fault
  /\ stores' = [i \in Id |-> Nil]
  /\ specs' = [g \in Groups |-> Nil]
  /\ current' = {}
  /\ UNCHANGED <<conf, object, late, geometry, excused>>

ValidSpec(s) ==
  s.arrays # <<>> /\ s.shards > 0 /\ s.workers > 0 /\ \A i \in DOMAIN s.arrays : s.arrays[i] > 0

\* The workers' registrations make a spec if they agree and their node ids are dense.
ComposeKVTransferSpec(W) ==
  IF /\ W # {}
     /\ \A v, w \in W : /\ w.arrays # <<>> /\ w.shards > 0
                        /\ v.arrays = w.arrays /\ v.shards = w.shards
     /\ {w.node : w \in W} = 0 .. Cardinality(W) - 1
  THEN LET w == CHOOSE w \in W : TRUE
       IN [arrays |-> w.arrays, shards |-> w.shards, workers |-> Cardinality(W)]
  ELSE Nil

Adopt(p, s) == geometry' = [geometry EXCEPT ![p] = s] /\ current' = current \cup {p}

\* Fault: the last deployment to publish wins.
LastSpecWins(p, s) ==
  /\ ValidSpec(s)
  /\ specs' = [specs EXCEPT ![Group(p)] = s]
  /\ Adopt(p, s)

\* The first one wins; an identical one is accepted, another is not.
RegisterKVTransferSpec(p, s) ==
  /\ ValidSpec(s)
  /\ specs[Group(p)] \in {Nil, s}
  /\ specs' = [specs EXCEPT ![Group(p)] = s]
  /\ Adopt(p, s)

SpecDifference(p, s) == specs[Group(p)] \notin {Nil, s}

\* The client's call; one that fails may have been applied.
CallRegisterSpec(p, s, ok) ==
  \/ ok /\ RegisterKVTransferSpec(p, s) /\ UNCHANGED faults
  \/ /\ ~ok /\ (~ValidSpec(s) \/ SpecDifference(p, s))
     /\ UNCHANGED <<specs, geometry, current, faults>>
  \/ ~ok /\ Fault /\ UNCHANGED <<specs, geometry, current>>
  \/ ~ok /\ Fault /\ RegisterKVTransferSpec(p, s)

\* The backend's part: it needs a spec, a registry and a group.
PublishSpec(p, s, ok) ==
  IF s # Nil /\ conf[p].registry /\ Group(p) # ""
  THEN CallRegisterSpec(p, s, ok)
  ELSE ~ok /\ UNCHANGED <<specs, geometry, current, faults>>

GetKVTransferSpec(p) == specs[Group(p)]

(***************************************************************************)
(* Coming up.                                                              *)
(***************************************************************************)

\* A host store node first needs the deployment's spec; a sidecar has no more than
\* the reshard plane's listener.
Launch(p) ==
  /\ stage[p] = "off"
  /\ Go(p, CASE conf[p].kind = "node" -> (IF conf[p].budget > 0 THEN "await" ELSE "gone")
             [] conf[p].kind = "sidecar" -> "reshard"
             [] OTHER -> "construct")
  /\ UNCHANGED <<conf, open, busy, alive, workers, registered, peers, pinned, table, excused,
                 faults>>

ValidateSpec(s) ==
  s.arrays # <<>> /\ s.shards # 0 /\ s.workers # 0 /\ \A i \in DOMAIN s.arrays : s.arrays[i] # 0

Total(a) == LET t[i \in 0 .. Len(a)] == IF i = 0 THEN 0 ELSE t[i - 1] + a[i] IN t[Len(a)]

NumBlocksForBudget(budget, s) == budget \div (s.workers * s.shards * Total(s.arrays))

Uniform(s) == \A i \in DOMAIN s.arrays : s.arrays[i] = s.arrays[1]

\* The node polls for the spec until it is published or its patience runs out; a
\* budget below one block, or arrays of different sizes, end the boot.
WaitForSpec(p) ==
  /\ stage[p] = "await"
  /\ LET s == GetKVTransferSpec(p)
     IN IF s # Nil /\ ValidateSpec(s) /\ NumBlocksForBudget(conf[p].budget, s) > 0 /\ Uniform(s)
        THEN Go(p, "construct") /\ Adopt(p, s)
        ELSE Go(p, "gone") /\ UNCHANGED <<geometry, current>>
  /\ UNCHANGED <<conf, open, busy, alive, workers, registered, peers, pinned, stores, specs, late,
                 excused, faults>>

ConstructionRules(c) == c.ip = "routable" /\ c.shards >= 1

\* The server's failure to start is logged and no more.
StartControllerServer(p) ==
  \/ Start(p, {"controller", "ctlserver"}) /\ UNCHANGED faults
  \/ Start(p, {"controller"}) /\ Fault

\* The rules checked before anything is built, then the controller and its server.
MakeRaidenController(p) ==
  /\ stage[p] = "construct"
  /\ IF ConstructionRules(conf[p])
     THEN /\ Go(p, "workers")
          /\ alive' = [alive EXCEPT ![p] = {"controller"}]
          /\ StartControllerServer(p)
     ELSE Go(p, "gone") /\ UNCHANGED <<open, alive, faults>>
  /\ UNCHANGED <<conf, busy, workers, registered, peers, pinned, table, excused>>

\* Construction waits for the workers it was told to expect, but not for ever.
AwaitWorkerCount(p) ==
  /\ stage[p] = "workers"
  /\ IF Cardinality(workers[p]) >= conf[p].expected THEN Go(p, "backend") /\ UNCHANGED open
                                                    ELSE Fail(p, FALSE)
  /\ UNCHANGED <<conf, busy, alive, workers, registered, peers, pinned, table, excused,
                 faults>>

\* A backend of the host tier publishes the spec given in its configuration.
CreateBackend(p, ok) ==
  IF conf[p].declared = Nil THEN ok /\ UNCHANGED <<specs, geometry, current, faults>>
                            ELSE PublishSpec(p, conf[p].declared, ok)

\* The constructor of the store itself.
Construct(p) ==
  /\ alive' = [alive EXCEPT ![p] = @ \cup {"store"}]
  /\ Go(p, "wire") /\ UNCHANGED open

CreateStore(p) ==
  /\ stage[p] = "backend"
  /\ \E ok \in BOOLEAN :
       /\ CreateBackend(p, ok)
       /\ IF ok THEN Construct(p) ELSE Fail(p, FALSE) /\ UNCHANGED alive
  /\ UNCHANGED <<conf, busy, workers, registered, peers, pinned, stores, late, excused>>

MonitorConfigOk(c) == c.sweep => c.monitor /\ c.low <= c.high /\ c.high <= 100

\* The service announces itself to the continuations it will leave behind.
NewService(p, part) ==
  Start(p, {part, "service"}) /\ alive' = [alive EXCEPT ![p] = @ \cup {"service"}]

StartServer(p, part) == part \notin open[p] /\ NewService(p, part)

\* EnsureStoreServerAndRegister up to the call: without a registry there is no
\* server, and a server that does not start ends the construction.
StartStoreServer(p) ==
  /\ stage[p] = "wire"
  /\ \/ ~MonitorConfigOk(conf[p]) /\ Destruct(p) /\ UNCHANGED <<alive, faults>>
     \/ /\ MonitorConfigOk(conf[p]) /\ ~conf[p].registry
        /\ Go(p, "threads") /\ UNCHANGED <<open, alive, faults>>
     \/ /\ MonitorConfigOk(conf[p]) /\ conf[p].registry
        /\ \/ StartServer(p, "server") /\ Go(p, "publish") /\ UNCHANGED faults
           \/ Fault /\ Fail(p, TRUE) /\ UNCHANGED alive
  /\ UNCHANGED <<conf, busy, workers, registered, peers, pinned, table, excused>>

Publish(p) ==
  /\ stage[p] = "publish"
  /\ \E ok \in BOOLEAN :
       /\ CallRegisterStore(p, ok)
       /\ registered' = [registered EXCEPT ![p] = ok]
       /\ IF ok THEN Go(p, "threads") /\ UNCHANGED open ELSE Fail(p, TRUE)
  /\ UNCHANGED <<conf, busy, alive, workers, peers, pinned, specs, geometry, current, excused>>

\* The hooks for the peers' leases go to the controller's server if it runs.
Hooks(p) == IF "ctlserver" \in open[p] THEN {"hooks"} ELSE {}

StartThreads(p) ==
  /\ stage[p] = "threads"
  /\ Start(p, {"poller"} \cup Hooks(p))
  /\ Go(p, "spec")
  /\ UNCHANGED <<conf, busy, alive, workers, registered, peers, pinned, table, excused, faults>>

SpecFromWorkers(p, ok) == PublishSpec(p, ComposeKVTransferSpec(workers[p]), ok)

\* A store that waited for its workers publishes the spec they make.
RegisterKVTransferSpecFromWorkers(p) ==
  /\ stage[p] = "spec"
  /\ \E ok \in BOOLEAN :
       /\ IF conf[p].expected > 0 /\ conf[p].registry /\ ~conf[p].raw
          THEN SpecFromWorkers(p, ok)
          ELSE ok /\ UNCHANGED <<specs, geometry, current, faults>>
       /\ IF ok THEN Go(p, "monitor") /\ UNCHANGED open ELSE Destruct(p)
  /\ UNCHANGED <<conf, busy, alive, workers, registered, peers, pinned, stores, late, excused>>

\* The monitor needs a registration to refresh.
StartMonitor(p) ==
  /\ stage[p] = "monitor"
  /\ LET then == CASE conf[p].kind = "node" -> "ranks"
                   [] conf[p].kind = "reshard" -> "reshard"
                   [] OTHER -> "up"
     IN IF ~conf[p].monitor THEN Go(p, then) /\ UNCHANGED open
        ELSE IF registered[p] THEN Go(p, then) /\ Start(p, {"monitor"})
        ELSE Destruct(p)
  /\ UNCHANGED <<conf, busy, alive, workers, registered, peers, pinned, table, excused, faults>>

\* A host store node's own workers register last, one per rank, through the
\* controller's server; a rank that cannot ends the boot.
RegisterRank(p) ==
  /\ stage[p] = "ranks"
  /\ LET n == Cardinality(workers[p])
     IN \/ /\ "ctlserver" \in open[p]
           /\ workers' = [workers EXCEPT ![p] = @ \cup {[node |-> n, arrays |-> <<>>,
                                                                 shards |-> 0]}]
           /\ IF n + 1 >= geometry[p].workers THEN Go(p, "up") ELSE UNCHANGED stage
           /\ UNCHANGED <<open, faults>>
        \/ "ctlserver" \notin open[p] /\ Destruct(p) /\ UNCHANGED <<workers, faults>>
        \/ Fault /\ Destruct(p) /\ UNCHANGED workers
  /\ UNCHANGED <<conf, busy, alive, registered, peers, pinned, table, excused>>

\* The last step of the two reshard configurations: the reshard plane's listener.
StartReshardService(p) ==
  /\ stage[p] = "reshard"
  /\ \/ Go(p, "up") /\ Start(p, {"reshard"}) /\ UNCHANGED faults
     \/ Fault /\ Destruct(p)
  /\ alive' = [alive EXCEPT ![p] = @ \cup {"store"}]
  /\ UNCHANGED <<conf, busy, workers, registered, peers, pinned, table, excused>>

\* A caller may start a server of the backend's own once the store is there.
StartBackendServer(p) ==
  /\ stage[p] = "up" /\ conf[p].kind # "sidecar" /\ conf[p].extra
  /\ StartServer(p, "backendserver")
  /\ UNCHANGED <<conf, stage, busy, workers, registered, peers, pinned, table, excused, faults>>

(***************************************************************************)
(* What runs inside a store.                                               *)
(***************************************************************************)

Running == UNION {{p} \X busy[p] : p \in Proc}

Enter(p, u) == Cardinality(Running) < MaxBusy /\ busy' = [busy EXCEPT ![p] = @ \cup {u}]
Leave(p, u) == u \in busy[p] /\ busy' = [busy EXCEPT ![p] = @ \ {u}]
Become(p, u, v) == u \in busy[p] /\ busy' = [busy EXCEPT ![p] = (@ \ {u}) \cup {v}]

\* What lets a call in: a running server, the installed hooks, a running thread;
\* saves and remote reads are the application's, which has the store while it is up.
Door == [enroll |-> "ctlserver", lease |-> "hooks", poll |-> "poller", beat |-> "monitor",
         reshard |-> "reshard"]

Call(p) ==
  /\ \/ \E u \in DOMAIN Door : Door[u] \in open[p] /\ u \notin busy[p] /\ Enter(p, u)
     \/ /\ open[p] \cap {"server", "backendserver"} # {}
        /\ "rpc" \notin busy[p] /\ Enter(p, "rpc")
     \/ /\ stage[p] = "up" /\ conf[p].kind # "sidecar"
        /\ \E u \in {"save", "read"} \ busy[p] : Enter(p, u)
  /\ UNCHANGED <<conf, stage, open, alive, workers, registered, peers, pinned, table, excused,
                 faults>>

\* A worker registers with the controller; a node id other than 0 is unique.
EndEnroll(p) ==
  /\ Leave(p, "enroll")
  /\ \/ UNCHANGED workers
     \/ \E w \in conf[p].workers \ workers[p] :
          /\ \A v \in workers[p] : w.node = 0 \/ v.node # w.node
          /\ workers' = [workers EXCEPT ![p] = @ \cup {w}]
  /\ UNCHANGED <<conf, stage, open, alive, registered, peers, pinned, table, excused, faults>>

\* A peer's lease pins what it is granted, until it is released or revoked.
EndLease(p) ==
  /\ Leave(p, "lease")
  /\ \/ pinned' = [pinned EXCEPT ![p] = @ \cup {"lease"}]
     \/ pinned' = [pinned EXCEPT ![p] = @ \ {"lease"}]
  /\ UNCHANGED <<conf, stage, open, alive, workers, registered, peers, table, excused, faults>>

\* A handler answers; WriteRemote leaves a transfer behind that lands later.
EndRpc(p) ==
  /\ Leave(p, "rpc") \/ ("landing" \notin busy[p] /\ Become(p, "rpc", "landing"))
  /\ UNCHANGED <<conf, stage, open, alive, workers, registered, peers, pinned, table, excused,
                 faults>>

\* A transfer's continuation works on the object only if it is still announced: the
\* service for a landing write, the controller for a remote read.
Guard == [landing |-> "service", read |-> "controller"]
Resumed == [landing |-> "commit", read |-> "resume"]

Continue(p, u) ==
  /\ IF Guard[u] \in open[p] THEN Resumed[u] \notin busy[p] /\ Become(p, u, Resumed[u])
                             ELSE Leave(p, u)
  /\ UNCHANGED <<conf, stage, open, alive, workers, registered, peers, pinned, table, excused,
                 faults>>

\* The rest end without a trace, but for the poll that settles a remote write.
EndCall(p, u) ==
  /\ Leave(p, u)
  /\ \/ UNCHANGED pinned
     \/ u = "poll" /\ pinned' = [pinned EXCEPT ![p] = @ \ {"write"}]
  /\ UNCHANGED <<conf, stage, open, alive, workers, registered, peers, table, excused, faults>>

ResolveStore(i) == IF stores[i] = Nil THEN Nil ELSE stores[i].at

\* The client kept for a peer is used without asking the registry again.
StoreClient(p, i) == IF peers[p][i] # Nil THEN peers[p][i] ELSE ResolveStore(i)

\* A remote write is offered to a store the registry proposes.  The blocks stay pinned
\* here while it is outstanding; a client whose server is gone is dropped.
SaveRemote(p) ==
  /\ stage[p] = "up" /\ "write" \notin pinned[p]
  /\ \E T \in PlacementTargets(conf[p].id) : \E i \in T :
       LET d == StoreClient(p, i)
       IN IF "server" \in open[d]
          THEN /\ "rpc" \notin busy[d] /\ Enter(d, "rpc")
               /\ peers' = [peers EXCEPT ![p][i] = d]
               /\ pinned' = [pinned EXCEPT ![p] = @ \cup {"write"}]
          ELSE peers' = [peers EXCEPT ![p][i] = Nil] /\ UNCHANGED <<busy, pinned>>
  /\ UNCHANGED <<conf, stage, open, alive, workers, registered, table, excused, faults>>

\* The monitor's heartbeat refreshes whatever record its id has; when there is none
\* the store registers again.
Heartbeat(p) ==
  /\ \/ stores[conf[p].id] # Nil /\ Leave(p, "beat") /\ UNCHANGED faults
     \/ stores[conf[p].id] = Nil /\ Become(p, "beat", "relist") /\ UNCHANGED faults
     \/ Fault /\ Leave(p, "beat")
  /\ UNCHANGED <<conf, stage, open, alive, workers, registered, peers, pinned, table, excused>>

Reregister(p) ==
  /\ Leave(p, "relist")
  /\ \E ok \in BOOLEAN : CallRegisterStore(p, ok)
  /\ UNCHANGED <<conf, stage, open, alive, workers, registered, peers, pinned, specs, geometry,
                 current, excused>>

(***************************************************************************)
(* Going away.                                                             *)
(***************************************************************************)

Destroy(p) ==
  /\ stage[p] = "up"
  /\ Destruct(p)
  /\ UNCHANGED <<conf, busy, alive, workers, registered, peers, pinned, table, excused, faults>>

Idle(p, users) == busy[p] \cap users = {}

\* Fault: the record goes while the monitor's last round is still running.
UnlistEarly(p) ==
  /\ stage[p] = "stopping"
  /\ IF registered[p] THEN CallUnregisterStore(p) ELSE UNCHANGED <<stores, excused, faults>>
  /\ registered' = [registered EXCEPT ![p] = FALSE]
  /\ Go(p, "unlisted")
  /\ UNCHANGED <<conf, open, busy, alive, workers, peers, pinned, specs, late, geometry, current>>

\* With the monitor's thread joined the store stops being found; a call that fails
\* is only logged.
Unlist(p) ==
  /\ stage[p] = "stopping" /\ Idle(p, {"beat", "relist"})
  /\ IF registered[p] THEN CallUnregisterStore(p) ELSE UNCHANGED <<stores, excused, faults>>
  /\ registered' = [registered EXCEPT ![p] = FALSE]
  /\ Go(p, "unlisted")
  /\ UNCHANGED <<conf, open, busy, alive, workers, peers, pinned, specs, late, geometry, current>>

\* The servers the backends may have of their own.
BackendStoreServers(p) == open[p] \cap {"backendserver"}

\* Its own server and the backends' take no more calls.
ShutdownServers(p) ==
  /\ stage[p] = "unlisted"
  /\ Shut(p, {"server"} \cup BackendStoreServers(p)) /\ Go(p, "draining")
  /\ UNCHANGED <<conf, busy, alive, workers, registered, peers, pinned, table, excused, faults>>

\* A server that is shut down frees its service.
ResetService(p) == alive' = [alive EXCEPT ![p] = @ \ {"service"}]

\* Fault: the service is freed under a completion that is running.
QuiesceUnlocked(p) ==
  /\ stage[p] = "draining" /\ Idle(p, {"rpc"})
  /\ Shut(p, {"service", "poller"}) /\ Go(p, "joining")
  /\ ResetService(p)
  /\ UNCHANGED <<conf, busy, workers, registered, peers, pinned, table, excused, faults>>

\* The handlers have returned.  The service waits for the writes that are landing,
\* for a bounded time, and for a completion that is running, however long; then it is
\* gone and the poller is told to stop.
Quiesce(p) ==
  /\ stage[p] = "draining" /\ Idle(p, {"rpc", "commit"})
  /\ Shut(p, {"service", "poller"}) /\ Go(p, "joining")
  /\ ResetService(p)
  /\ UNCHANGED <<conf, busy, workers, registered, peers, pinned, table, excused, faults>>

\* The poller has returned: the writes that are outstanding are abandoned.
AbandonWrites(p) ==
  /\ stage[p] = "joining" /\ Idle(p, {"poll"})
  /\ pinned' = [pinned EXCEPT ![p] = @ \ {"write"}]
  /\ Go(p, "awaiting")
  /\ UNCHANGED <<conf, open, busy, alive, workers, registered, peers, table, excused, faults>>

\* The saves and loads in flight have ended: the members go, the reshard plane first.
AwaitFutures(p) ==
  /\ stage[p] = "awaiting" /\ Idle(p, {"save"})
  /\ Shut(p, {"reshard"}) /\ Go(p, "cleanup")
  /\ UNCHANGED <<conf, busy, alive, workers, registered, peers, pinned, table, excused, faults>>

\* RaidenController::Cleanup: remote reads are detached, then no registration runs,
\* then a server of its own is shut down.  The process-wide server goes on, hooks
\* included.
DetachController(p) ==
  /\ stage[p] = "cleanup" /\ Idle(p, {"reshard", "resume", "enroll"})
  /\ Shut(p, {"controller", "ctlserver"} \cup IF conf[p].private THEN {"hooks"} ELSE {})
  /\ Go(p, "closing")
  /\ UNCHANGED <<conf, busy, alive, workers, registered, peers, pinned, table, excused, faults>>

\* The service of that server unpins what the live leases held.
FreeController(p) ==
  /\ stage[p] = "closing" /\ (conf[p].private => Idle(p, {"lease"}))
  /\ pinned' = [pinned EXCEPT ![p] = IF conf[p].private THEN @ \ {"lease"} ELSE @]
  /\ alive' = [alive EXCEPT ![p] = {}]
  /\ Go(p, "gone")
  /\ UNCHANGED <<conf, open, busy, workers, registered, peers, table, excused, faults>>

Die(p) ==
  /\ Go(p, "gone")
  /\ open' = [open EXCEPT ![p] = {}]
  /\ busy' = [busy EXCEPT ![p] = {}]
  /\ alive' = [alive EXCEPT ![p] = {}]
  /\ pinned' = [pinned EXCEPT ![p] = {}]
  /\ excused' = excused \cup {p}
  /\ UNCHANGED <<conf, workers, registered, peers, table>>

Crash(p) == stage[p] \notin {"off", "gone"} /\ Fault /\ Die(p)

Abort(p) == stage[p] = "abort" /\ Die(p) /\ UNCHANGED faults

Boot(p) ==
  \/ Launch(p) \/ WaitForSpec(p) \/ MakeRaidenController(p) \/ AwaitWorkerCount(p)
  \/ CreateStore(p) \/ StartStoreServer(p) \/ Publish(p) \/ StartThreads(p)
  \/ RegisterKVTransferSpecFromWorkers(p) \/ StartMonitor(p) \/ RegisterRank(p)
  \/ StartReshardService(p)

Teardown(p) ==
  \/ Unlist(p) \/ ShutdownServers(p) \/ Quiesce(p) \/ AbandonWrites(p) \/ AwaitFutures(p)
  \/ DetachController(p) \/ FreeController(p)

Finish(p) ==
  \/ EndEnroll(p) \/ EndLease(p) \/ EndRpc(p) \/ Heartbeat(p) \/ Reregister(p)
  \/ \E u \in {"poll", "save", "reshard", "commit", "resume"} : EndCall(p, u)

LifeNext ==
  \/ \E p \in Proc :
       \/ Boot(p) \/ Teardown(p) \/ Finish(p) \/ Call(p) \/ SaveRemote(p)
       \/ StartBackendServer(p) \/ Destroy(p) \/ Crash(p) \/ Abort(p)
       \/ LateRegister(p) \/ \E u \in DOMAIN Guard : Continue(p, u)
  \/ \E i \in Id : Lapse(i)
  \/ RegistryRestart

LifeSpec == LifeInit /\ [][LifeNext]_lvars

(***************************************************************************)
(* Properties.                                                             *)
(***************************************************************************)

\* A store the registry names can be reached: unless its owner crashed, could not
\* unregister, or had a registration applied after it had given up on it, the server
\* at the recorded address is running, although two incarnations may share the
\* id and the monitor re-registers on a thread of its own (~KVCacheStore stops the
\* monitor, then unregisters, then stops serving).
ListedServes ==
  \A i \in Id : stores[i] # Nil =>
    "server" \in open[stores[i].at] \/ stores[i].at \in excused

Touches(p) ==
  [enroll |-> {"controller"}, lease |-> {"store"}, rpc |-> {"service", "controller"},
   landing |-> {}, commit |-> {"service", "controller"}, poll |-> {"store", "controller"},
   beat |-> {"store"}, relist |-> {"store"}, save |-> {"controller"}, read |-> {},
   resume |-> {"controller"},
   reshard |-> IF conf[p].kind = "sidecar" THEN {"store"} ELSE {"controller"}]

\* No code runs in an object that has been freed, and a destroyed store leaves no
\* pin in a backend that may outlive it, whichever step of the construction failed
\* and whatever was in flight (~KVCacheStore, ~KVCacheStoreServiceImpl, Cleanup).
\* Stores on the process-wide controller server are left out: its hooks outlive them.
NothingOutlivesItsStore ==
  \A p \in Proc : conf[p].private =>
    /\ \A u \in busy[p] : Touches(p)[u] \subseteq alive[p]
    /\ stage[p] = "gone" => pinned[p] = {}

\* The stores of a pool group that published or read its transfer spec since the
\* registry last started have the same one (RegisterKVTransferSpec, WaitForSpec).
GroupAgrees ==
  \A p, q \in current : Group(p) = Group(q) => geometry[p] = geometry[q]
=============================================================================
