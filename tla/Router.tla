------------------------------- MODULE Router -------------------------------
(***************************************************************************)
(* kube-haproxy.go: loadBalancerController.  Two informers (services and   *)
(* endpoints) keep local stores and put the key of whatever changed on a   *)
(* work queue; one worker goroutine takes a key and, whichever key it is,  *)
(* renders all services into haproxy.cfg and reloads haproxy.              *)
(*                                                                         *)
(* The module composes the work queue (WorkQueue), the HAProxy manager and *)
(* its processes (HAProxyManager), the informers as far as the worker can  *)
(* see them (a store write, then the event handler's enqueue), and the     *)
(* worker.  A service and its endpoints have the same namespace/name and   *)
(* so the same key.                                                        *)
(***************************************************************************)
EXTENDS Naturals, Sequences, FiniteSets

CONSTANTS
  Key,          \* namespace/name of services and endpoints
  Lbc,          \* the worker goroutine
  None,         \* nothing
  Partial,      \* a configuration file cut short or left over
  Pid,          \* process ids
  MaxFaults,    \* bound: faults of the environment (see HAProxyManager)
  MaxChanges    \* bound: writes to the stores

ASSUME NoneAssumption == None \notin Key /\ None # Partial /\ None \notin Pid
ASSUME BoundAssumption == MaxFaults \in Nat /\ MaxChanges \in Nat

Resource == {"services", "endpoints"}

\* What the worker distinguishes in an object: is it there, has a service a
\* name label, and does haproxy refuse what it renders to (say, one backend
\* per port under one name, for a service with several ports).
Kind(r) == IF r = "services"
           THEN {"absent", "unlabelled", "named", "refused"}
           ELSE {"absent", "present"}

VARIABLES
  store,    \* informer stores: the object last written under each key
  synced,   \* controller.HasSynced of each informer
  pend,     \* key whose event handler is to run after a store write
  changes,  \* store writes so far
  queue, dirty, processing, shuttingDown, waiting, woken, held, exited,
                                                    \* see WorkQueue
  mpc, conf, dryRun, oldPid, cfgFile, pidFile, live, loaded, faults,
                                                    \* see HAProxyManager
  pc,       \* where the worker stands
  svcs,     \* getServices: the listed services
  todo,     \* getServices: the services still to look at
  httpSvc   \* getServices: the result so far, None for a key left out

feed == <<store, synced, pend, changes>>
wq == <<queue, dirty, processing, shuttingDown, waiting, woken, held, exited>>
manager == <<mpc, conf, dryRun, oldPid, cfgFile, pidFile, live, loaded, faults>>
locals == <<svcs, todo, httpSvc>>
vars == <<feed, wq, manager, pc, locals>>

-----------------------------------------------------------------------------
(* What a store holds and what is rendered from it.                        *)

\* ver stands for the rest of the object: every write brings a new one.
Object(r) == [ver : Nat, kind : Kind(r)]
NoObject == [ver |-> 0, kind |-> "absent"]

\* One element of httpSvc.
Entry == [svc : Object("services"), ep : Object("endpoints")]

\* Mutant of ServiceEntry: the endpoints are forgotten.
ServiceWithoutEndpoints(s, e) ==
  IF s.kind \in {"named", "refused"} THEN [svc |-> s] ELSE None

\* None: a service without a name label is left out.
ServiceEntry(s, e) ==
  IF s.kind \in {"named", "refused"} THEN [svc |-> s, ep |-> e] ELSE None

\* The list getServices returns, which the template renders.
Config == [Key -> Entry \cup {None}]

ASSUME ConfigAssumption == Partial \notin Config /\ None \notin Config

NoServices == [k \in Key |-> None]

\* External: haproxy refuses a file with a backend it cannot accept.  A file
\* cut short is accepted: nothing may depend on haproxy noticing.
HaproxyAccepts(file) ==
  file = Partial \/ \A k \in Key : file[k] # None => file[k].svc.kind # "refused"

\* Nobody calls ShutDown: shuttingDown stays FALSE and exited empty.
Q == INSTANCE WorkQueue WITH Item <- Key, Worker <- {Lbc}

M == INSTANCE HAProxyManager WITH Accepts <- HaproxyAccepts

key == held[Lbc]

\* What the stores now say haproxy should serve under k, and what the
\* haproxy started last was given.
Wanted(k) == ServiceEntry(store["services"][k], store["endpoints"][k])
Served(k) == IF loaded = None THEN None ELSE loaded[k]

Init ==
  /\ store = [r \in Resource |-> [k \in Key |-> NoObject]]
  /\ synced = [r \in Resource |-> FALSE]
  /\ pend = [r \in Resource |-> None]
  /\ changes = 0
  /\ Q!Init
  /\ M!Init
  /\ pc = "idle"
  /\ svcs = [k \in Key |-> NoObject]
  /\ todo = {}
  /\ httpSvc = NoServices

-----------------------------------------------------------------------------
(* The informers.                                                          *)

\* setLastSyncResourceVersion after the first list: HasSynced turns true.
HasListed(r) ==
  /\ ~synced[r]
  /\ synced' = [synced EXCEPT ![r] = TRUE]
  /\ UNCHANGED <<store, pend, changes, wq, manager, pc, locals>>

\* NewInformer's Process writes one change to the store; the event handler
\* runs next, in the same goroutine.  A write of an equal object is left
\* out: UpdateFunc then does not enqueue.  Before the first list is complete
\* only its items can arrive.
StoreWrite(r, k, kind) ==
  /\ changes < MaxChanges
  /\ pend[r] = None
  /\ synced[r] \/ (store[r][k].ver = 0 /\ kind # "absent")
  /\ store' = [store EXCEPT ![r][k] = [ver |-> @.ver + 1, kind |-> kind]]
  /\ pend' = [pend EXCEPT ![r] = k]
  /\ changes' = changes + 1
  /\ UNCHANGED <<synced, wq, manager, pc, locals>>

\* Mutant of Enqueue: the handler drops the event while the worker is busy.
EnqueueWhenIdle(r) ==
  /\ pend[r] # None
  /\ \/ pc = "idle" /\ Q!Add(pend[r])
     \/ pc # "idle" /\ UNCHANGED <<queue, dirty, processing, shuttingDown, waiting, woken>>
  /\ pend' = [pend EXCEPT ![r] = None]
  /\ UNCHANGED <<store, synced, changes, held, exited, manager, pc, locals>>

\* The handler: enqueue(obj).
Enqueue(r) ==
  /\ pend[r] # None
  /\ Q!Add(pend[r])
  /\ pend' = [pend EXCEPT ![r] = None]
  /\ UNCHANGED <<store, synced, changes, held, exited, manager, pc, locals>>

-----------------------------------------------------------------------------
(* The worker.                                                             *)

GetKey ==
  /\ pc = "idle"
  /\ Q!GetItem(Lbc)
  /\ pc' = "sync"
  /\ UNCHANGED <<feed, manager, locals>>

GetBlocks ==
  /\ pc = "idle"
  /\ Q!GetWait(Lbc)
  /\ UNCHANGED <<feed, manager, pc, locals>>

\* sync returns deferredSync.
Defer ==
  /\ pc = "sync"
  /\ \E r \in Resource : ~synced[r]
  /\ pc' = "failed"
  /\ UNCHANGED <<feed, wq, manager, locals>>

\* getServices: svcLister.List, one atomic read of the services' store.
ListServices ==
  /\ pc = "sync"
  /\ \A r \in Resource : synced[r]
  /\ svcs' = store["services"]
  /\ todo' = {k \in Key : store["services"][k].kind # "absent"}
  /\ pc' = "getServices"
  /\ UNCHANGED <<feed, wq, manager, httpSvc>>

\* Mutant of GetEndpoints: endpoints that are being served are not read again.
GetCachedEndpoints(k) ==
  /\ pc = "getServices"
  /\ k \in todo
  /\ httpSvc' = [httpSvc EXCEPT ![k] =
       ServiceEntry(svcs[k], IF Served(k) = None THEN store["endpoints"][k]
                                                 ELSE Served(k).ep)]
  /\ todo' = todo \ {k}
  /\ UNCHANGED <<feed, wq, manager, pc, svcs>>

\* getServices, next service (in no particular order): getEndpoints reads
\* the endpoints' store now, which may have moved on since the list.
GetEndpoints(k) ==
  /\ pc = "getServices"
  /\ k \in todo
  /\ httpSvc' = [httpSvc EXCEPT ![k] = ServiceEntry(svcs[k], store["endpoints"][k])]
  /\ todo' = todo \ {k}
  /\ UNCHANGED <<feed, wq, manager, pc, svcs>>

\* haproxy.Sync(httpSvc, clusterNodes, false): the --dry flag is not read.
CallSync ==
  /\ pc = "getServices"
  /\ todo = {}
  /\ M!CallSync(httpSvc, FALSE)
  /\ pc' = "Sync"
  /\ UNCHANGED <<feed, wq, locals>>

\* Sync or Reload runs.
ManagerStep ==
  /\ pc \in {"Sync", "Reload"}
  /\ M!Step
  /\ UNCHANGED <<feed, wq, pc, locals>>

\* Sync is done; no services: Reload at once, else wait for the rate limiter.
SyncReturns ==
  /\ pc = "Sync" /\ mpc = "ok"
  /\ \/ httpSvc = NoServices /\ M!CallReload /\ pc' = "Reload"
     \/ httpSvc # NoServices /\ UNCHANGED manager /\ pc' = "accept"
  /\ UNCHANGED <<feed, wq, locals>>

\* reloadRateLimiter.Accept returns, Reload is called.
Accept ==
  /\ pc = "accept"
  /\ M!CallReload
  /\ pc' = "Reload"
  /\ UNCHANGED <<feed, wq, locals>>

\* Sync or Reload has failed, or the last Reload succeeded: sync returns.
SyncFails ==
  /\ pc \in {"Sync", "Reload"} /\ mpc = "err"
  /\ M!Return
  /\ pc' = "failed"
  /\ UNCHANGED <<feed, wq, locals>>

SyncSucceeds ==
  /\ pc = "Reload" /\ mpc = "ok"
  /\ M!Return
  /\ pc' = "ok"
  /\ UNCHANGED <<feed, wq, locals>>

\* Back to the top of the worker's loop; the locals of sync are gone.
NextRound ==
  /\ pc' = "idle"
  /\ held' = [held EXCEPT ![Lbc] = None]
  /\ svcs' = [k \in Key |-> NoObject]
  /\ todo' = {}
  /\ httpSvc' = NoServices
  /\ UNCHANGED <<feed, exited, manager>>

MarkDone ==
  /\ pc = "ok"
  /\ Q!Done(key)
  /\ NextRound

\* On an error the worker adds the key again, and does not call Done.
Requeue ==
  /\ pc = "failed"
  /\ Q!Add(key)
  /\ NextRound

Worker ==
  \/ GetKey \/ GetBlocks
  \/ Defer \/ ListServices \/ \E k \in Key : GetEndpoints(k)
  \/ CallSync \/ ManagerStep \/ SyncReturns \/ Accept
  \/ SyncFails \/ SyncSucceeds
  \/ MarkDone \/ Requeue

\* External: haproxy dies.
HaproxyDies ==
  /\ \E p \in Pid : M!Crash(p)
  /\ UNCHANGED <<feed, wq, pc, locals>>

Next ==
  \/ \E r \in Resource : HasListed(r)
  \/ \E r \in Resource, k \in Key : \E kind \in Kind(r) : StoreWrite(r, k, kind)
  \/ \E r \in Resource : Enqueue(r)
  \/ Worker
  \/ HaproxyDies

\* The goroutines run: both informers complete their first list and deliver
\* the events they owe, the worker goes on while it is not blocked in Get.
\* Nobody owes a change of the cluster or a fault.
Fairness ==
  /\ \A r \in Resource : WF_vars(HasListed(r)) /\ WF_vars(Enqueue(r))
  /\ WF_vars(Worker)

Spec == Init /\ [][Next]_vars /\ Fairness

-----------------------------------------------------------------------------
(* Properties.                                                             *)

TypeOK ==
  /\ store \in [Resource -> [Key -> Object("services") \cup Object("endpoints")]]
  /\ \A r \in Resource, k \in Key : store[r][k] \in Object(r)
  /\ synced \in [Resource -> BOOLEAN]
  /\ pend \in [Resource -> Key \cup {None}]
  /\ changes \in 0 .. MaxChanges
  /\ Q!TypeOK
  /\ M!TypeOK
  /\ pc \in {"idle", "sync", "getServices", "Sync", "accept", "Reload", "ok", "failed"}
  /\ svcs \in [Key -> Object("services")]
  /\ todo \in SUBSET Key
  /\ httpSvc \in Config

\* Keys the worker got, failed on and never reported Done.
Abandoned == processing \ {key}

\* A change of k is still to be worked on.
Pending(k) == k \in dirty \/ \E r \in Resource : pend[r] = k

Fresh(k) == Served(k) = Wanted(k)

Quiet ==
  /\ pc = "idle" /\ queue = <<>>
  /\ \A r \in Resource : pend[r] = None

(* The worker is driven by changes alone, so nothing repairs a change it   *)
(* misses.  Once the events are delivered and the worker has nothing to    *)
(* do, the haproxy started last serves under every key exactly what the    *)
(* stores hold, although the stores move while sync reads them: only a key *)
(* whose sync failed may be out of date.                                   *)
StaleIsAbandoned == Quiet => \A k \in Key : Fresh(k) \/ k \in Abandoned

(* A sync that succeeds brings every key up to date, whichever key caused  *)
(* it and also the keys abandoned before: what is stale when it returns    *)
(* changed after sync read it, and is pending.                             *)
SyncCatchesUp == pc = "ok" => \A k \in Key : Fresh(k) \/ Pending(k)

(* Why: from the listing on, what sync has in hand for a key that is not   *)
(* pending is what the stores hold.  todo, svcs, httpSvc, the argument of  *)
(* the manager and the running haproxy take turns in holding it.           *)
View(k) ==
  CASE pc = "getServices" ->
         IF k \in todo THEN ServiceEntry(svcs[k], store["endpoints"][k]) ELSE httpSvc[k]
    [] pc \in {"Sync", "accept", "Reload"} -> conf[k]
    [] OTHER -> Served(k)

ViewIsCurrent ==
  \A k \in Key : \/ Pending(k)
                 \/ View(k) = Wanted(k)
                 \/ pc \in {"idle", "sync", "failed"} /\ k \in processing

(* Under every key, haproxy comes to serve what the stores hold and stays  *)
(* there once they no longer change, unless the key was abandoned.         *)
EventuallyFresh == \A k \in Key : <>[](Fresh(k) \/ k \in Abandoned)

-----------------------------------------------------------------------------
(* What the repository says and the code does not do.                      *)

(* worker's log line on an error: "Requeuing %v because of error".  A key  *)
(* requeued is taken from the queue again.  One such error is deferredSync *)
(* at start-up, "Deferring sync till endpoints controller has synced."     *)
RequeuedIsRetried ==
  \A k \in Key : (pc = "failed" /\ key = k) ~> (pc = "sync" /\ key = k)
=============================================================================
