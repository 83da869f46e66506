----------------------------- MODULE RouterProofs -----------------------------
(***************************************************************************)
(* Proofs about Router, for any set of keys and any bounds: type           *)
(* correctness, SyncCatchesUp, StaleIsAbandoned, and what becomes of a key *)
(* whose sync failed.                                                      *)
(*                                                                         *)
(* The proofs about the two components are used through INSTANCE: QP is    *)
(* the work queue with the router's worker, MP the manager.  The           *)
(* router is not a well-behaved client of the queue (it does not call Done *)
(* after an error), so only the lemmas about single operations of the      *)
(* queue carry over; of the manager it is, and its invariant is kept.      *)
(***************************************************************************)
EXTENDS Router, FiniteSetTheorems, TLAPS

QP == INSTANCE WorkQueueProofs WITH Item <- Key, Worker <- {Lbc}
MP == INSTANCE HAProxyManagerProofs WITH Accepts <- HaproxyAccepts

FeedOK ==
  /\ store \in [Resource -> [Key -> Object("services") \cup Object("endpoints")]]
  /\ \A r \in Resource, k \in Key : store[r][k] \in Object(r)
  /\ synced \in [Resource -> BOOLEAN]
  /\ pend \in [Resource -> Key \cup {None}]
  /\ changes \in 0 .. MaxChanges

QueueOK ==
  /\ queue \in Seq(Key)
  /\ dirty \in SUBSET Key
  /\ processing \in SUBSET Key
  /\ shuttingDown = FALSE
  /\ waiting \in SUBSET {Lbc}
  /\ woken \in SUBSET {Lbc}
  /\ exited = {}
  /\ Q!QueueIsDirtyAndIdle

WorkerOK ==
  /\ held \in [{Lbc} -> Key \cup {None}]
  /\ pc \in {"idle", "sync", "getServices", "Sync", "accept", "Reload", "ok", "failed"}
  /\ svcs \in [Key -> Object("services")]
  /\ todo \in SUBSET Key
  /\ httpSvc \in Config

(* The worker and the call it makes: the manager is called between         *)
(* CallSync and the return of sync only, and never for a dry run.          *)
ControlInv ==
  /\ pc \in {"Sync", "accept", "Reload"} <=> mpc # "idle"
  /\ dryRun = FALSE
  /\ pc = "idle" <=> key = None
  /\ key # None => key \in processing
  /\ pc \in {"idle", "sync"} => httpSvc = NoServices

(* A key that is neither pending nor claimed by a Get is up to date.       *)
FreshInv == \A k \in Key : Pending(k) \/ k \in processing \/ Fresh(k)

RouterInv ==
  /\ FeedOK
  /\ QueueOK
  /\ MP!ManagerInv
  /\ WorkerOK
  /\ ControlInv
  /\ FreshInv
  /\ ViewIsCurrent

-----------------------------------------------------------------------------
(* The assumptions of the components hold in the router.                   *)

(* The queue's constants.                                                  *)
LEMMA QueueAssumptions == QP!NoneAssumption /\ QP!WorkerAssumption
<1>1. IsFiniteSet({Lbc})
  BY FS_Singleton
<1>2. QP!WorkerAssumption
  BY <1>1 DEF QP!WorkerAssumption, QP!IsFiniteSet, IsFiniteSet
<1>3. QP!NoneAssumption
  BY NoneAssumption DEF QP!NoneAssumption
<1> QED BY <1>2, <1>3

(* The manager's constants.                                                *)
LEMMA ManagerAssumptions ==
  MP!ConfigAssumption /\ MP!PidAssumption /\ MP!MaxFaultsAssumption
  BY NoneAssumption, ConfigAssumption, BoundAssumption
  DEF MP!ConfigAssumption, MP!PidAssumption, MP!MaxFaultsAssumption

-----------------------------------------------------------------------------
(* Operations of the queue.                                                *)

(* Appending an idle dirty key.                                            *)
LEMMA PushEffect ==
  ASSUME queue \in Seq(Key), waiting \in SUBSET {Lbc}, woken \in SUBSET {Lbc},
         NEW k \in Key, k \notin Q!Queued, Q!NoDuplicates, Q!Push(k)
  PROVE  /\ queue' \in Seq(Key)
         /\ Q!Queued' = Q!Queued \cup {k}
         /\ Q!NoDuplicates'
         /\ waiting' \in SUBSET {Lbc} /\ woken' \in SUBSET {Lbc}
<1>1. queue' = Append(queue, k)
  BY DEF Q!Push
<1>2. k \notin QP!Queued /\ QP!NoDuplicates
  BY DEF Q!Queued, QP!Queued, Q!NoDuplicates, QP!NoDuplicates
<1>3. queue' \in Seq(Key) /\ QP!Queued' = QP!Queued \cup {k} /\ QP!NoDuplicates'
  BY <1>1, <1>2, QueueAssumptions, QP!AppendQueued
<1>4. waiting' \in SUBSET {Lbc} /\ woken' \in SUBSET {Lbc}
  BY DEF Q!Push, Q!Signal
<1> QED
  BY <1>3, <1>4 DEF Q!Queued, QP!Queued, Q!NoDuplicates, QP!NoDuplicates

(* Add: the key is dirty afterwards, whoever has it.                       *)
LEMMA AddEffect ==
  ASSUME QueueOK, NEW k \in Key, Q!Add(k), exited' = exited
  PROVE  QueueOK' /\ dirty' = dirty \cup {k} /\ processing' = processing
<1>1. shuttingDown' = FALSE /\ processing' = processing
  BY DEF Q!Add, QueueOK
<1>2. CASE k \in dirty /\ UNCHANGED <<queue, dirty, waiting, woken>>
  BY <1>1, <1>2 DEF QueueOK, Q!QueueIsDirtyAndIdle, Q!Queued, Q!NoDuplicates
<1>3. CASE dirty' = dirty \cup {k} /\ k \in processing /\ UNCHANGED <<queue, waiting, woken>>
  BY <1>1, <1>3 DEF QueueOK, Q!QueueIsDirtyAndIdle, Q!Queued, Q!NoDuplicates
<1>4. CASE dirty' = dirty \cup {k} /\ k \notin dirty /\ k \notin processing /\ Q!Push(k)
  <2>1. k \notin Q!Queued /\ Q!NoDuplicates
    BY <1>4 DEF QueueOK, Q!QueueIsDirtyAndIdle
  <2>2. /\ queue' \in Seq(Key) /\ Q!Queued' = Q!Queued \cup {k} /\ Q!NoDuplicates'
        /\ waiting' \in SUBSET {Lbc} /\ woken' \in SUBSET {Lbc}
    BY <1>4, <2>1, PushEffect DEF QueueOK
  <2> QED BY <1>1, <1>4, <2>2 DEF QueueOK, Q!QueueIsDirtyAndIdle
<1> QED BY <1>2, <1>3, <1>4 DEF Q!Add, QueueOK

(* Done: the key is released, and stays dirty if it was.                   *)
LEMMA DoneEffect ==
  ASSUME QueueOK, NEW k \in Key, k \in processing, Q!Done(k), exited' = exited
  PROVE  QueueOK' /\ dirty' = dirty /\ processing' = processing \ {k}
<1>1. shuttingDown' = FALSE /\ processing' = processing \ {k} /\ dirty' = dirty
  BY DEF Q!Done, QueueOK
<1>2. CASE k \notin dirty /\ UNCHANGED <<queue, waiting, woken>>
  BY <1>1, <1>2 DEF QueueOK, Q!QueueIsDirtyAndIdle, Q!Queued, Q!NoDuplicates
<1>3. CASE k \in dirty /\ Q!Push(k)
  <2>1. k \notin Q!Queued /\ Q!NoDuplicates
    BY <1>3 DEF QueueOK, Q!QueueIsDirtyAndIdle
  <2>2. /\ queue' \in Seq(Key) /\ Q!Queued' = Q!Queued \cup {k} /\ Q!NoDuplicates'
        /\ waiting' \in SUBSET {Lbc} /\ woken' \in SUBSET {Lbc}
    BY <1>3, <2>1, PushEffect DEF QueueOK
  <2> QED BY <1>1, <1>3, <2>2 DEF QueueOK, Q!QueueIsDirtyAndIdle
<1> QED BY <1>2, <1>3 DEF Q!Done

(* Get: the key moves from dirty to processing.                            *)
LEMMA GetEffect ==
  ASSUME QueueOK, held \in [{Lbc} -> Key \cup {None}], Q!GetItem(Lbc)
  PROVE  /\ QueueOK'
         /\ held' \in [{Lbc} -> Key \cup {None}]
         /\ held'[Lbc] \in Key
         /\ dirty' = dirty \ {held'[Lbc]}
         /\ processing' = processing \cup {held'[Lbc]}
<1>1. queue \in Seq(Key) /\ queue # <<>> /\ queue' = Tail(queue) /\ QP!NoDuplicates
  BY DEF QueueOK, Q!QueueIsDirtyAndIdle, Q!GetItem, Q!NoDuplicates, QP!NoDuplicates
<1>2. /\ queue' \in Seq(Key) /\ Head(queue) \in Key
      /\ QP!Queued' = QP!Queued \ {Head(queue)} /\ QP!NoDuplicates'
  BY <1>1, QueueAssumptions, QP!TailQueued
<1>3. Q!Queued' = Q!Queued \ {Head(queue)} /\ Q!NoDuplicates'
  BY <1>2 DEF Q!Queued, QP!Queued, Q!NoDuplicates, QP!NoDuplicates
<1>4. held'[Lbc] = Head(queue) /\ held' \in [{Lbc} -> Key \cup {None}]
  BY <1>2 DEF Q!GetItem
<1>5. /\ processing' = processing \cup {Head(queue)} /\ dirty' = dirty \ {Head(queue)}
      /\ UNCHANGED <<shuttingDown, waiting, exited>> /\ woken' = woken \ {Lbc}
  BY DEF Q!GetItem
<1> QED
  BY <1>2, <1>3, <1>4, <1>5 DEF QueueOK, Q!QueueIsDirtyAndIdle

-----------------------------------------------------------------------------
(* Operations of the manager.                                              *)

ManagerMove ==
  \/ UNCHANGED manager
  \/ \E c \in Config : M!CallSync(c, FALSE)
  \/ M!CallReload
  \/ M!Return
  \/ M!Step
  \/ \E p \in Pid : M!Crash(p)

(* Whatever the router does with the manager keeps the manager's           *)
(* invariant.                                                              *)
LEMMA ManagerKeepsInv ==
  ASSUME MP!ManagerInv, ManagerMove
  PROVE  MP!ManagerInv'
<1>1. CASE UNCHANGED manager
  <2>1. UNCHANGED MP!mvars
    BY <1>1 DEF manager, MP!mvars
  <2> QED BY <2>1, ManagerAssumptions, MP!ManagerStepInv
<1>2. CASE \E c \in Config : M!CallSync(c, FALSE)
  <2>1. \E c \in Config, d \in BOOLEAN : MP!CallSync(c, d)
    BY <1>2 DEF M!CallSync, MP!CallSync, M!Goto, MP!Goto, M!disk, MP!disk, M!procs, MP!procs
  <2>2. MP!Next
    BY <2>1 DEF MP!Next
  <2> QED BY <2>2, ManagerAssumptions, MP!ManagerStepInv
<1>3. CASE M!CallReload \/ M!Return
  <2>1. MP!CallReload \/ MP!Return
    BY <1>3 DEF M!CallReload, MP!CallReload, M!Return, MP!Return, M!Goto, MP!Goto,
                M!disk, MP!disk, M!procs, MP!procs, M!args, MP!args
  <2>2. MP!Next
    BY <2>1 DEF MP!Next
  <2> QED BY <2>2, ManagerAssumptions, MP!ManagerStepInv
<1>4. CASE M!Step
  <2>1. MP!Step
    BY <1>4
    DEF M!Step, M!CreateFails, M!ExecuteFails, M!Build, M!Check, M!CheckRefuses, M!CheckFails,
        M!ReadPid, M!ReadPidFails, M!Exec, M!ExecReaped, M!ExecFails, M!Goto, M!FailAt, M!Fault,
        M!Takeover, M!Write, M!disk, M!procs, M!args,
        MP!Step, MP!CreateFails, MP!ExecuteFails, MP!Build, MP!Check, MP!CheckRefuses,
        MP!CheckFails, MP!ReadPid, MP!ReadPidFails, MP!Exec, MP!ExecReaped, MP!ExecFails, MP!Goto,
        MP!FailAt, MP!Fault, MP!Takeover, MP!Write, MP!disk, MP!procs, MP!args
  <2>2. MP!Next
    BY <2>1 DEF MP!Next
  <2> QED BY <2>2, ManagerAssumptions, MP!ManagerStepInv
<1>5. CASE \E p \in Pid : M!Crash(p)
  <2>1. \E p \in Pid : MP!Crash(p)
    BY <1>5 DEF M!Crash, MP!Crash, M!Fault, MP!Fault, M!args, MP!args, M!disk, MP!disk
  <2>2. MP!Next
    BY <2>1 DEF MP!Next
  <2> QED BY <2>2, ManagerAssumptions, MP!ManagerStepInv
<1> QED BY <1>1, <1>2, <1>3, <1>4, <1>5 DEF ManagerMove

(* A step of a call leaves its arguments alone, and what haproxy has       *)
(* loaded changes only to the services of the call.                        *)
LEMMA ManagerStepEffect ==
  ASSUME MP!ManagerInv, M!Step
  PROVE  /\ mpc # "idle" /\ mpc' # "idle"
         /\ conf' = conf /\ dryRun' = dryRun
         /\ loaded' = loaded \/ (loaded' = conf /\ conf \in Config)
<1>1. CASE M!Exec \/ M!ExecReaped
  <2>1. mpc = "exec" /\ mpc' \in {"ok", "err"} /\ (\E p \in Pid : M!Takeover(p))
    BY <1>1 DEF M!Exec, M!ExecReaped, M!Goto
  <2>2. cfgFile = conf /\ conf \in Config
    BY <2>1 DEF MP!ManagerInv, MP!TypeOK, MP!CallInv
  <2> QED BY <2>1, <2>2 DEF M!Takeover, M!args
<1>2. CASE M!CreateFails \/ M!CheckRefuses \/ M!CheckFails \/ M!ReadPidFails \/ M!ExecFails
  BY <1>2 DEF M!CreateFails, M!CheckRefuses, M!CheckFails, M!ReadPidFails, M!ExecFails,
              M!FailAt, M!Goto, M!args, M!procs
<1>3. CASE M!ExecuteFails \/ M!Build \/ M!Check \/ M!ReadPid
  BY <1>3 DEF M!ExecuteFails, M!Build, M!Check, M!ReadPid, M!Goto, M!args, M!procs
<1> QED BY <1>1, <1>2, <1>3 DEF M!Step

-----------------------------------------------------------------------------
(* Initial states.                                                         *)

(* Nothing is stored, nothing is served.                                   *)
LEMMA RouterInit == Init => RouterInv
<1> SUFFICES ASSUME Init PROVE RouterInv
  OBVIOUS
<1>1. \A r \in Resource : NoObject \in Object(r)
  BY DEF NoObject, Object, Kind
<1>2. FeedOK
  <2>1. changes \in 0 .. MaxChanges
    BY BoundAssumption DEF Init
  <2>2. synced \in [Resource -> BOOLEAN]
    BY DEF Init
  <2>3. store = [r \in Resource |-> [k \in Key |-> NoObject]] /\ Resource = {"services", "endpoints"}
    BY DEF Init, Resource
  <2> QED BY <1>1, <2>1, <2>2, <2>3 DEF Init, FeedOK
<1>3. QueueOK
  BY DEF Init, Q!Init, QueueOK, Q!QueueIsDirtyAndIdle, Q!Queued, Q!NoDuplicates
<1>4. MP!ManagerInv
  BY ManagerAssumptions, MP!ManagerInit DEF Init, M!Init, MP!Init
<1>5. WorkerOK
  <2>1. "services" \in Resource
    BY DEF Resource
  <2> QED BY <1>1, <2>1 DEF Init, Q!Init, WorkerOK, Config, NoServices
<1>6. ControlInv
  BY DEF Init, Q!Init, M!Init, ControlInv, key
<1>7. \A k \in Key : Wanted(k) = None /\ Served(k) = None
  BY DEF Init, M!Init, Wanted, Served, ServiceEntry, NoObject, Resource
<1>8. FreshInv /\ ViewIsCurrent
  BY <1>7 DEF Init, FreshInv, Fresh, ViewIsCurrent, View
<1> QED BY <1>2, <1>3, <1>4, <1>5, <1>6, <1>8 DEF RouterInv

-----------------------------------------------------------------------------
(* Steps of the informers.                                                 *)

(* HasSynced turning true concerns no property.                            *)
LEMMA HasListedKeepsInv ==
  ASSUME RouterInv, NEW r \in Resource, HasListed(r)
  PROVE  RouterInv'
<1>1. UNCHANGED <<store, pend, changes, queue, dirty, processing, shuttingDown, waiting, woken,
                  held, exited, mpc, conf, dryRun, loaded, pc, svcs, todo, httpSvc>>
      /\ UNCHANGED manager
  BY DEF HasListed, wq, manager, locals
<1>2. FeedOK'
  BY <1>1 DEF HasListed, RouterInv, FeedOK
<1>3. QueueOK' /\ WorkerOK' /\ ControlInv'
  BY <1>1 DEF RouterInv, QueueOK, Q!QueueIsDirtyAndIdle, Q!Queued, Q!NoDuplicates, WorkerOK,
              ControlInv, key
<1>4. MP!ManagerInv'
  BY <1>1, ManagerKeepsInv DEF RouterInv, ManagerMove
<1>5. FreshInv' /\ ViewIsCurrent'
  BY <1>1 DEF RouterInv, FreshInv, ViewIsCurrent, View, Pending, Fresh, Served, Wanted
<1> QED BY <1>2, <1>3, <1>4, <1>5 DEF RouterInv

(* A store write makes its key pending and leaves the others as they are.  *)
LEMMA StoreWriteKeepsInv ==
  ASSUME RouterInv, NEW r \in Resource, NEW k \in Key, NEW kind \in Kind(r),
         StoreWrite(r, k, kind)
  PROVE  RouterInv'
<1>1. UNCHANGED <<synced, queue, dirty, processing, shuttingDown, waiting, woken,
                  held, exited, mpc, conf, dryRun, loaded, pc, svcs, todo, httpSvc>>
      /\ UNCHANGED manager
  BY DEF StoreWrite, wq, manager, locals
<1>2. /\ pend[r] = None /\ pend' = [pend EXCEPT ![r] = k]
      /\ changes < MaxChanges /\ changes' = changes + 1
      /\ store' = [store EXCEPT ![r] =
                     [store[r] EXCEPT ![k] = [ver |-> store[r][k].ver + 1, kind |-> kind]]]
  BY DEF StoreWrite
<1>3. [ver |-> store[r][k].ver + 1, kind |-> kind] \in Object(r)
  BY DEF RouterInv, FeedOK, Object
<1>4. /\ store' \in [Resource -> [Key -> Object("services") \cup Object("endpoints")]]
      /\ \A q \in Resource, j \in Key :
           store'[q][j] = IF q = r /\ j = k THEN [ver |-> store[r][k].ver + 1, kind |-> kind]
                          ELSE store[q][j]
  <2>1. Object(r) \subseteq Object("services") \cup Object("endpoints")
    BY DEF Resource
  <2>2. store[r] \in [Key -> Object("services") \cup Object("endpoints")]
    BY DEF RouterInv, FeedOK
  <2> HIDE DEF Object
  <2> QED BY <1>2, <1>3, <2>1, <2>2 DEF RouterInv, FeedOK
<1>5. FeedOK'
  <2>1. changes' \in 0 .. MaxChanges
    BY <1>2, BoundAssumption DEF RouterInv, FeedOK
  <2>2. pend' \in [Resource -> Key \cup {None}]
    BY <1>2 DEF RouterInv, FeedOK
  <2> QED BY <1>1, <1>3, <1>4, <2>1, <2>2 DEF RouterInv, FeedOK
<1>6. QueueOK' /\ WorkerOK' /\ ControlInv'
  BY <1>1 DEF RouterInv, QueueOK, Q!QueueIsDirtyAndIdle, Q!Queued, Q!NoDuplicates, WorkerOK,
              ControlInv, key
<1>7. MP!ManagerInv'
  BY <1>1, ManagerKeepsInv DEF RouterInv, ManagerMove
<1>8. Pending(k)' /\ \A j \in Key : Pending(j) => Pending(j)'
  BY <1>1, <1>2, NoneAssumption DEF Pending, RouterInv, FeedOK
<1>9. \A j \in Key : j # k => Wanted(j)' = Wanted(j) /\ View(j)' = View(j) /\ Served(j)' = Served(j)
  BY <1>1, <1>4 DEF Wanted, View, Served, Resource
<1>10. FreshInv' /\ ViewIsCurrent'
  BY <1>1, <1>8, <1>9 DEF RouterInv, FreshInv, ViewIsCurrent, Fresh
<1> QED BY <1>5, <1>6, <1>7, <1>10 DEF RouterInv

(* The event handler turns a pending event into a dirty key.               *)
LEMMA EnqueueKeepsInv ==
  ASSUME RouterInv, NEW r \in Resource, Enqueue(r)
  PROVE  RouterInv'
<1>1. UNCHANGED <<store, synced, changes, held, exited, mpc, conf, dryRun, loaded,
                  pc, svcs, todo, httpSvc>>
      /\ UNCHANGED manager
  BY DEF Enqueue, manager, locals
<1>2. pend[r] \in Key /\ pend' = [pend EXCEPT ![r] = None] /\ Q!Add(pend[r])
  BY DEF Enqueue, RouterInv, FeedOK
<1>3. QueueOK' /\ dirty' = dirty \cup {pend[r]} /\ processing' = processing
  BY <1>1, <1>2, AddEffect DEF RouterInv
<1>4. FeedOK' /\ WorkerOK' /\ ControlInv'
  BY <1>1, <1>2, <1>3 DEF RouterInv, FeedOK, WorkerOK, ControlInv, key
<1>5. MP!ManagerInv'
  BY <1>1, ManagerKeepsInv DEF RouterInv, ManagerMove
<1>6. \A j \in Key : Pending(j) => Pending(j)'
  BY <1>2, <1>3 DEF Pending, RouterInv, FeedOK
<1>7. \A j \in Key : Wanted(j)' = Wanted(j) /\ View(j)' = View(j) /\ Served(j)' = Served(j)
  BY <1>1 DEF Wanted, View, Served
<1>8. FreshInv' /\ ViewIsCurrent'
  BY <1>1, <1>3, <1>6, <1>7 DEF RouterInv, FreshInv, ViewIsCurrent, Fresh
<1> QED BY <1>3, <1>4, <1>5, <1>8 DEF RouterInv

-----------------------------------------------------------------------------
(* Steps of the worker.  Most of them leave the stores and the queue alone *)
(* and then need to say only what becomes of the control, the locals, what *)
(* sync has in hand and what haproxy serves.                               *)

(* The frame of those steps.                                               *)
LEMMA WorkerFrame ==
  ASSUME RouterInv, UNCHANGED <<feed, wq>>, ManagerMove
  PROVE  /\ FeedOK' /\ QueueOK' /\ MP!ManagerInv'
         /\ held' \in [{Lbc} -> Key \cup {None}]
         /\ key' = key /\ processing' = processing
         /\ \A k \in Key : (Pending(k)' <=> Pending(k)) /\ Wanted(k)' = Wanted(k)
<1>1. UNCHANGED <<store, synced, pend, changes, queue, dirty, processing, shuttingDown,
                  waiting, woken, held, exited>>
  BY DEF feed, wq
<1>2. FeedOK' /\ QueueOK'
  BY <1>1 DEF RouterInv, FeedOK, QueueOK, Q!QueueIsDirtyAndIdle, Q!Queued, Q!NoDuplicates
<1>3. MP!ManagerInv'
  BY ManagerKeepsInv DEF RouterInv
<1> QED BY <1>1, <1>2, <1>3 DEF RouterInv, WorkerOK, key, Pending, Wanted

(* Get, deferredSync and the wait in Get.                                  *)
LEMMA GetKeyKeepsInv ==
  ASSUME RouterInv, GetKey
  PROVE  RouterInv'
<1>1. UNCHANGED <<store, synced, pend, changes, mpc, conf, dryRun, loaded, svcs, todo, httpSvc>>
      /\ UNCHANGED manager /\ pc = "idle" /\ pc' = "sync" /\ Q!GetItem(Lbc)
  BY DEF GetKey, feed, manager, locals
<1>2. /\ QueueOK' /\ held' \in [{Lbc} -> Key \cup {None}] /\ key' \in Key
      /\ dirty' = dirty \ {key'} /\ processing' = processing \cup {key'}
  BY <1>1, GetEffect DEF RouterInv, WorkerOK, key
<1>3. FeedOK' /\ WorkerOK'
  BY <1>1, <1>2 DEF RouterInv, FeedOK, WorkerOK
<1>4. ControlInv'
  BY <1>1, <1>2, NoneAssumption DEF RouterInv, ControlInv
<1>5. MP!ManagerInv'
  BY <1>1, ManagerKeepsInv DEF RouterInv, ManagerMove
<1>6. \A k \in Key :
        /\ Pending(k) => Pending(k)' \/ k \in processing'
        /\ Wanted(k)' = Wanted(k) /\ Served(k)' = Served(k)
        /\ View(k)' = View(k)
  BY <1>1, <1>2 DEF Pending, Wanted, Served, View
<1>7. processing \subseteq processing'
  BY <1>2
<1>8. FreshInv'
  BY <1>6, <1>7 DEF RouterInv, FreshInv, Fresh
<1>9. ViewIsCurrent'
  BY <1>1, <1>6, <1>7 DEF RouterInv, ViewIsCurrent
<1> QED BY <1>2, <1>3, <1>4, <1>5, <1>8, <1>9 DEF RouterInv

(* The worker goes to sleep in Get.                                        *)
LEMMA GetBlocksKeepsInv ==
  ASSUME RouterInv, GetBlocks
  PROVE  RouterInv'
<1>1. UNCHANGED <<store, synced, pend, changes, queue, dirty, processing, shuttingDown, held,
                  exited, mpc, conf, dryRun, loaded, pc, svcs, todo, httpSvc>>
      /\ UNCHANGED manager
      /\ waiting' = waiting \cup {Lbc} /\ woken' = woken \ {Lbc}
  BY DEF GetBlocks, Q!GetWait, feed, manager, locals
<1>2. FeedOK' /\ QueueOK' /\ WorkerOK' /\ ControlInv'
  BY <1>1 DEF RouterInv, FeedOK, QueueOK, Q!QueueIsDirtyAndIdle, Q!Queued, Q!NoDuplicates,
              WorkerOK, ControlInv, key
<1>3. MP!ManagerInv'
  BY <1>1, ManagerKeepsInv DEF RouterInv, ManagerMove
<1>4. FreshInv' /\ ViewIsCurrent'
  BY <1>1 DEF RouterInv, FreshInv, ViewIsCurrent, View, Pending, Fresh, Served, Wanted
<1> QED BY <1>2, <1>3, <1>4 DEF RouterInv

(* sync up to the call of the manager: what is listed and looked up is     *)
(* what the stores hold, for every key that is not pending.                *)
LEMMA ReadingKeepsInv ==
  ASSUME RouterInv, Defer \/ ListServices \/ (\E k \in Key : GetEndpoints(k))
  PROVE  RouterInv'
<1>1. UNCHANGED <<feed, wq>> /\ UNCHANGED manager
  BY DEF Defer, ListServices, GetEndpoints
<1>2. /\ FeedOK' /\ QueueOK' /\ MP!ManagerInv'
      /\ held' \in [{Lbc} -> Key \cup {None}]
      /\ key' = key /\ processing' = processing
      /\ \A k \in Key : (Pending(k)' <=> Pending(k)) /\ Wanted(k)' = Wanted(k)
  BY <1>1, WorkerFrame DEF ManagerMove
<1>3. UNCHANGED <<mpc, conf, dryRun, loaded, store>>
  BY <1>1 DEF manager, feed
<1>4. \A k \in Key : Served(k)' = Served(k)
  BY <1>3 DEF Served
<1>5. FreshInv'
  BY <1>2, <1>4 DEF RouterInv, FreshInv, Fresh
<1>6. /\ \A k \in Key : store["services"][k] \in Object("services")
      /\ \A k \in Key : store["endpoints"][k] \in Object("endpoints")
  BY DEF RouterInv, FeedOK, Resource
<1>7. CASE Defer
  <2>1. pc = "sync" /\ pc' = "failed" /\ UNCHANGED <<svcs, todo, httpSvc>>
    BY <1>7 DEF Defer, locals
  <2>2. WorkerOK' /\ ControlInv'
    BY <1>2, <1>3, <2>1 DEF RouterInv, WorkerOK, ControlInv
  <2>3. ViewIsCurrent'
    BY <1>2, <1>4, <2>1 DEF RouterInv, ViewIsCurrent, View
  <2> QED BY <1>2, <1>5, <2>2, <2>3 DEF RouterInv
<1>8. CASE ListServices
  <2>1. /\ pc = "sync" /\ pc' = "getServices"
        /\ svcs' = store["services"]
        /\ todo' = {k \in Key : store["services"][k].kind # "absent"}
        /\ httpSvc' = httpSvc /\ httpSvc = NoServices
    BY <1>8 DEF ListServices, RouterInv, ControlInv
  <2>2. svcs' \in [Key -> Object("services")]
    <3>1. store["services"] \in [Key -> Object("services") \cup Object("endpoints")]
      BY DEF RouterInv, FeedOK, Resource
    <3> QED BY <1>6, <2>1, <3>1
  <2>3. WorkerOK' /\ ControlInv'
    BY <1>2, <1>3, <2>1, <2>2 DEF RouterInv, WorkerOK, ControlInv
  <2>4. \A k \in Key : View(k)' = Wanted(k)
    <3> SUFFICES ASSUME NEW k \in Key PROVE View(k)' = Wanted(k)
      OBVIOUS
    <3>1. CASE k \in todo'
      BY <1>3, <2>1, <3>1 DEF View, Wanted
    <3>2. CASE k \notin todo'
      <4>1. store["services"][k].kind = "absent"
        BY <2>1, <3>2
      <4>2. Wanted(k) = None
        BY <4>1 DEF Wanted, ServiceEntry
      <4>3. View(k)' = None
        BY <2>1, <3>2 DEF View, NoServices
      <4> QED BY <4>2, <4>3
    <3> QED BY <3>1, <3>2
  <2>5. ViewIsCurrent'
    BY <1>2, <2>4 DEF ViewIsCurrent
  <2> QED BY <1>2, <1>5, <2>3, <2>5 DEF RouterInv
<1>9. CASE \E k \in Key : GetEndpoints(k)
  <2>1. PICK k \in Key : GetEndpoints(k)
    BY <1>9
  <2>2. /\ pc = "getServices" /\ pc' = pc /\ k \in todo /\ todo' = todo \ {k} /\ svcs' = svcs
        /\ httpSvc' = [httpSvc EXCEPT ![k] = ServiceEntry(svcs[k], store["endpoints"][k])]
    BY <2>1 DEF GetEndpoints
  <2>3. ServiceEntry(svcs[k], store["endpoints"][k]) \in Entry \cup {None}
    BY <1>6 DEF RouterInv, WorkerOK, ServiceEntry, Entry
  <2>4. httpSvc' \in Config
    BY <2>2, <2>3 DEF RouterInv, WorkerOK, Config
  <2>5. WorkerOK' /\ ControlInv'
    BY <1>2, <1>3, <2>2, <2>4 DEF RouterInv, WorkerOK, ControlInv
  <2>6. \A j \in Key : View(j)' = View(j)
    BY <1>3, <2>2 DEF View, RouterInv, WorkerOK, Config
  <2>7. ViewIsCurrent'
    BY <1>2, <2>2, <2>6 DEF RouterInv, ViewIsCurrent
  <2> QED BY <1>2, <1>5, <2>5, <2>7 DEF RouterInv
<1> QED BY <1>7, <1>8, <1>9

(* sync from the call of the manager to its return: the argument of the    *)
(* call takes over what sync has in hand, then haproxy does.               *)
LEMMA CallingKeepsInv ==
  ASSUME RouterInv,
         CallSync \/ ManagerStep \/ SyncReturns \/ Accept \/ SyncFails \/ SyncSucceeds
  PROVE  RouterInv'
<1>1. UNCHANGED <<feed, wq>> /\ UNCHANGED <<svcs, todo, httpSvc, store>>
  BY DEF CallSync, ManagerStep, SyncReturns, Accept, SyncFails, SyncSucceeds, locals, feed
<1>2. ManagerMove
  BY DEF CallSync, ManagerStep, SyncReturns, Accept, SyncFails, SyncSucceeds, ManagerMove,
         RouterInv, WorkerOK
<1>3. /\ FeedOK' /\ QueueOK' /\ MP!ManagerInv'
      /\ held' \in [{Lbc} -> Key \cup {None}]
      /\ key' = key /\ processing' = processing
      /\ \A k \in Key : (Pending(k)' <=> Pending(k)) /\ Wanted(k)' = Wanted(k)
  BY <1>1, <1>2, WorkerFrame
<1>4. CASE CallSync
  <2>1. /\ pc = "getServices" /\ pc' = "Sync" /\ todo = {}
        /\ conf' = httpSvc /\ dryRun' = FALSE /\ mpc' = "build" /\ loaded' = loaded
    BY <1>4 DEF CallSync, M!CallSync, M!Goto, M!procs
  <2>2. WorkerOK' /\ ControlInv'
    BY <1>1, <1>3, <2>1 DEF RouterInv, WorkerOK, ControlInv
  <2>3. \A k \in Key : View(k)' = View(k) /\ Served(k)' = Served(k)
    BY <2>1 DEF View, Served
  <2>4. FreshInv' /\ ViewIsCurrent'
    BY <1>3, <2>1, <2>3 DEF RouterInv, FreshInv, Fresh, ViewIsCurrent
  <2> QED BY <1>3, <2>2, <2>4 DEF RouterInv
<1>5. CASE ManagerStep
  <2>1. pc \in {"Sync", "Reload"} /\ pc' = pc /\ M!Step
    BY <1>5 DEF ManagerStep
  <2>2. /\ mpc # "idle" /\ mpc' # "idle" /\ conf' = conf /\ dryRun' = dryRun
        /\ loaded' = loaded \/ (loaded' = conf /\ conf \in Config)
    BY <2>1, ManagerStepEffect DEF RouterInv
  <2>3. WorkerOK' /\ ControlInv'
    BY <1>1, <1>3, <2>1, <2>2 DEF RouterInv, WorkerOK, ControlInv
  <2>4. \A k \in Key : View(k)' = conf[k] /\ View(k) = conf[k]
    BY <2>1, <2>2 DEF View
  <2>5. ViewIsCurrent'
    BY <1>3, <2>1, <2>4 DEF RouterInv, ViewIsCurrent
  <2>6. \A k \in Key : Served(k)' = Served(k) \/ Served(k)' = conf[k]
    BY <2>2, ConfigAssumption DEF Served
  <2>7. \A k \in Key : Pending(k) \/ conf[k] = Wanted(k)
    BY <2>1, <2>4 DEF RouterInv, ViewIsCurrent
  <2>8. FreshInv'
    BY <1>3, <2>6, <2>7 DEF RouterInv, FreshInv, Fresh
  <2> QED BY <1>3, <2>3, <2>5, <2>8 DEF RouterInv
<1>6. CASE SyncReturns \/ Accept
  <2>1. /\ pc \in {"Sync", "accept"} /\ pc' \in {"accept", "Reload"}
        /\ conf' = conf /\ dryRun' = dryRun /\ loaded' = loaded
        /\ mpc' # "idle"
    BY <1>6 DEF SyncReturns, Accept, M!CallReload, M!Goto, M!args, M!procs, manager,
                RouterInv, ControlInv
  <2>2. WorkerOK' /\ ControlInv'
    BY <1>1, <1>3, <2>1 DEF RouterInv, WorkerOK, ControlInv
  <2>3. \A k \in Key : View(k)' = View(k) /\ Served(k)' = Served(k)
    BY <2>1 DEF View, Served
  <2>4. FreshInv' /\ ViewIsCurrent'
    BY <1>3, <2>1, <2>3 DEF RouterInv, FreshInv, Fresh, ViewIsCurrent
  <2> QED BY <1>3, <2>2, <2>4 DEF RouterInv
<1>7. CASE SyncFails
  <2>1. /\ pc \in {"Sync", "Reload"} /\ pc' = "failed"
        /\ mpc' = "idle" /\ dryRun' = FALSE /\ loaded' = loaded
    BY <1>7 DEF SyncFails, M!Return, M!procs
  <2>2. WorkerOK' /\ ControlInv'
    BY <1>1, <1>3, <2>1 DEF RouterInv, WorkerOK, ControlInv
  <2>3. \A k \in Key : View(k)' = Served(k)' /\ Served(k)' = Served(k)
    BY <2>1 DEF View, Served
  <2>4. FreshInv'
    BY <1>3, <2>3 DEF RouterInv, FreshInv, Fresh
  <2>5. ViewIsCurrent'
    BY <2>1, <2>3, <2>4 DEF FreshInv, Fresh, ViewIsCurrent
  <2> QED BY <1>3, <2>2, <2>4, <2>5 DEF RouterInv
<1>8. CASE SyncSucceeds
  <2>1. /\ pc = "Reload" /\ mpc = "ok" /\ pc' = "ok"
        /\ mpc' = "idle" /\ dryRun' = FALSE /\ loaded' = loaded
    BY <1>8 DEF SyncSucceeds, M!Return, M!procs
  <2>2. WorkerOK' /\ ControlInv'
    BY <1>1, <1>3, <2>1 DEF RouterInv, WorkerOK, ControlInv
  <2>3. loaded = conf /\ conf # None
    BY <2>1 DEF RouterInv, ControlInv, MP!ManagerInv, MP!OkMeansLoaded, MP!CallInv
  <2>4. \A k \in Key : View(k) = conf[k] /\ View(k)' = conf[k] /\ Served(k)' = Served(k)
    BY <2>1, <2>3 DEF View, Served
  <2>5. FreshInv' /\ ViewIsCurrent'
    BY <1>3, <2>1, <2>4 DEF RouterInv, FreshInv, Fresh, ViewIsCurrent
  <2> QED BY <1>3, <2>2, <2>5 DEF RouterInv
<1> QED BY <1>4, <1>5, <1>6, <1>7, <1>8

(* The end of a round: Done, or Add after an error.                        *)
LEMMA RoundEndKeepsInv ==
  ASSUME RouterInv, MarkDone \/ Requeue
  PROVE  RouterInv'
<1>1. /\ UNCHANGED <<store, synced, pend, changes, exited, mpc, conf, dryRun, loaded>>
      /\ UNCHANGED manager
      /\ pc \in {"ok", "failed"} /\ pc' = "idle"
      /\ held' = [held EXCEPT ![Lbc] = None]
      /\ svcs' = [k \in Key |-> NoObject] /\ todo' = {} /\ httpSvc' = NoServices
  BY DEF MarkDone, Requeue, NextRound, feed, manager
<1>2. key \in Key /\ key \in processing
  BY <1>1 DEF RouterInv, ControlInv, WorkerOK, key
<1>3. /\ QueueOK'
      /\ \/ pc = "ok" /\ dirty' = dirty /\ processing' = processing \ {key}
         \/ pc = "failed" /\ dirty' = dirty \cup {key} /\ processing' = processing
  BY <1>1, <1>2, DoneEffect, AddEffect DEF MarkDone, Requeue, RouterInv
<1>4. FeedOK'
  BY <1>1 DEF RouterInv, FeedOK
<1>5. WorkerOK'
  <2>1. NoObject \in Object("services")
    BY DEF NoObject, Object, Kind
  <2>2. held' \in [{Lbc} -> Key \cup {None}]
    BY <1>1 DEF RouterInv, WorkerOK
  <2>3. NoServices \in Config
    BY DEF NoServices, Config
  <2> QED BY <1>1, <2>1, <2>2, <2>3 DEF WorkerOK
<1>6. ControlInv'
  BY <1>1 DEF RouterInv, ControlInv, WorkerOK, key
<1>7. MP!ManagerInv'
  BY <1>1, ManagerKeepsInv DEF RouterInv, ManagerMove
<1>8. \A k \in Key :
        /\ Pending(k) => Pending(k)'
        /\ Wanted(k)' = Wanted(k) /\ Served(k)' = Served(k)
        /\ View(k)' = Served(k) /\ View(k) = Served(k)
  BY <1>1, <1>3 DEF Pending, Wanted, Served, View
<1>9. FreshInv'
  <2>1. CASE pc = "ok"
    BY <1>8, <2>1 DEF RouterInv, ViewIsCurrent, FreshInv, Fresh
  <2>2. CASE pc = "failed" /\ processing' = processing
    BY <1>8, <2>2 DEF RouterInv, FreshInv, Fresh
  <2> QED BY <1>3, <2>1, <2>2
<1>10. ViewIsCurrent'
  BY <1>1, <1>8, <1>9 DEF FreshInv, Fresh, ViewIsCurrent
<1> QED BY <1>3, <1>4, <1>5, <1>6, <1>7, <1>9, <1>10 DEF RouterInv

(* A haproxy that dies changes nothing the router keeps.                   *)
LEMMA HaproxyDiesKeepsInv ==
  ASSUME RouterInv, HaproxyDies
  PROVE  RouterInv'
<1>1. /\ UNCHANGED <<feed, wq>> /\ UNCHANGED <<store, pc, svcs, todo, httpSvc>>
      /\ \E p \in Pid : M!Crash(p)
  BY DEF HaproxyDies, locals, feed
<1>2. UNCHANGED <<mpc, conf, dryRun, loaded>>
  BY <1>1 DEF M!Crash, M!args
<1>3. /\ FeedOK' /\ QueueOK' /\ MP!ManagerInv'
      /\ held' \in [{Lbc} -> Key \cup {None}]
      /\ key' = key /\ processing' = processing
      /\ \A k \in Key : (Pending(k)' <=> Pending(k)) /\ Wanted(k)' = Wanted(k)
  BY <1>1, WorkerFrame DEF ManagerMove
<1>4. WorkerOK' /\ ControlInv'
  BY <1>1, <1>2, <1>3 DEF RouterInv, WorkerOK, ControlInv
<1>5. \A k \in Key : View(k)' = View(k) /\ Served(k)' = Served(k)
  BY <1>1, <1>2 DEF View, Served
<1>6. FreshInv' /\ ViewIsCurrent'
  BY <1>1, <1>3, <1>5 DEF RouterInv, FreshInv, Fresh, ViewIsCurrent
<1> QED BY <1>3, <1>4, <1>6 DEF RouterInv

(* Every step keeps the invariant.                                         *)
LEMMA RouterStepInv == RouterInv /\ [Next]_vars => RouterInv'
<1> SUFFICES ASSUME RouterInv, [Next]_vars PROVE RouterInv'
  OBVIOUS
<1>1. CASE \E r \in Resource : HasListed(r)
  BY <1>1, HasListedKeepsInv
<1>2. CASE \E r \in Resource, k \in Key : \E kind \in Kind(r) : StoreWrite(r, k, kind)
  BY <1>2, StoreWriteKeepsInv
<1>3. CASE \E r \in Resource : Enqueue(r)
  BY <1>3, EnqueueKeepsInv
<1>4. CASE Worker
  BY <1>4, GetKeyKeepsInv, GetBlocksKeepsInv, ReadingKeepsInv, CallingKeepsInv, RoundEndKeepsInv
  DEF Worker
<1>5. CASE HaproxyDies
  BY <1>5, HaproxyDiesKeepsInv
<1>6. CASE UNCHANGED vars
  <2>1. UNCHANGED <<feed, wq>> /\ UNCHANGED manager
        /\ UNCHANGED <<store, mpc, conf, dryRun, loaded, pc, svcs, todo, httpSvc>>
    BY <1>6 DEF vars, locals, manager, feed
  <2>2. /\ FeedOK' /\ QueueOK' /\ MP!ManagerInv'
        /\ held' \in [{Lbc} -> Key \cup {None}]
        /\ key' = key /\ processing' = processing
        /\ \A k \in Key : (Pending(k)' <=> Pending(k)) /\ Wanted(k)' = Wanted(k)
    BY <2>1, WorkerFrame DEF ManagerMove
  <2>3. WorkerOK' /\ ControlInv'
    BY <2>1, <2>2 DEF RouterInv, WorkerOK, ControlInv
  <2>4. \A k \in Key : View(k)' = View(k) /\ Served(k)' = Served(k)
    BY <2>1 DEF View, Served
  <2>5. FreshInv' /\ ViewIsCurrent'
    BY <2>1, <2>2, <2>4 DEF RouterInv, FreshInv, Fresh, ViewIsCurrent
  <2> QED BY <2>2, <2>3, <2>5 DEF RouterInv
<1> QED BY <1>1, <1>2, <1>3, <1>4, <1>5, <1>6 DEF Next

-----------------------------------------------------------------------------
(* The inductive invariant of the router.                                  *)
THEOREM RouterInvariant == Spec => []RouterInv
  BY RouterInit, RouterStepInv, PTL DEF Spec

(* Type correctness of the composed system.                                *)
THEOREM RouterTypeCorrect == Spec => []TypeOK
<1>1. RouterInv => TypeOK
  <2> SUFFICES ASSUME RouterInv PROVE TypeOK
    OBVIOUS
  <2>1. Q!TypeOK
    <3>1. shuttingDown \in BOOLEAN
      BY Zenon DEF RouterInv, QueueOK
    <3> QED BY <3>1 DEF RouterInv, QueueOK, WorkerOK, Q!TypeOK
  <2>2. M!TypeOK
    BY DEF RouterInv, MP!ManagerInv, MP!TypeOK, M!TypeOK, MP!File, M!File
  <2> QED BY <2>1, <2>2 DEF RouterInv, FeedOK, WorkerOK, TypeOK
<1> QED BY <1>1, RouterInvariant, PTL

(* A sync that succeeds brings every key up to date except those that      *)
(* changed after it read them, which are pending.                          *)
THEOREM SuccessfulSyncCatchesUp == Spec => []SyncCatchesUp
<1>1. RouterInv => SyncCatchesUp
  BY DEF RouterInv, ViewIsCurrent, View, SyncCatchesUp, Fresh
<1> QED BY <1>1, RouterInvariant, PTL

(* When the router is quiet, only keys whose sync failed are out of date.  *)
THEOREM OnlyAbandonedIsStale == Spec => []StaleIsAbandoned
<1>1. RouterInv => StaleIsAbandoned
  <2> SUFFICES ASSUME RouterInv, Quiet, NEW k \in Key, ~Fresh(k) PROVE k \in Abandoned
    BY DEF StaleIsAbandoned
  <2>1. pc = "idle" /\ queue = <<>> /\ \A r \in Resource : pend[r] = None
    BY DEF Quiet
  <2>2. k \in dirty \/ k \in processing
    BY <2>1, NoneAssumption DEF RouterInv, FreshInv, Pending
  <2>3. dirty \subseteq processing
    BY <2>1 DEF RouterInv, QueueOK, Q!QueueIsDirtyAndIdle, Q!Queued
  <2>4. k # key
    BY <2>1, NoneAssumption DEF RouterInv, ControlInv
  <2> QED BY <2>2, <2>3, <2>4 DEF Abandoned
<1> QED BY <1>1, RouterInvariant, PTL

(* The keys that only the worker's own calls move: what a step of the      *)
(* router does to the queue.                                               *)
QueueMove ==
  \/ UNCHANGED <<queue, processing, waiting, held>>
  \/ /\ UNCHANGED <<processing, held>>
     /\ \E k \in Key : Q!Add(k)
  \/ GetKey
  \/ GetBlocks
  \/ MarkDone
  \/ Requeue

LEMMA EveryQueueMove == RouterInv /\ [Next]_vars => QueueMove
<1> SUFFICES ASSUME RouterInv, [Next]_vars PROVE QueueMove
  OBVIOUS
<1> USE DEF QueueMove
<1>1. CASE \E r \in Resource : HasListed(r)
  BY <1>1 DEF HasListed, wq
<1>2. CASE \E r \in Resource, k \in Key : \E kind \in Kind(r) : StoreWrite(r, k, kind)
  BY <1>2 DEF StoreWrite, wq
<1>3. ASSUME NEW r \in Resource, Enqueue(r) PROVE QueueMove
  <2>1. pend[r] \in Key /\ Q!Add(pend[r]) /\ processing' = processing /\ held' = held
    BY <1>3 DEF Enqueue, Q!Add, RouterInv, FeedOK
  <2> QED BY <2>1
<1>4. CASE Worker
  <2>1. CASE \/ Defer \/ ListServices \/ \E k \in Key : GetEndpoints(k)
             \/ CallSync \/ ManagerStep \/ SyncReturns \/ Accept \/ SyncFails \/ SyncSucceeds
    BY <2>1 DEF Defer, ListServices, GetEndpoints, CallSync, ManagerStep, SyncReturns, Accept,
                SyncFails, SyncSucceeds, wq
  <2> QED BY <1>4, <2>1 DEF Worker
<1>5. CASE HaproxyDies
  BY <1>5 DEF HaproxyDies, wq
<1>6. CASE UNCHANGED vars
  BY <1>6 DEF vars, wq
<1> QED BY <1>1, <1>2, <1>3, <1>4, <1>5, <1>6 DEF Next

\* No wake-up is lost on the worker, who calls Add where Done is expected.
SleepsOnEmptyQueue == Lbc \in waiting => queue = <<>>

(* The worker sleeps in Get only while the queue is empty.  WorkQueueProofs*)
(* shows this of clients that call Done; the router's worker is not one.   *)
THEOREM WorkerSleepsOnEmptyQueue == Spec => []SleepsOnEmptyQueue
<1>1. Init => SleepsOnEmptyQueue
  BY DEF Init, Q!Init, SleepsOnEmptyQueue
<1>2. RouterInv /\ SleepsOnEmptyQueue /\ [Next]_vars => SleepsOnEmptyQueue'
  <2> SUFFICES ASSUME RouterInv, SleepsOnEmptyQueue, [Next]_vars PROVE SleepsOnEmptyQueue'
    OBVIOUS
  <2>1. ASSUME NEW k, Q!Push(k) PROVE SleepsOnEmptyQueue'
    <3>1. waiting \subseteq {Lbc} /\ Q!Signal
      BY <2>1 DEF Q!Push, RouterInv, QueueOK
    <3>2. Lbc \notin waiting'
      BY <3>1 DEF Q!Signal
    <3> QED BY <3>2 DEF SleepsOnEmptyQueue
  <2>2. ASSUME NEW k, Q!Add(k) PROVE SleepsOnEmptyQueue'
    BY <2>1, <2>2 DEF Q!Add, SleepsOnEmptyQueue
  <2>3. ASSUME NEW k, Q!Done(k) PROVE SleepsOnEmptyQueue'
    BY <2>1, <2>3 DEF Q!Done, SleepsOnEmptyQueue
  <2>4. CASE GetKey
    BY <2>4 DEF GetKey, Q!GetItem, Q!InGet, SleepsOnEmptyQueue
  <2>5. CASE GetBlocks
    BY <2>5 DEF GetBlocks, Q!GetWait, SleepsOnEmptyQueue
  <2>6. CASE UNCHANGED <<queue, processing, waiting, held>>
    BY <2>6 DEF SleepsOnEmptyQueue
  <2> QED BY <2>2, <2>3, <2>4, <2>5, <2>6, EveryQueueMove DEF QueueMove, MarkDone, Requeue
<1> QED BY <1>1, <1>2, RouterInvariant, PTL DEF Spec

\* A key requeued after an error stays where no Get hands it out.
AbandonedForGood ==
  /\ Requeue => key \in Abandoned'
  /\ Abandoned \subseteq Abandoned'

(* Why RequeuedIsRetried fails, and for every key and behaviour: the key   *)
(* of a sync that returned an error is abandoned by worker, and an         *)
(* abandoned key is never in the worker's hands again, for Add leaves it   *)
(* out of the queue and only the worker could call Done.                   *)
THEOREM FailedIsNeverRetried == Spec => [][AbandonedForGood]_vars
<1>1. RouterInv /\ [Next]_vars => AbandonedForGood
  <2> SUFFICES ASSUME RouterInv, [Next]_vars PROVE AbandonedForGood
    OBVIOUS
  <2>1. /\ QueueOK /\ ControlInv /\ WorkerOK /\ None \notin Key
        /\ processing \subseteq Key
    BY NoneAssumption DEF RouterInv, QueueOK
  <2>2. ASSUME Requeue PROVE key \in Abandoned'
    <3>1. processing' = processing /\ key' = None /\ key \in processing /\ key # None
      BY <2>1, <2>2 DEF Requeue, Q!Add, NextRound, ControlInv, WorkerOK, key
    <3> QED BY <3>1 DEF Abandoned
  <2>3. Abandoned \subseteq Abandoned'
    <3>1. CASE UNCHANGED <<processing, held>>
      BY <3>1 DEF Abandoned, key
    <3>2. CASE GetKey
      <4>1. /\ queue # <<>> /\ key' = Head(queue) /\ processing' = processing \cup {Head(queue)}
        BY <2>1, <3>2 DEF GetKey, Q!GetItem, WorkerOK, key
      <4>2. Head(queue) \notin processing
        <5>1. 1 \in DOMAIN queue /\ Head(queue) = queue[1]
          BY <2>1, <4>1 DEF QueueOK
        <5>2. Head(queue) \in Q!Queued
          BY <5>1 DEF Q!Queued
        <5> QED BY <2>1, <5>2 DEF QueueOK, Q!QueueIsDirtyAndIdle
      <4> QED BY <4>1, <4>2 DEF Abandoned
    <3>3. CASE GetBlocks
      BY <3>3 DEF GetBlocks, Q!GetWait, Abandoned, key
    <3>4. CASE MarkDone
      <4>1. processing' = processing \ {key} /\ key' = None
        BY <2>1, <3>4 DEF MarkDone, Q!Done, NextRound, WorkerOK, key
      <4> QED BY <2>1, <4>1 DEF Abandoned
    <3>5. CASE Requeue
      <4>1. processing' = processing /\ key' = None
        BY <2>1, <3>5 DEF Requeue, Q!Add, NextRound, WorkerOK, key
      <4> QED BY <2>1, <4>1 DEF Abandoned
    <3> QED BY <3>1, <3>2, <3>3, <3>4, <3>5, EveryQueueMove DEF QueueMove
  <2> QED BY <2>2, <2>3 DEF AbandonedForGood
<1> QED BY <1>1, RouterInvariant, PTL DEF Spec
=============================================================================
