------------------------------ MODULE WorkQueue ------------------------------
(***************************************************************************)
(* Package workqueue (workqueue.Type): the queue between the informers'    *)
(* event handlers, which Add keys, and the worker goroutine, which Gets a  *)
(* key, syncs the load balancer and reports Done.                          *)
(*                                                                         *)
(* All methods run under the mutex of the condition variable, so each is   *)
(* one action.  cond.Wait is not: a caller of Get that finds nothing goes  *)
(* to sleep (waiting), is made runnable by Signal or Broadcast (woken) and *)
(* only later gets the mutex and tests the queue again.                    *)
(***************************************************************************)
EXTENDS Naturals, Sequences, FiniteSets

CONSTANTS Item,    \* the keys
          Worker,  \* the goroutines that call Get
          None     \* "holds no item"

ASSUME NoneAssumption == None \notin Item
ASSUME WorkerAssumption == IsFiniteSet(Worker)

VARIABLES
  queue,        \* order in which items are handed out
  dirty,        \* items that need processing
  processing,   \* items handed out and not yet Done
  shuttingDown,
  waiting,      \* workers asleep in cond.Wait
  woken,        \* workers signalled, not yet running again
  held,         \* the caller's local variable: the item its last Get returned
  exited        \* workers told to end by Get

vars == <<queue, dirty, processing, shuttingDown, waiting, woken, held, exited>>

Init ==
  /\ queue = <<>>
  /\ dirty = {}
  /\ processing = {}
  /\ shuttingDown = FALSE
  /\ waiting = {}
  /\ woken = {}
  /\ held = [w \in Worker |-> None]
  /\ exited = {}

-----------------------------------------------------------------------------
(* The condition variable.                                                 *)

\* cond.Signal: wakes one sleeper, if there is one.
Signal ==
  \/ waiting = {} /\ UNCHANGED <<waiting, woken>>
  \/ \E w \in waiting :
       /\ waiting' = waiting \ {w}
       /\ woken' = woken \cup {w}

\* cond.Broadcast: wakes them all.
Broadcast ==
  /\ woken' = woken \cup waiting
  /\ waiting' = {}

\* queue = append(queue, item), then Signal.
Push(item) ==
  /\ queue' = Append(queue, item)
  /\ Signal

-----------------------------------------------------------------------------
(* Add and Done.  Neither concerns held and exited, which belong to the    *)
(* callers: an action that calls one of them says what happens to those.   *)

\* Mutant of Add: an item being processed is queued again at once.
AddIgnoringProcessing(item) ==
  /\ \/ /\ shuttingDown \/ item \in dirty
        /\ UNCHANGED <<queue, dirty, waiting, woken>>
     \/ /\ ~shuttingDown /\ item \notin dirty
        /\ dirty' = dirty \cup {item}
        /\ Push(item)
  /\ UNCHANGED <<processing, shuttingDown>>

\* Mutant of Add: appends without signalling.
AddSilently(item) ==
  /\ \/ /\ shuttingDown \/ item \in dirty
        /\ UNCHANGED <<queue, dirty>>
     \/ /\ ~shuttingDown /\ item \notin dirty
        /\ dirty' = dirty \cup {item}
        /\ queue' = IF item \in processing THEN queue ELSE Append(queue, item)
  /\ UNCHANGED <<processing, shuttingDown, waiting, woken>>

Add(item) ==
  /\ \/ /\ shuttingDown \/ item \in dirty
        /\ UNCHANGED <<queue, dirty, waiting, woken>>
     \/ /\ ~shuttingDown /\ item \notin dirty
        /\ dirty' = dirty \cup {item}
        /\ \/ item \in processing /\ UNCHANGED <<queue, waiting, woken>>
           \/ item \notin processing /\ Push(item)
  /\ UNCHANGED <<processing, shuttingDown>>

\* Mutant of Done: the item is forgotten even when it became dirty meanwhile.
DoneForgetting(item) ==
  /\ processing' = processing \ {item}
  /\ UNCHANGED <<queue, dirty, shuttingDown, waiting, woken>>

Done(item) ==
  /\ processing' = processing \ {item}
  /\ \/ item \in dirty /\ Push(item)
     \/ item \notin dirty /\ UNCHANGED <<queue, waiting, woken>>
  /\ UNCHANGED <<dirty, shuttingDown>>

-----------------------------------------------------------------------------
(* Get, by worker w: what it does with the mutex held, after the call or   *)
(* after cond.Wait has returned.                                           *)

InGet(w) ==
  /\ held[w] = None
  /\ w \notin waiting
  /\ w \notin exited

GetWait(w) ==
  /\ InGet(w)
  /\ queue = <<>> /\ ~shuttingDown
  /\ waiting' = waiting \cup {w}
  /\ woken' = woken \ {w}
  /\ UNCHANGED <<queue, dirty, processing, shuttingDown, held, exited>>

\* Mutant of GetItem: the item is not recorded as being processed.
GetItemUnrecorded(w) ==
  /\ InGet(w)
  /\ queue # <<>>
  /\ queue' = Tail(queue)
  /\ dirty' = dirty \ {Head(queue)}
  /\ held' = [held EXCEPT ![w] = Head(queue)]
  /\ woken' = woken \ {w}
  /\ UNCHANGED <<processing, shuttingDown, waiting, exited>>

GetItem(w) ==
  /\ InGet(w)
  /\ queue # <<>>
  /\ queue' = Tail(queue)
  /\ processing' = processing \cup {Head(queue)}
  /\ dirty' = dirty \ {Head(queue)}
  /\ held' = [held EXCEPT ![w] = Head(queue)]
  /\ woken' = woken \ {w}
  /\ UNCHANGED <<shuttingDown, waiting, exited>>

\* Mutant of GetShutdown: without its early return Get hands out the nil item.
GetNilItem(w) ==
  /\ InGet(w)
  /\ queue = <<>> /\ shuttingDown
  /\ processing' = processing \cup {None}
  /\ woken' = woken \ {w}
  /\ UNCHANGED <<queue, dirty, shuttingDown, waiting, held, exited>>

\* Get returns shutdown = true and the worker ends its goroutine.
GetShutdown(w) ==
  /\ InGet(w)
  /\ queue = <<>> /\ shuttingDown
  /\ exited' = exited \cup {w}
  /\ woken' = woken \ {w}
  /\ UNCHANGED <<queue, dirty, processing, shuttingDown, waiting, held>>

ShutDown ==
  /\ shuttingDown' = TRUE
  /\ Broadcast
  /\ UNCHANGED <<queue, dirty, processing, held, exited>>

-----------------------------------------------------------------------------
(* The clients the package is written for: anybody adds, and each worker   *)
(* calls Done with the item it got before it calls Get again.              *)

Produce(item) == Add(item) /\ UNCHANGED <<held, exited>>

Finish(w) ==
  /\ held[w] # None
  /\ Done(held[w])
  /\ held' = [held EXCEPT ![w] = None]
  /\ UNCHANGED exited

Next ==
  \/ \E i \in Item : Produce(i)
  \/ \E w \in Worker :
       \/ GetWait(w)
       \/ GetItem(w)
       \/ GetShutdown(w)
       \/ Finish(w)
  \/ ShutDown

\* A goroutine that can run does run; nobody is obliged to Add or ShutDown.
Fairness ==
  \A w \in Worker :
    /\ WF_vars(GetWait(w) \/ GetItem(w) \/ GetShutdown(w))
    /\ WF_vars(Finish(w))

Spec == Init /\ [][Next]_vars /\ Fairness

-----------------------------------------------------------------------------
(* Properties.                                                             *)

TypeOK ==
  /\ queue \in Seq(Item)
  /\ dirty \in SUBSET Item
  /\ processing \in SUBSET Item
  /\ shuttingDown \in BOOLEAN
  /\ waiting \in SUBSET Worker
  /\ woken \in SUBSET Worker
  /\ held \in [Worker -> Item \cup {None}]
  /\ exited \in SUBSET Worker

Queued == {queue[n] : n \in DOMAIN queue}

NoDuplicates == \A m, n \in DOMAIN queue : queue[m] = queue[n] => m = n

(* The comment on Type.queue ("every element of queue should be in the     *)
(* dirty set and not in the processing set") and the converse that nobody  *)
(* wrote down and Add and Done rely on: a dirty item nobody processes is   *)
(* in the queue, exactly once.                                             *)
QueueIsDirtyAndIdle == Queued = dirty \ processing /\ NoDuplicates

(* An item is never handed to two workers at once, however Adds of it      *)
(* interleave with the workers' Gets and Dones.                            *)
OneWorkerPerItem ==
  \A v, w \in Worker : held[v] # None /\ held[v] = held[w] => v = w

(* No wake-up is lost: Add and Done signal once per item they append, so   *)
(* while a worker is left asleep every queued item has a woken worker on   *)
(* its way to it.                                                          *)
NoLostWakeup ==
  waiting # {} => ~shuttingDown /\ Len(queue) <= Cardinality(woken)

(* Every item added is handed out, also when it was added while it was     *)
(* being processed and also when the queue is shut down meanwhile.         *)
AddedIsHandedOut == \A i \in Item : i \in dirty ~> i \notin dirty

\* The detailed queue as an implementation of the abstract one.
Abs == INSTANCE WorkSet WITH
         pending <- dirty, active <- processing,
         closed <- shuttingDown, assigned <- held

(* Every step of the queue is a step the abstract set of work allows: Get  *)
(* hands out only an item that is dirty and that no worker has.            *)
ImplementsWorkSet == Abs!Spec
=============================================================================
