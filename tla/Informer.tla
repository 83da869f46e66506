------------------------------ MODULE Informer ------------------------------
(***************************************************************************)
(* One informer (framework.NewInformer): the reflector goroutine lists and *)
(* watches one resource at the API server and puts deltas into a           *)
(* DeltaFIFO; the controller's goroutine pops the deltas of one key,       *)
(* writes them to the store (clientState) one by one and calls the event   *)
(* handler after each.  The router runs two of these, and its worker reads *)
(* the stores.                                                             *)
(*                                                                         *)
(* An object is the resource version of its last change, 0 is no object.   *)
(* Process treats Sync, Added and Updated deltas alike, so a delta is the  *)
(* object it leaves: 0 for Deleted (a DeletedFinalStateUnknown included).  *)
(*                                                                         *)
(* A failed list, and a watch request refused by the network (retried with *)
(* the same version), change nothing and are left out: the reflector stays *)
(* where it is.                                                            *)
(***************************************************************************)
EXTENDS Naturals, Sequences, FiniteSets

CONSTANTS
  Key,         \* namespace/name of the objects
  None,        \* no key
  MaxChanges,  \* bound: changes at the server
  MaxDeltas    \* bound: deltas waiting under one key

ASSUME NoneAssumption == None \notin Key
ASSUME KeyAssumption == IsFiniteSet(Key)
ASSUME BoundAssumption == MaxChanges \in Nat /\ MaxDeltas \in Nat

VARIABLES
  log,     \* the server: for each resource version, the key that changed
           \* and the objects after the change
  rpc,     \* where the reflector stands
  snap,    \* resource version of the list the reflector has received
  rv,      \* ListAndWatch's resourceVersion: changes up to it are queued
  synced,  \* lastSyncResourceVersion # "", which is HasSynced
  items,   \* DeltaFIFO: the deltas of each key, <<>> if it has no entry
  queue,   \* DeltaFIFO: the order of the keys
  store,   \* clientState
  cur,     \* processLoop: the key that was popped
  todo,    \* Process: its deltas still to be handled
  pend     \* the key whose event handler is to be called

server == <<log>>
reflector == <<rpc, snap, rv, synced>>
fifo == <<items, queue>>
controller == <<store, cur, todo, pend>>
vars == <<server, reflector, fifo, controller>>

NoObjects == [k \in Key |-> 0]

\* The server's objects at resource version v.
At(v) == IF v = 0 THEN NoObjects ELSE log[v].objects

Init ==
  /\ log = <<>>
  /\ rpc = "list"
  /\ snap = 0
  /\ rv = 0
  /\ synced = FALSE
  /\ items = [k \in Key |-> <<>>]
  /\ queue = <<>>
  /\ store = NoObjects
  /\ cur = None
  /\ todo = <<>>
  /\ pend = None

-----------------------------------------------------------------------------
(* The API server (external).  A change makes a new resource version.      *)

Change(k, gone) ==
  /\ Len(log) < MaxChanges
  /\ gone => At(Len(log))[k] # 0
  /\ LET v == Len(log) + 1
     IN  log' = Append(log, [key |-> k,
                             objects |-> [At(Len(log)) EXCEPT ![k] = IF gone THEN 0 ELSE v]])
  /\ UNCHANGED <<reflector, fifo, controller>>

-----------------------------------------------------------------------------
(* DeltaFIFO.                                                              *)

Newest(deltas) == deltas[Len(deltas)]

\* Mutant of queueActionLocked: a key is queued once per delta.
queueEveryDelta(k, d) ==
  /\ items' = [items EXCEPT ![k] = Append(@, d)]
  /\ queue' = Append(queue, k)

\* Mutant of queueActionLocked: the newest delta is put first.
queueInFront(k, d) ==
  /\ items' = [items EXCEPT ![k] = <<d>> \o @]
  /\ queue' = IF items[k] = <<>> THEN Append(queue, k) ELSE queue

queueActionLocked(k, d) ==
  /\ items' = [items EXCEPT ![k] = Append(@, d)]
  /\ queue' = IF items[k] = <<>> THEN Append(queue, k) ELSE queue

\* Replace, for one key: a Sync delta for what was listed; a Deleted one for
\* what was not and the store knows, unless one is queued already.
SyncDelta(k) ==
  IF At(snap)[k] # 0 THEN <<At(snap)[k]>>
  ELSE IF store[k] # 0 /\ ~(items[k] # <<>> /\ Newest(items[k]) = 0) THEN <<0>>
  ELSE <<>>

\* Lists and maps are walked in any order.
Orders(S) ==
  {s \in [1 .. Cardinality(S) -> S] :
     /\ \A k \in S : \E i \in DOMAIN s : s[i] = k
     /\ \A i, j \in DOMAIN s : s[i] = s[j] => i = j}

-----------------------------------------------------------------------------
(* The reflector: ListAndWatch, run again and again by util.Until.         *)

Step(from, to) == rpc = from /\ rpc' = to

\* Mutant of List: the version after the list's is remembered.
ListAhead ==
  /\ Step("list", "replace")
  /\ snap' = Len(log) + 1
  /\ UNCHANGED <<server, rv, synced, fifo, controller>>

\* The list is the server's state now; when it is handled the server may
\* have moved on.
List ==
  /\ Step("list", "replace")
  /\ snap' = Len(log)
  /\ UNCHANGED <<server, rv, synced, fifo, controller>>

\* Mutant of Replace: what the list lacks is not looked for in the store.
ReplaceListedOnly ==
  /\ Step("replace", "setLast")
  /\ \A k \in Key : Len(items[k]) < MaxDeltas
  /\ LET listed(k) == IF At(snap)[k] # 0 THEN <<At(snap)[k]>> ELSE <<>>
     IN  /\ items' = [k \in Key |-> items[k] \o listed(k)]
         /\ \E s \in Orders({k \in Key : items[k] = <<>> /\ listed(k) # <<>>}) :
              queue' = queue \o s
  /\ rv' = snap
  /\ UNCHANGED <<server, snap, synced, controller>>

\* syncWith: DeltaFIFO.Replace, under the FIFO's lock; the store is read once.
Replace ==
  /\ Step("replace", "setLast")
  /\ \A k \in Key : Len(items[k]) < MaxDeltas
  /\ items' = [k \in Key |-> items[k] \o SyncDelta(k)]
  /\ \E s \in Orders({k \in Key : items[k] = <<>> /\ SyncDelta(k) # <<>>}) :
       queue' = queue \o s
  /\ rv' = snap
  /\ UNCHANGED <<server, snap, synced, controller>>

\* setLastSyncResourceVersion, after the FIFO was filled.
SetLast ==
  /\ Step("setLast", "watch")
  /\ synced' = TRUE
  /\ UNCHANGED <<server, snap, rv, fifo, controller>>

WatchOpens ==
  /\ Step("watch", "watching")
  /\ UNCHANGED <<server, snap, rv, synced, fifo, controller>>

\* Any other error of Watch: ListAndWatch returns, and is called again.
WatchFails ==
  /\ Step("watch", "list")
  /\ UNCHANGED <<server, snap, rv, synced, fifo, controller>>

\* Mutant of WatchEvent: the version is taken from the end of the stream.
WatchEventSkipping ==
  /\ rpc = "watching"
  /\ rv < Len(log)
  /\ LET k == log[rv + 1].key
     IN  /\ Len(items[k]) < MaxDeltas
         /\ queueActionLocked(k, log[rv + 1].objects[k])
  /\ rv' = Len(log)
  /\ UNCHANGED <<server, rpc, snap, synced, controller>>

\* The next event after rv arrives: Add, Update or Delete of the FIFO.  (The
\* server sends objects of the type asked for, with metadata, and events of
\* these three types; those that watchHandler cannot use are left out.)
WatchEvent ==
  /\ rpc = "watching"
  /\ rv < Len(log)
  /\ LET k == log[rv + 1].key
     IN  /\ Len(items[k]) < MaxDeltas
         /\ queueActionLocked(k, log[rv + 1].objects[k])
  /\ rv' = rv + 1
  /\ UNCHANGED <<server, rpc, snap, synced, controller>>

\* The result channel is closed: watch again from rv.
WatchCloses ==
  /\ Step("watching", "watch")
  /\ UNCHANGED <<server, snap, rv, synced, fifo, controller>>

\* watchHandler returns an error: the resync timer fired, the watch was very
\* short, or the server sent an error (rv is too old).  The next thing is a
\* list; what is still on the stream is dropped.
WatchEnds ==
  /\ Step("watching", "list")
  /\ UNCHANGED <<server, snap, rv, synced, fifo, controller>>

-----------------------------------------------------------------------------
(* The controller: processLoop.                                            *)

Pop ==
  /\ todo = <<>> /\ pend = None
  /\ queue # <<>>
  /\ cur' = Head(queue)
  /\ todo' = items[Head(queue)]
  /\ queue' = Tail(queue)
  /\ items' = [items EXCEPT ![Head(queue)] = <<>>]
  /\ UNCHANGED <<server, reflector, store, pend>>

\* Mutant of Process: only the newest delta is handled.
ProcessNewest ==
  /\ todo # <<>> /\ pend = None
  /\ store' = [store EXCEPT ![cur] = Newest(todo)]
  /\ todo' = <<>>
  /\ pend' = None
  /\ UNCHANGED <<server, reflector, fifo, cur>>

\* Mutant of Process: the store's deletion is left to the handler.
ProcessKeeping ==
  /\ todo # <<>> /\ pend = None
  /\ store' = IF Head(todo) = 0 THEN store ELSE [store EXCEPT ![cur] = Head(todo)]
  /\ todo' = Tail(todo)
  /\ pend' = IF Head(todo) # 0 /\ Head(todo) = store[cur] THEN None ELSE cur
  /\ UNCHANGED <<server, reflector, fifo, cur>>

\* NewInformer's Process, oldest delta: write the store; OnAdd, OnUpdate or
\* OnDelete comes next.  OnUpdate of an equal object does not enqueue, so
\* nothing is left to do after it.
Process ==
  /\ todo # <<>> /\ pend = None
  /\ store' = [store EXCEPT ![cur] = Head(todo)]
  /\ todo' = Tail(todo)
  /\ pend' = IF Head(todo) # 0 /\ Head(todo) = store[cur] THEN None ELSE cur
  /\ UNCHANGED <<server, reflector, fifo, cur>>

\* The event handler: enqueue(obj).
Enqueue ==
  /\ pend # None
  /\ pend' = None
  /\ UNCHANGED <<server, reflector, fifo, store, cur, todo>>

-----------------------------------------------------------------------------

Next ==
  \/ \E k \in Key, gone \in BOOLEAN : Change(k, gone)
  \/ List \/ Replace \/ SetLast
  \/ WatchOpens \/ WatchFails \/ WatchEvent \/ WatchCloses \/ WatchEnds
  \/ Pop \/ Process \/ Enqueue

\* Both goroutines run, and the API server answers in the end.  The resync
\* timer of ListAndWatch fires after 10 s and stays readable through any
\* number of watches, so watchHandler comes to see it.
Fairness ==
  /\ WF_vars(List) /\ WF_vars(Replace) /\ WF_vars(SetLast) /\ WF_vars(WatchOpens)
  /\ SF_vars(WatchEnds)
  /\ WF_vars(Pop) /\ WF_vars(Process) /\ WF_vars(Enqueue)

Spec == Init /\ [][Next]_vars /\ Fairness

-----------------------------------------------------------------------------
(* Properties.                                                             *)

Objects == [Key -> Nat]

TypeOK ==
  /\ log \in Seq([key : Key, objects : Objects])
  /\ rpc \in {"list", "replace", "setLast", "watch", "watching"}
  /\ snap \in 0 .. Len(log)
  /\ rv \in 0 .. Len(log)
  /\ synced \in BOOLEAN
  /\ items \in [Key -> Seq(Nat)]
  /\ queue \in Seq(Key)
  /\ store \in Objects
  /\ cur \in Key \cup {None}
  /\ todo \in Seq(Nat)
  /\ pend \in Key \cup {None}
  /\ todo # <<>> => cur # None

(* What the comment at DeltaFIFO's fields says it depends on: the queue    *)
(* holds the keys that have deltas, each once.  A key queued twice, or     *)
(* deltas under a key that is not queued, would never be handled or be     *)
(* handled out of turn.                                                    *)
QueueMatchesItems ==
  /\ \A k \in Key : items[k] # <<>> <=> \E i \in DOMAIN queue : queue[i] = k
  /\ \A i, j \in DOMAIN queue : queue[i] = queue[j] => i = j

\* The deltas of a key: what was popped and what is queued, oldest first.
Deltas(k) == (IF cur = k THEN todo ELSE <<>>) \o items[k]

\* The way of a key's object: the store now, then its deltas.
Line(k) == <<store[k]>> \o Deltas(k)

\* What the store will hold under k when all that is queued is processed.
Final(k) == Newest(Line(k))

(* Whatever the watch, the relists and the processing do to each other, no *)
(* creation and no update is lost: what the server had at the version the  *)
(* reflector has reached is on its way to the store.  Only the deletion of *)
(* an object may be missed.                                                *)
OnlyDeletionsAreMissed == \A k \in Key : Final(k) = At(rv)[k] \/ At(rv)[k] = 0

\* Leaving deletions out, versions do not decrease.
InOrder(l) == \A i, j \in DOMAIN l : i < j /\ l[i] # 0 /\ l[j] # 0 => l[i] <= l[j]

(* The objects of a key are handled in the order of their versions: a      *)
(* relist never puts an older one behind a newer one.                      *)
LineInOrder == \A k \in Key : InOrder(Line(k))

(* "Note how we pass clientState in as a KeyLister, that way resync        *)
(* operations will result in the correct set of update/delete deltas."     *)
(* They do for every key that the store has, whatever was queued before:   *)
(* a relist overlooks a deletion only if the object is still on its way to *)
(* the store.                                                              *)
RelistCorrectsStore ==
  [][rpc = "replace" /\ rpc' = "setLast"
       => \A k \in Key : store[k] # 0 => Final(k)' = At(rv)[k]']_vars

(* Why: a version in a line is one at which this key changed and that the  *)
(* reflector has reached, and what the server has is at least as new.      *)
(* Before the first list is complete a line is at most one listed object.  *)
LogInv ==
  /\ Len(log) <= MaxChanges
  /\ \A v \in DOMAIN log :
       /\ log[v].objects[log[v].key] \in {0, v}
       /\ \A k \in Key : k # log[v].key => log[v].objects[k] = At(v - 1)[k]
       /\ \A k \in Key : log[v].objects[k] <= v
       /\ \A k \in Key, u \in 1 .. v :
            /\ log[u].key = k /\ log[v].objects[k] # 0 => u <= log[v].objects[k]
            /\ log[v].objects[k] = u => log[u].key = k

LineInv ==
  /\ rpc = "replace" => rv <= snap
  /\ \A k \in Key : \A i \in DOMAIN Line(k) :
       LET v == Line(k)[i] IN v <= rv /\ (v # 0 => log[v].key = k)
  /\ rpc \in {"watch", "watching"} => synced
  /\ ~synced /\ rpc \in {"list", "replace"} => \A k \in Key : Line(k) = <<0>>
  /\ ~synced => \A k \in Key : \/ Len(Line(k)) = 1
                               \/ Len(Line(k)) = 2 /\ Line(k)[1] = 0 /\ Line(k)[2] # 0

(* When the cluster no longer changes the store comes to hold exactly what *)
(* the server has, and stays so: also after broken watches, after relists  *)
(* that overtook the processing, and after missed deletions.               *)
StoreConverges == <>[](store = At(Len(log)))

(* The informer implements the feed that the controller relies on.         *)
F == INSTANCE Feed WITH Version <- 0 .. MaxChanges
ImplementsFeed == F!Spec
=============================================================================
