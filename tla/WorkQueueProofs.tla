---------------------------- MODULE WorkQueueProofs ----------------------------
(***************************************************************************)
(* Proofs about WorkQueue, for any set of items and any finite set of      *)
(* workers: the safety properties, and that the queue implements WorkSet.  *)
(***************************************************************************)
EXTENDS WorkQueue, FiniteSetTheorems, TLAPS

(* What the callers contribute: processing is what the workers hold, each  *)
(* its own item, and a worker that sleeps or was woken holds nothing.      *)
HeldInv ==
  /\ processing = {held[w] : w \in Worker} \ {None}
  /\ OneWorkerPerItem
  /\ waiting \cap woken = {}
  /\ \A w \in waiting \cup woken \cup exited : held[w] = None
  /\ (waiting \cup woken) \cap exited = {}

QueueInv ==
  /\ TypeOK
  /\ QueueIsDirtyAndIdle
  /\ HeldInv
  /\ NoLostWakeup

-----------------------------------------------------------------------------
(* The queue as a sequence.                                                *)

(* Appending an item that is not in the queue adds just this item.         *)
LEMMA AppendQueued ==
  ASSUME queue \in Seq(Item), NEW item \in Item, item \notin Queued, NoDuplicates,
         queue' = Append(queue, item)
  PROVE  /\ queue' \in Seq(Item)
         /\ Len(queue') = Len(queue) + 1
         /\ Queued' = Queued \cup {item}
         /\ NoDuplicates'
<1>1. /\ queue' \in Seq(Item) /\ Len(queue') = Len(queue) + 1
      /\ \A n \in 1 .. Len(queue) : queue'[n] = queue[n]
      /\ queue'[Len(queue) + 1] = item
      /\ Len(queue) \in Nat
      /\ DOMAIN queue = 1 .. Len(queue) /\ DOMAIN queue' = 1 .. (Len(queue) + 1)
  OBVIOUS
<1>2. \A n \in DOMAIN queue' : n \in DOMAIN queue \/ n = Len(queue) + 1
  BY <1>1
<1>3. Queued' = Queued \cup {item}
  BY <1>1, <1>2 DEF Queued
<1>4. NoDuplicates'
  BY <1>1, <1>2 DEF NoDuplicates, Queued
<1> QED BY <1>1, <1>3, <1>4

(* Taking the head of the queue away removes just this item.               *)
LEMMA TailQueued ==
  ASSUME queue \in Seq(Item), queue # <<>>, NoDuplicates, queue' = Tail(queue)
  PROVE  /\ queue' \in Seq(Item)
         /\ Len(queue') = Len(queue) - 1
         /\ Head(queue) \in Queued
         /\ Head(queue) \in Item
         /\ Queued' = Queued \ {Head(queue)}
         /\ NoDuplicates'
<1>1. /\ queue' \in Seq(Item) /\ Len(queue') = Len(queue) - 1
      /\ \A n \in 1 .. (Len(queue) - 1) : queue'[n] = queue[n + 1]
      /\ Head(queue) = queue[1] /\ Head(queue) \in Item
      /\ Len(queue) \in Nat \ {0}
      /\ DOMAIN queue = 1 .. Len(queue) /\ DOMAIN queue' = 1 .. (Len(queue) - 1)
  OBVIOUS
<1>2. \A n \in DOMAIN queue : n = 1 \/ n - 1 \in DOMAIN queue'
  BY <1>1
<1>3. Queued' = Queued \ {Head(queue)}
  <2>1. ASSUME NEW x \in Queued' PROVE x \in Queued \ {Head(queue)}
    <3>1. PICK n \in DOMAIN queue' : x = queue'[n]
      BY <2>1 DEF Queued
    <3>2. n + 1 \in DOMAIN queue /\ 1 \in DOMAIN queue /\ n + 1 # 1 /\ x = queue[n + 1]
      BY <1>1, <3>1
    <3> QED BY <1>1, <3>2 DEF Queued, NoDuplicates
  <2>2. ASSUME NEW x \in Queued, x # Head(queue) PROVE x \in Queued'
    <3>1. PICK n \in DOMAIN queue : x = queue[n]
      BY <2>2 DEF Queued
    <3>2. n - 1 \in DOMAIN queue' /\ queue'[n - 1] = x
      BY <1>1, <1>2, <2>2, <3>1
    <3> QED BY <3>2 DEF Queued
  <2> QED BY <2>1, <2>2
<1>4. NoDuplicates'
  BY <1>1 DEF NoDuplicates
<1>5. Head(queue) \in Queued
  BY <1>1 DEF Queued
<1> QED BY <1>1, <1>3, <1>4, <1>5

-----------------------------------------------------------------------------
(* The condition variable.                                                 *)

(* woken is finite: its cardinality counts.                                *)
LEMMA WokenFinite ==
  ASSUME TypeOK
  PROVE  IsFiniteSet(woken) /\ Cardinality(woken) \in Nat
  BY WorkerAssumption, FS_Subset, FS_CardinalityType DEF TypeOK

(* Appending an idle item and signalling loses no wake-up.                 *)
LEMMA PushKeepsWakeups ==
  ASSUME TypeOK, waiting \cap woken = {}, NoLostWakeup,
         NEW item \in Item, Push(item), ~shuttingDown', Len(queue') = Len(queue) + 1
  PROVE  /\ NoLostWakeup'
         /\ waiting' \in SUBSET Worker /\ woken' \in SUBSET Worker
         /\ waiting' \cap woken' = {}
         /\ waiting' \cup woken' = waiting \cup woken
<1>1. CASE waiting = {} /\ UNCHANGED <<waiting, woken>>
  BY <1>1 DEF TypeOK, NoLostWakeup
<1>2. CASE \E w \in waiting : waiting' = waiting \ {w} /\ woken' = woken \cup {w}
  <2>1. PICK w \in waiting : waiting' = waiting \ {w} /\ woken' = woken \cup {w}
    BY <1>2
  <2>2. IsFiniteSet(woken) /\ Cardinality(woken) \in Nat
    BY WokenFinite
  <2>3. Cardinality(woken') = Cardinality(woken) + 1
    BY <2>1, <2>2, FS_AddElement
  <2>4. Len(queue) <= Cardinality(woken) /\ Len(queue) \in Nat
    BY <2>1 DEF NoLostWakeup, TypeOK
  <2>5. NoLostWakeup'
    BY <2>2, <2>3, <2>4 DEF NoLostWakeup
  <2> QED BY <2>1, <2>5 DEF TypeOK
<1> QED BY <1>1, <1>2 DEF Push, Signal

-----------------------------------------------------------------------------
(* Initial states and steps.                                               *)

(* The queue New returns.                                                  *)
LEMMA QueueInit == Init => QueueInv
<1> SUFFICES ASSUME Init PROVE QueueInv
  OBVIOUS
<1>1. TypeOK
  <2>1. shuttingDown \in BOOLEAN
    BY Zenon DEF Init
  <2> QED BY <2>1 DEF Init, TypeOK
<1>2. QueueIsDirtyAndIdle
  BY DEF Init, QueueIsDirtyAndIdle, Queued, NoDuplicates
<1>3. HeldInv
  BY DEF Init, HeldInv, OneWorkerPerItem
<1>4. NoLostWakeup
  BY DEF Init, NoLostWakeup
<1> QED BY <1>1, <1>2, <1>3, <1>4 DEF QueueInv

(* Add keeps the invariant, whether it queues the item or only marks it.   *)
LEMMA ProduceKeepsInv ==
  ASSUME QueueInv, NEW i \in Item, Produce(i)
  PROVE  QueueInv'
<1>1. CASE UNCHANGED <<queue, dirty, waiting, woken>>
  BY <1>1 DEF Produce, Add, QueueInv, TypeOK, QueueIsDirtyAndIdle, Queued, NoDuplicates,
              HeldInv, OneWorkerPerItem, NoLostWakeup
<1>2. CASE /\ dirty' = dirty \cup {i} /\ i \in processing
           /\ UNCHANGED <<queue, waiting, woken>>
  <2>1. TypeOK' /\ QueueIsDirtyAndIdle'
    BY <1>2 DEF Produce, Add, QueueInv, TypeOK, QueueIsDirtyAndIdle, Queued, NoDuplicates
  <2>2. HeldInv' /\ NoLostWakeup'
    BY <1>2 DEF Produce, Add, QueueInv, HeldInv, OneWorkerPerItem, NoLostWakeup
  <2> QED BY <2>1, <2>2 DEF QueueInv
<1>3. CASE /\ ~shuttingDown /\ i \notin dirty /\ dirty' = dirty \cup {i}
           /\ i \notin processing /\ Push(i)
  <2>1. i \notin Queued /\ NoDuplicates /\ queue \in Seq(Item) /\ queue' = Append(queue, i)
    BY <1>3 DEF QueueInv, QueueIsDirtyAndIdle, TypeOK, Push
  <2>2. /\ queue' \in Seq(Item) /\ Len(queue') = Len(queue) + 1
        /\ Queued' = Queued \cup {i} /\ NoDuplicates'
    BY <2>1, AppendQueued
  <2>3. UNCHANGED <<processing, shuttingDown, held, exited>>
    BY DEF Produce, Add
  <2>4. /\ NoLostWakeup'
        /\ waiting' \in SUBSET Worker /\ woken' \in SUBSET Worker
        /\ waiting' \cap woken' = {}
        /\ waiting' \cup woken' = waiting \cup woken
    BY <1>3, <2>2, <2>3, PushKeepsWakeups DEF QueueInv, HeldInv
  <2>5. TypeOK'
    BY <1>3, <2>2, <2>3, <2>4 DEF QueueInv, TypeOK
  <2>6. QueueIsDirtyAndIdle'
    BY <1>3, <2>2, <2>3 DEF QueueInv, QueueIsDirtyAndIdle
  <2>7. HeldInv'
    BY <2>3, <2>4 DEF QueueInv, HeldInv, OneWorkerPerItem
  <2> QED BY <2>4, <2>5, <2>6, <2>7 DEF QueueInv
<1> QED BY <1>1, <1>2, <1>3 DEF Produce, Add

(* Done keeps the invariant, also when it puts the item back.              *)
LEMMA FinishKeepsInv ==
  ASSUME QueueInv, NEW w \in Worker, Finish(w)
  PROVE  QueueInv'
<1> DEFINE item == held[w]
<1>1. /\ item # None /\ item \in Item /\ item \in processing
      /\ held' = [held EXCEPT ![w] = None]
      /\ processing' = processing \ {item}
      /\ UNCHANGED <<dirty, shuttingDown, exited>>
      /\ w \notin waiting \cup woken \cup exited
  BY DEF Finish, Done, QueueInv, TypeOK, HeldInv
<1>2. processing' = {held'[v] : v \in Worker} \ {None} /\ OneWorkerPerItem'
  <2>1. \A v \in Worker : held'[v] = IF v = w THEN None ELSE held[v]
    BY <1>1 DEF QueueInv, TypeOK
  <2>2. \A v \in Worker : v # w => held[v] # item
    BY <1>1 DEF QueueInv, HeldInv, OneWorkerPerItem
  <2>3. processing = {held[v] : v \in Worker} \ {None}
    BY DEF QueueInv, HeldInv
  <2>4. ASSUME NEW x \in processing' PROVE x \in {held'[v] : v \in Worker} \ {None}
    <3>1. x # item /\ x # None /\ x \in {held[v] : v \in Worker}
      BY <1>1, <2>3, <2>4
    <3>2. PICK v \in Worker : x = held[v]
      BY <3>1
    <3>3. held'[v] = x
      BY <2>1, <3>1, <3>2
    <3> QED BY <3>1, <3>3
  <2>5. ASSUME NEW v \in Worker, held'[v] # None PROVE held'[v] \in processing'
    BY <1>1, <2>1, <2>2, <2>3, <2>5
  <2>6. OneWorkerPerItem'
    BY <2>1 DEF QueueInv, HeldInv, OneWorkerPerItem
  <2> QED BY <2>4, <2>5, <2>6
<1>3. CASE item \in dirty /\ Push(item)
  <2>1. item \notin Queued /\ NoDuplicates /\ queue \in Seq(Item) /\ queue' = Append(queue, item)
    BY <1>1, <1>3 DEF QueueInv, QueueIsDirtyAndIdle, TypeOK, Push
  <2>2. /\ queue' \in Seq(Item) /\ Len(queue') = Len(queue) + 1
        /\ Queued' = Queued \cup {item} /\ NoDuplicates'
    BY <1>1, <2>1, AppendQueued
  <2>3. /\ NoLostWakeup'
        /\ waiting' \in SUBSET Worker /\ woken' \in SUBSET Worker
        /\ waiting' \cap woken' = {}
        /\ waiting' \cup woken' = waiting \cup woken
    <3>1. CASE ~shuttingDown
      BY <1>1, <1>3, <2>2, <3>1, PushKeepsWakeups DEF QueueInv, HeldInv
    <3>2. CASE shuttingDown
      BY <1>1, <1>3, <3>2 DEF QueueInv, HeldInv, TypeOK, NoLostWakeup, Push, Signal
    <3> QED BY <3>1, <3>2
  <2>4. TypeOK'
    BY <1>1, <2>2, <2>3 DEF QueueInv, TypeOK
  <2>5. QueueIsDirtyAndIdle'
    BY <1>1, <1>3, <2>2 DEF QueueInv, QueueIsDirtyAndIdle
  <2>6. HeldInv'
    BY <1>1, <1>2, <2>3 DEF QueueInv, TypeOK, HeldInv
  <2> QED BY <2>3, <2>4, <2>5, <2>6 DEF QueueInv
<1>4. CASE item \notin dirty /\ UNCHANGED <<queue, waiting, woken>>
  <2>1. TypeOK' /\ NoLostWakeup'
    BY <1>1, <1>4 DEF QueueInv, TypeOK, NoLostWakeup
  <2>2. QueueIsDirtyAndIdle'
    BY <1>1, <1>4 DEF QueueInv, QueueIsDirtyAndIdle, Queued, NoDuplicates
  <2>3. HeldInv'
    BY <1>1, <1>2, <1>4 DEF QueueInv, TypeOK, HeldInv
  <2> QED BY <2>1, <2>2, <2>3 DEF QueueInv
<1> QED BY <1>3, <1>4 DEF Finish, Done

(* So does Get: the item it hands out was dirty and held by nobody.        *)
LEMMA GetItemKeepsInv ==
  ASSUME QueueInv, NEW w \in Worker, GetItem(w)
  PROVE  QueueInv'
<1> DEFINE item == Head(queue)
<1>1. /\ queue \in Seq(Item) /\ queue # <<>> /\ NoDuplicates /\ queue' = Tail(queue)
      /\ processing' = processing \cup {item}
      /\ dirty' = dirty \ {item}
      /\ held' = [held EXCEPT ![w] = item]
      /\ held[w] = None /\ w \notin waiting \cup exited
      /\ woken' = woken \ {w}
      /\ UNCHANGED <<shuttingDown, waiting, exited>>
  BY DEF GetItem, InGet, QueueInv, TypeOK, QueueIsDirtyAndIdle
<1>2. /\ queue' \in Seq(Item) /\ Len(queue') = Len(queue) - 1
      /\ item \in Queued /\ item \in Item
      /\ Queued' = Queued \ {item} /\ NoDuplicates'
  BY <1>1, TailQueued
<1>3. item \in dirty /\ item \notin processing /\ item # None
  BY <1>2, NoneAssumption DEF QueueInv, QueueIsDirtyAndIdle
<1>4. TypeOK'
  BY <1>1, <1>2 DEF QueueInv, TypeOK
<1>5. QueueIsDirtyAndIdle'
  BY <1>1, <1>2, <1>3 DEF QueueInv, QueueIsDirtyAndIdle
<1>6. HeldInv'
  <2>1. \A v \in Worker : held'[v] = IF v = w THEN item ELSE held[v]
    BY <1>1 DEF QueueInv, TypeOK
  <2>2. processing = {held[v] : v \in Worker} \ {None}
    BY DEF QueueInv, HeldInv
  <2>3. \A v \in Worker : held[v] # item
    BY <1>3, <2>2
  <2>4. ASSUME NEW x \in processing' PROVE x \in {held'[v] : v \in Worker} \ {None}
    <3>1. CASE x = item
      BY <1>3, <2>1, <3>1
    <3>2. CASE x \in processing
      <4>1. PICK v \in Worker : x = held[v] /\ x # None
        BY <2>2, <3>2
      <4>2. held'[v] = x
        BY <1>1, <2>1, <4>1
      <4> QED BY <4>1, <4>2
    <3> QED BY <1>1, <3>1, <3>2
  <2>5. ASSUME NEW v \in Worker, held'[v] # None PROVE held'[v] \in processing'
    BY <1>1, <2>1, <2>2, <2>5
  <2>6. processing' = {held'[v] : v \in Worker} \ {None}
    BY <2>4, <2>5
  <2>7. OneWorkerPerItem'
    BY <2>1, <2>3 DEF QueueInv, HeldInv, OneWorkerPerItem
  <2> QED BY <1>1, <2>6, <2>7 DEF QueueInv, TypeOK, HeldInv
<1>7. NoLostWakeup'
  <2>1. IsFiniteSet(woken) /\ Cardinality(woken) \in Nat
    BY WokenFinite DEF QueueInv
  <2>2. Cardinality(woken') >= Cardinality(woken) - 1 /\ Cardinality(woken') \in Nat
    <3>1. CASE w \in woken
      <4>1. Cardinality(woken') = Cardinality(woken) - 1 /\ IsFiniteSet(woken')
        BY <1>1, <2>1, <3>1, FS_RemoveElement
      <4>2. Cardinality(woken') \in Nat
        BY <4>1, FS_CardinalityType
      <4> QED BY <2>1, <4>1, <4>2
    <3>2. CASE w \notin woken
      <4>1. woken' = woken
        BY <1>1, <3>2
      <4> QED BY <2>1, <4>1
    <3> QED BY <3>1, <3>2
  <2> QED
    BY <1>1, <1>2, <2>1, <2>2 DEF QueueInv, TypeOK, NoLostWakeup
<1> QED BY <1>4, <1>5, <1>6, <1>7 DEF QueueInv

(* Every step keeps the invariant.                                         *)
LEMMA QueueStepInv == QueueInv /\ [Next]_vars => QueueInv'
<1> SUFFICES ASSUME QueueInv, [Next]_vars PROVE QueueInv'
  OBVIOUS
<1>1. ASSUME NEW i \in Item, Produce(i) PROVE QueueInv'
  BY <1>1, ProduceKeepsInv
<1>2. ASSUME NEW w \in Worker, GetWait(w) PROVE QueueInv'
  <2>1. TypeOK' /\ QueueIsDirtyAndIdle' /\ HeldInv'
    BY <1>2 DEF GetWait, InGet, QueueInv, TypeOK, QueueIsDirtyAndIdle, Queued, NoDuplicates,
                HeldInv, OneWorkerPerItem
  <2>2. Cardinality(woken') \in Nat
    BY <2>1, WorkerAssumption, FS_Subset, FS_CardinalityType DEF TypeOK
  <2>3. NoLostWakeup'
    BY <1>2, <2>2 DEF GetWait, NoLostWakeup
  <2> QED BY <2>1, <2>3 DEF QueueInv
<1>3. ASSUME NEW w \in Worker, GetItem(w) PROVE QueueInv'
  BY <1>3, GetItemKeepsInv
<1>4. ASSUME NEW w \in Worker, GetShutdown(w) PROVE QueueInv'
  BY <1>4 DEF GetShutdown, InGet, QueueInv, TypeOK, QueueIsDirtyAndIdle, Queued, NoDuplicates,
              HeldInv, OneWorkerPerItem, NoLostWakeup
<1>5. ASSUME NEW w \in Worker, Finish(w) PROVE QueueInv'
  BY <1>5, FinishKeepsInv
<1>6. CASE ShutDown
  BY <1>6 DEF ShutDown, Broadcast, QueueInv, TypeOK, QueueIsDirtyAndIdle, Queued, NoDuplicates,
              HeldInv, OneWorkerPerItem, NoLostWakeup
<1>7. CASE UNCHANGED vars
  BY <1>7 DEF vars, QueueInv, TypeOK, QueueIsDirtyAndIdle, Queued, NoDuplicates,
              HeldInv, OneWorkerPerItem, NoLostWakeup
<1> QED BY <1>1, <1>2, <1>3, <1>4, <1>5, <1>6, <1>7 DEF Next

-----------------------------------------------------------------------------
(* The inductive invariant, with any number of workers.                    *)
THEOREM QueueInvariant == Spec => []QueueInv
  BY QueueInit, QueueStepInv, PTL DEF Spec

(* Type correctness of the queue.                                          *)
THEOREM QueueTypeCorrect == Spec => []TypeOK
<1>1. QueueInv => TypeOK
  BY DEF QueueInv
<1> QED BY <1>1, QueueInvariant, PTL

(* The queue holds exactly the dirty items that nobody processes, each     *)
(* once.                                                                   *)
THEOREM QueueHoldsDirtyIdle == Spec => []QueueIsDirtyAndIdle
<1>1. QueueInv => QueueIsDirtyAndIdle
  BY DEF QueueInv
<1> QED BY <1>1, QueueInvariant, PTL

(* Get never hands an item to two workers at once.                         *)
THEOREM QueueIsStingy == Spec => []OneWorkerPerItem
<1>1. QueueInv => OneWorkerPerItem
  BY DEF QueueInv, HeldInv
<1> QED BY <1>1, QueueInvariant, PTL

(* Add and Done signal often enough.                                       *)
THEOREM QueueWakesWorkers == Spec => []NoLostWakeup
<1>1. QueueInv => NoLostWakeup
  BY DEF QueueInv
<1> QED BY <1>1, QueueInvariant, PTL

(* Add, Get, Done and ShutDown do what the abstract set of work allows:    *)
(* the queue implements WorkSet.                                           *)
THEOREM QueueImplementsWorkSet == Spec => ImplementsWorkSet
<1>1. Init => Abs!Init
  BY DEF Init, Abs!Init
<1>2. QueueInv /\ [Next]_vars => [Abs!Next]_(Abs!absVars)
  <2> SUFFICES ASSUME QueueInv, [Next]_vars PROVE [Abs!Next]_(Abs!absVars)
    OBVIOUS
  <2>1. ASSUME NEW i \in Item, Produce(i) PROVE Abs!Mark(i) \/ UNCHANGED Abs!absVars
    BY <2>1 DEF Produce, Add, Abs!Mark, Abs!absVars
  <2>2. ASSUME NEW w \in Worker, GetWait(w) \/ GetShutdown(w) PROVE UNCHANGED Abs!absVars
    BY <2>2 DEF GetWait, GetShutdown, Abs!absVars
  <2>3. ASSUME NEW w \in Worker, GetItem(w) PROVE \E i \in Item : Abs!Take(w, i)
    <3>1. /\ Head(queue) \in Queued /\ Head(queue) \in Item
      BY <2>3, TailQueued DEF GetItem, QueueInv, TypeOK, QueueIsDirtyAndIdle
    <3>2. Head(queue) \in dirty \ processing
      BY <3>1 DEF QueueInv, QueueIsDirtyAndIdle
    <3>3. Abs!Take(w, Head(queue))
      BY <2>3, <3>2 DEF GetItem, InGet, Abs!Take
    <3> QED BY <3>1, <3>3
  <2>4. ASSUME NEW w \in Worker, Finish(w) PROVE Abs!Release(w)
    BY <2>4 DEF Finish, Done, Abs!Release
  <2>5. ASSUME ShutDown PROVE Abs!Close
    BY <2>5 DEF ShutDown, Abs!Close
  <2>6. ASSUME UNCHANGED vars PROVE UNCHANGED Abs!absVars
    BY <2>6 DEF vars, Abs!absVars
  <2> QED BY <2>1, <2>2, <2>3, <2>4, <2>5, <2>6 DEF Next, Abs!Next
<1> QED BY <1>1, <1>2, QueueInvariant, PTL DEF Spec, ImplementsWorkSet, Abs!Spec
=============================================================================
