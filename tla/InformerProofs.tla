--------------------------- MODULE InformerProofs ---------------------------
(***************************************************************************)
(* Proofs about Informer, for any finite set of keys and any bounds.       *)
(*                                                                         *)
(* Everything is said about the line of a key: the object in the store,    *)
(* then its deltas popped and queued.  Queuing a delta appends to it,      *)
(* processing one takes the first element off, popping leaves it alone.    *)
(***************************************************************************)
EXTENDS Informer, FiniteSetTheorems, SequenceTheorems, TLAPS

InformerInv ==
  /\ TypeOK
  /\ LogInv
  /\ QueueMatchesItems
  /\ OnlyDeletionsAreMissed
  /\ LineInOrder
  /\ LineInv

-----------------------------------------------------------------------------
(* Sequences.                                                              *)

(* Appending to the second part of a sequence appends to the whole.        *)
LEMMA ConcatAppend ==
  ASSUME NEW s \in Seq(Nat), NEW t \in Seq(Nat), NEW d \in Nat
  PROVE  s \o Append(t, d) = Append(s \o t, d)
<1> DEFINE l == s \o Append(t, d)
           r == Append(s \o t, d)
<1>1. l \in Seq(Nat) /\ r \in Seq(Nat) /\ Len(l) = Len(r)
  OBVIOUS
<1>2. \A i \in 1 .. Len(l) : l[i] = r[i]
  OBVIOUS
<1> QED BY <1>1, <1>2, SeqEqual

(* What putting one element in front does to the indices.                  *)
LEMMA Prefixed ==
  ASSUME NEW x \in Nat, NEW s \in Seq(Nat)
  PROVE  /\ <<x>> \o s \in Seq(Nat)
         /\ Len(<<x>> \o s) = 1 + Len(s)
         /\ (<<x>> \o s)[1] = x
         /\ \A i \in 1 .. Len(s) : (<<x>> \o s)[i + 1] = s[i]
  OBVIOUS

(* The tail of a concatenation is that of its first part, joined with the  *)
(* second.                                                                 *)
LEMMA ConcatTail ==
  ASSUME NEW s \in Seq(Nat), s # <<>>, NEW t \in Seq(Nat)
  PROVE  /\ s \o t \in Seq(Nat) /\ s \o t # <<>>
         /\ Head(s \o t) = Head(s)
         /\ Tail(s \o t) = Tail(s) \o t
<1> DEFINE l == Tail(s \o t)
           r == Tail(s) \o t
<1>1. s \o t \in Seq(Nat) /\ s \o t # <<>> /\ Head(s \o t) = Head(s)
  OBVIOUS
<1>2. l \in Seq(Nat) /\ r \in Seq(Nat) /\ Len(l) = Len(r)
  BY <1>1
<1>3. \A i \in 1 .. Len(l) : l[i] = r[i]
  BY <1>1, <1>2
<1> QED BY <1>1, <1>2, <1>3, SeqEqual

-----------------------------------------------------------------------------
(* Lines.                                                                  *)

LEMMA DeltasType ==
  ASSUME TypeOK, NEW k \in Key
  PROVE  Deltas(k) \in Seq(Nat) /\ store[k] \in Nat
<1>1. store[k] \in Nat /\ items[k] \in Seq(Nat) /\ todo \in Seq(Nat)
  BY DEF TypeOK, Objects
<1> QED BY <1>1 DEF Deltas

(* A line is never empty: it begins with what the store holds.             *)
LEMMA LineType ==
  ASSUME TypeOK, NEW k \in Key
  PROVE  /\ Line(k) \in Seq(Nat)
         /\ Len(Line(k)) >= 1
         /\ Line(k)[1] = store[k]
         /\ Final(k) \in Nat
<1>1. Deltas(k) \in Seq(Nat) /\ store[k] \in Nat
  BY DeltasType
<1>2. Line(k) \in Seq(Nat) /\ Len(Line(k)) >= 1 /\ Line(k)[1] = store[k]
  BY <1>1, Prefixed DEF Line
<1> QED BY <1>2 DEF Final, Newest

(* queueActionLocked appends to the line of its key.                       *)
LEMMA LineAppend ==
  ASSUME TypeOK, NEW k \in Key, NEW d \in Nat,
         UNCHANGED <<store, cur, todo>>, items'[k] = Append(items[k], d)
  PROVE  Line(k)' = Append(Line(k), d)
<1>1. store[k] \in Nat /\ items[k] \in Seq(Nat) /\ todo \in Seq(Nat)
  BY DEF TypeOK, Objects
<1>2. Deltas(k)' = Append(Deltas(k), d)
  <2> DEFINE t == IF cur = k THEN todo ELSE <<>>
  <2>1. t \in Seq(Nat)
    BY <1>1
  <2>2. Deltas(k)' = t \o Append(items[k], d) /\ Deltas(k) = t \o items[k]
    BY DEF Deltas
  <2> HIDE DEF t
  <2> QED BY <1>1, <2>1, <2>2, ConcatAppend
<1>3. Deltas(k) \in Seq(Nat)
  BY DeltasType
<1>4. <<store[k]>> \in Seq(Nat)
  BY <1>1
<1> QED BY <1>2, <1>3, <1>4, ConcatAppend DEF Line

(* A key whose store entry and deltas are left alone keeps its line.       *)
LEMMA LineSame ==
  ASSUME NEW k \in Key, UNCHANGED <<cur, todo>>,
         store'[k] = store[k], items'[k] = items[k]
  PROVE  Line(k)' = Line(k)
  BY DEF Line, Deltas

(* Process takes the first element off the line of its key.                *)
LEMMA LineProcess ==
  ASSUME TypeOK, Process, NEW c, c = cur
  PROVE  /\ c \in Key
         /\ Len(Line(c)) >= 2
         /\ Line(c)[2] = Head(todo)
         /\ store' = [store EXCEPT ![c] = Line(c)[2]]
         /\ Line(c)' \in Seq(Nat)
         /\ Len(Line(c)') = Len(Line(c)) - 1
         /\ \A i \in 1 .. Len(Line(c)') : Line(c)'[i] = Line(c)[i + 1]
         /\ \A k \in Key : k # c => Line(k)' = Line(k)
<1>1. /\ c \in Key /\ store[c] \in Nat /\ items[c] \in Seq(Nat)
      /\ todo \in Seq(Nat) /\ todo # <<>>
  BY DEF TypeOK, Objects, Process
<1>2. /\ store' = [store EXCEPT ![c] = Head(todo)] /\ todo' = Tail(todo)
      /\ cur' = c /\ items' = items
  BY DEF Process, fifo
<1>3. store'[c] = Head(todo) /\ \A k \in Key : k # c => store'[k] = store[k]
  BY <1>1, <1>2 DEF TypeOK, Objects
<1> DEFINE d == Deltas(c)
<1>4. /\ d \in Seq(Nat) /\ d # <<>>
      /\ Head(d) = Head(todo)
      /\ Deltas(c)' = Tail(d)
  BY <1>1, <1>2, ConcatTail DEF Deltas
<1>5. /\ Len(Line(c)) = 1 + Len(d)
      /\ \A i \in 1 .. Len(d) : Line(c)[i + 1] = d[i]
  BY <1>1, <1>4, Prefixed DEF Line
<1>6. Line(c)' = <<Head(d)>> \o Tail(d)
  BY <1>2, <1>3, <1>4 DEF Line
<1>7. <<Head(d)>> \o Tail(d) = d
  <2>1. <<Head(d)>> \o Tail(d) \in Seq(Nat) /\ Len(<<Head(d)>> \o Tail(d)) = Len(d)
    BY <1>4
  <2>2. \A i \in 1 .. Len(d) : (<<Head(d)>> \o Tail(d))[i] = d[i]
    BY <1>4
  <2> HIDE DEF d
  <2> QED BY <1>4, <2>1, <2>2, SeqEqual
<1>8. \A k \in Key : k # c => Line(k)' = Line(k)
  BY <1>2, <1>3 DEF Line, Deltas
<1>9. Line(c)[2] = Head(d)
  BY <1>4, <1>5
<1> HIDE DEF d
<1>10. Line(c)' = d
  BY <1>6, <1>7
<1>11. Len(d) >= 1
  BY <1>4
<1>12. /\ Line(c)' \in Seq(Nat) /\ Len(Line(c)') = Len(Line(c)) - 1
       /\ \A i \in 1 .. Len(Line(c)') : Line(c)'[i] = Line(c)[i + 1]
  BY <1>4, <1>5, <1>10
<1>13. Len(Line(c)) >= 2 /\ Line(c)[2] = Head(todo)
  BY <1>4, <1>5, <1>9, <1>11
<1> QED BY <1>1, <1>2, <1>8, <1>12, <1>13

(* Pop moves the deltas of a key, and no line changes.                     *)
LEMMA LinePop ==
  ASSUME TypeOK, Pop, NEW k \in Key
  PROVE  Line(k)' = Line(k)
<1>1. /\ items[k] \in Seq(Nat) /\ todo = <<>>
      /\ queue \in Seq(Key) /\ queue # <<>> /\ store' = store
      /\ cur' = Head(queue) /\ todo' = items[Head(queue)]
      /\ items' = [items EXCEPT ![Head(queue)] = <<>>]
  BY DEF TypeOK, Objects, Pop
<1>2. Head(queue) \in Key
  BY <1>1
<1>3. Deltas(k) = items[k]
  BY <1>1, ConcatEmptySeq DEF Deltas
<1>4. Deltas(k)' = items[k]
  <2>1. CASE k = Head(queue)
    <3>1. items'[k] = <<>> /\ todo' = items[k] /\ cur' = k
      BY <1>1, <1>2, <2>1 DEF TypeOK
    <3> QED BY <1>1, <3>1, ConcatEmptySeq DEF Deltas
  <2>2. CASE k # Head(queue)
    <3>1. items'[k] = items[k] /\ cur' # k
      BY <1>1, <1>2, <2>2 DEF TypeOK
    <3> QED BY <1>1, <3>1, ConcatEmptySeq DEF Deltas
  <2> QED BY <2>1, <2>2
<1> QED BY <1>1, <1>3, <1>4 DEF Line

-----------------------------------------------------------------------------
(* The server's log.                                                       *)

LEMMA LogEntry ==
  ASSUME TypeOK, NEW v \in 1 .. Len(log)
  PROVE  log[v].key \in Key /\ log[v].objects \in Objects
<1>1. log \in Seq([key : Key, objects : Objects])
  BY DEF TypeOK
<1>2. log[v] \in [key : Key, objects : Objects]
  BY <1>1, ElementOfSeq
<1> QED BY <1>2

(* The object of a key is the last change of that key, or no object.       *)
LEMMA AtFacts ==
  ASSUME TypeOK, LogInv, NEW v \in 0 .. Len(log), NEW k \in Key
  PROVE  /\ At(v) \in Objects
         /\ At(v)[k] \in 0 .. v
         /\ At(v)[k] # 0 => log[At(v)[k]].key = k
         /\ \A u \in 1 .. v : log[u].key = k /\ At(v)[k] # 0 => u <= At(v)[k]
<1>1. CASE v = 0
  BY <1>1 DEF At, NoObjects, Objects
<1>2. CASE v # 0
  <2>1. v \in 1 .. Len(log) /\ v \in DOMAIN log /\ At(v) = log[v].objects
    BY <1>2 DEF TypeOK, At
  <2>2. log[v].objects \in Objects
    BY <2>1, LogEntry
  <2>3. log[v].objects[k] <= v /\ log[v].objects[k] \in Nat
    BY <2>1, <2>2 DEF LogInv, Objects
  <2>4. \A u \in 1 .. v : /\ log[u].key = k /\ log[v].objects[k] # 0 => u <= log[v].objects[k]
                          /\ log[v].objects[k] = u => log[u].key = k
    BY <2>1 DEF LogInv
  <2> QED BY <2>1, <2>2, <2>3, <2>4
<1> QED BY <1>1, <1>2

(* One change touches one key.                                             *)
LEMMA AtNext ==
  ASSUME TypeOK, LogInv, NEW v \in 0 .. Len(log), v < Len(log)
  PROVE  /\ v + 1 \in 1 .. Len(log)
         /\ log[v + 1].key \in Key
         /\ At(v + 1) = log[v + 1].objects
         /\ log[v + 1].objects[log[v + 1].key] \in {0, v + 1}
         /\ \A k \in Key : k # log[v + 1].key => At(v + 1)[k] = At(v)[k]
<1>1. v + 1 \in 1 .. Len(log) /\ v + 1 \in DOMAIN log /\ v + 1 # 0 /\ (v + 1) - 1 = v
  BY DEF TypeOK
<1>2. log[v + 1].key \in Key /\ At(v + 1) = log[v + 1].objects
  BY <1>1, LogEntry DEF At
<1>3. /\ log[v + 1].objects[log[v + 1].key] \in {0, v + 1}
      /\ \A k \in Key : k # log[v + 1].key => log[v + 1].objects[k] = At((v + 1) - 1)[k]
  BY <1>1 DEF LogInv
<1> QED BY <1>1, <1>2, <1>3

-----------------------------------------------------------------------------
(* The invariant holds at first, and every action keeps it.                *)

LEMMA InformerInit == Init => InformerInv
<1> SUFFICES ASSUME Init PROVE InformerInv
  OBVIOUS
<1>1. TypeOK
  <2>1. synced \in BOOLEAN
    BY Zenon DEF Init
  <2>2. /\ log \in Seq([key : Key, objects : Objects]) /\ Len(log) = 0
        /\ queue \in Seq(Key) /\ todo \in Seq(Nat)
    BY DEF Init
  <2>3. store \in Objects /\ items \in [Key -> Seq(Nat)]
    BY DEF Init, Objects, NoObjects
  <2> QED BY <2>1, <2>2, <2>3 DEF Init, TypeOK
<1>2. \A k \in Key : Line(k) = <<0>>
  <2> TAKE k \in Key
  <2>1. Deltas(k) = <<>> \o <<>>
    BY DEF Init, Deltas
  <2>2. Deltas(k) = <<>>
    BY <2>1
  <2>3. Line(k) = <<0>> \o <<>>
    BY <2>2 DEF Init, Line, NoObjects
  <2> QED BY <2>3
<1>3. LogInv
  BY BoundAssumption DEF Init, LogInv
<1>4. QueueMatchesItems
  BY DEF Init, QueueMatchesItems
<1>5. OnlyDeletionsAreMissed
  BY DEF Init, OnlyDeletionsAreMissed, At, NoObjects
<1>6. LineInOrder
  BY <1>2 DEF LineInOrder, InOrder
<1>7. LineInv
  BY <1>2 DEF Init, LineInv
<1> QED BY <1>1, <1>3, <1>4, <1>5, <1>6, <1>7 DEF InformerInv

(* A change at the server adds a version; what was there stays.            *)
LEMMA ChangeLog ==
  ASSUME InformerInv, NEW k \in Key, NEW gone \in BOOLEAN, Change(k, gone)
  PROVE  /\ log' \in Seq([key : Key, objects : Objects])
         /\ Len(log') = Len(log) + 1
         /\ \A v \in 1 .. Len(log) : log'[v] = log[v]
         /\ \A v \in 0 .. Len(log) : At(v)' = At(v)
         /\ LogInv'
<1> DEFINE n == Len(log)
           o == IF gone THEN 0 ELSE n + 1
           r == [key |-> k, objects |-> [At(n) EXCEPT ![k] = o]]
<1>1. TypeOK /\ LogInv /\ n < MaxChanges /\ log' = Append(log, r)
  BY DEF InformerInv, Change
<1>2. n \in Nat /\ n \in 0 .. Len(log) /\ o \in {0, n + 1}
  BY <1>1 DEF TypeOK
<1>3. At(n) \in Objects
  BY <1>1, <1>2, AtFacts
<1>4. r \in [key : Key, objects : Objects]
  BY <1>2, <1>3 DEF Objects
<1>5. /\ log' \in Seq([key : Key, objects : Objects]) /\ Len(log') = n + 1
      /\ \A v \in 1 .. n : log'[v] = log[v]
      /\ log'[n + 1] = r
  BY <1>1, <1>4 DEF TypeOK
<1>6. \A v \in 0 .. n : At(v)' = At(v)
  BY <1>2, <1>5 DEF At
<1>7. /\ r.key = k /\ r.objects[k] = o
      /\ \A j \in Key : j # k => r.objects[j] = At(n)[j]
  BY <1>3 DEF Objects
<1>8. \A j \in Key : /\ At(n)[j] \in 0 .. n
                     /\ At(n)[j] # 0 => log[At(n)[j]].key = j
                     /\ \A u \in 1 .. n : log[u].key = j /\ At(n)[j] # 0 => u <= At(n)[j]
  BY <1>1, <1>2, AtFacts
<1> HIDE DEF r, o
<1>9. LogInv'
  <2>1. Len(log') <= MaxChanges
    BY <1>1, <1>2, <1>5, BoundAssumption
  <2> SUFFICES ASSUME NEW v \in 1 .. n + 1
               PROVE  /\ log'[v].objects[log'[v].key] \in {0, v}
                      /\ \A j \in Key : j # log'[v].key => log'[v].objects[j] = At(v - 1)'[j]
                      /\ \A j \in Key : log'[v].objects[j] <= v
                      /\ \A j \in Key, u \in 1 .. v :
                           /\ log'[u].key = j /\ log'[v].objects[j] # 0 => u <= log'[v].objects[j]
                           /\ log'[v].objects[j] = u => log'[u].key = j
    BY <1>5, <2>1 DEF LogInv
  <2>2. CASE v \in 1 .. n
    <3>1. v \in DOMAIN log /\ \A u \in 1 .. v : u \in 1 .. n
      BY <1>2, <2>2 DEF TypeOK
    <3>2. v - 1 \in 0 .. n
      BY <1>2, <2>2
    <3> QED BY <1>1, <1>5, <1>6, <2>2, <3>1, <3>2 DEF LogInv
  <2>3. CASE v = n + 1
    <3>1. v - 1 = n /\ log'[v] = r
      BY <1>2, <1>5, <2>3
    <3>2. log'[v].objects[log'[v].key] \in {0, v}
      BY <1>2, <1>7, <2>3, <3>1
    <3>3. \A j \in Key : j # log'[v].key => log'[v].objects[j] = At(v - 1)'[j]
      BY <1>2, <1>6, <1>7, <3>1
    <3>4. \A j \in Key : log'[v].objects[j] <= v
      BY <1>2, <1>7, <1>8, <2>3, <3>1
    <3>5. ASSUME NEW j \in Key, NEW u \in 1 .. v
          PROVE  /\ log'[u].key = j /\ log'[v].objects[j] # 0 => u <= log'[v].objects[j]
                 /\ log'[v].objects[j] = u => log'[u].key = j
      <4>1. CASE j = k
        BY <1>2, <1>7, <2>3, <3>1, <4>1
      <4>2. CASE j # k /\ u = v
        BY <1>2, <1>7, <1>8, <2>3, <3>1, <4>2
      <4>3. CASE j # k /\ u \in 1 .. n
        BY <1>2, <1>5, <1>7, <1>8, <2>3, <3>1, <4>3
      <4> QED BY <1>2, <2>3, <4>1, <4>2, <4>3
    <3> QED BY <3>2, <3>3, <3>4, <3>5
  <2> QED BY <1>2, <2>2, <2>3
<1> QED BY <1>5, <1>6, <1>9

LEMMA ChangeKeeps ==
  ASSUME InformerInv, NEW k \in Key, NEW gone \in BOOLEAN, Change(k, gone)
  PROVE  InformerInv'
<1>1. /\ log' \in Seq([key : Key, objects : Objects])
      /\ Len(log') = Len(log) + 1
      /\ \A v \in 1 .. Len(log) : log'[v] = log[v]
      /\ \A v \in 0 .. Len(log) : At(v)' = At(v)
      /\ LogInv'
  BY ChangeLog
<1>2. TypeOK /\ OnlyDeletionsAreMissed /\ LineInOrder /\ LineInv /\ QueueMatchesItems
  BY DEF InformerInv
<1>3. UNCHANGED <<rpc, snap, rv, synced, items, queue, store, cur, todo, pend>>
  BY DEF Change, reflector, fifo, controller
<1>4. Len(log) \in Nat /\ rv \in 0 .. Len(log)
  BY <1>2 DEF TypeOK
<1>5. TypeOK'
  BY <1>1, <1>2, <1>3, <1>4 DEF TypeOK
<1>6. \A j \in Key : Line(j)' = Line(j)
  BY <1>3, LineSame
<1>7. QueueMatchesItems'
  BY <1>2, <1>3 DEF QueueMatchesItems
<1>8. At(rv)' = At(rv)
  BY <1>1, <1>3, <1>4 DEF At
<1>9. OnlyDeletionsAreMissed'
  BY <1>2, <1>6, <1>8 DEF OnlyDeletionsAreMissed, Final
<1>10. LineInOrder'
  BY <1>2, <1>6 DEF LineInOrder
<1>11. \A j \in Key : \A i \in DOMAIN Line(j) :
         Line(j)[i] <= rv /\ (Line(j)[i] # 0 => log'[Line(j)[i]].key = j)
  <2> SUFFICES ASSUME NEW j \in Key, NEW i \in DOMAIN Line(j)
               PROVE  Line(j)[i] <= rv /\ (Line(j)[i] # 0 => log'[Line(j)[i]].key = j)
    OBVIOUS
  <2>1. Line(j)[i] <= rv /\ (Line(j)[i] # 0 => log[Line(j)[i]].key = j)
    BY <1>2 DEF LineInv
  <2>2. Line(j)[i] \in Nat
    BY <1>2, LineType, ElementOfSeq
  <2> QED BY <1>1, <1>4, <2>1, <2>2
<1>12. LineInv'
  BY <1>2, <1>3, <1>6, <1>11 DEF LineInv
<1> QED BY <1>1, <1>5, <1>7, <1>9, <1>10, <1>12 DEF InformerInv

(* A step that leaves the log, rv and every line alone has only the types  *)
(* and the parts about the reflector to show.                              *)
LEMMA QuietStep ==
  ASSUME InformerInv, UNCHANGED <<log, rv, items, queue, store, cur, todo>>
  PROVE  /\ \A k \in Key : Line(k)' = Line(k)
         /\ LogInv' /\ QueueMatchesItems' /\ OnlyDeletionsAreMissed' /\ LineInOrder'
<1>1. \A k \in Key : Line(k)' = Line(k)
  BY LineSame
<1>2. /\ LogInv /\ QueueMatchesItems /\ OnlyDeletionsAreMissed /\ LineInOrder
  BY DEF InformerInv
<1>3. LogInv'
  BY <1>2 DEF LogInv, At
<1>4. QueueMatchesItems'
  BY <1>2 DEF QueueMatchesItems
<1>5. OnlyDeletionsAreMissed'
  BY <1>1, <1>2 DEF OnlyDeletionsAreMissed, Final, At
<1>6. LineInOrder'
  BY <1>1, <1>2 DEF LineInOrder
<1> QED BY <1>1, <1>3, <1>4, <1>5, <1>6

(* The steps of the reflector that touch no delta, and the handler's call. *)
LEMMA QuietKeeps ==
  ASSUME InformerInv,
         \/ List \/ SetLast \/ WatchOpens \/ WatchFails \/ WatchCloses \/ WatchEnds
         \/ Enqueue \/ UNCHANGED vars
  PROVE  InformerInv'
<1>1. UNCHANGED <<log, rv, items, queue, store, cur, todo>>
  BY DEF List, SetLast, WatchOpens, WatchFails, WatchCloses, WatchEnds, Enqueue, vars,
         server, reflector, fifo, controller
<1>2. /\ \A k \in Key : Line(k)' = Line(k)
      /\ LogInv' /\ QueueMatchesItems' /\ OnlyDeletionsAreMissed' /\ LineInOrder'
  BY <1>1, QuietStep
<1>3. TypeOK /\ LineInv
  BY DEF InformerInv
<1>4. Len(log) \in Nat
  BY <1>3 DEF TypeOK
<1>5. TypeOK'
  <2>1. /\ rpc' \in {"list", "replace", "setLast", "watch", "watching"}
        /\ snap' \in 0 .. Len(log)
        /\ pend' \in Key \cup {None}
    BY <1>3, <1>4 DEF TypeOK, List, SetLast, WatchOpens, WatchFails, WatchCloses, WatchEnds,
         Enqueue, vars, server, reflector, fifo, controller, Step
  <2>2. synced' = synced \/ synced' = TRUE
    BY DEF List, SetLast, WatchOpens, WatchFails, WatchCloses, WatchEnds,
         Enqueue, vars, server, reflector, fifo, controller
  <2>3. synced' \in BOOLEAN
    BY <1>3, <2>2, Zenon DEF TypeOK
  <2> QED BY <1>1, <1>3, <2>1, <2>3 DEF TypeOK
<1>6. /\ rpc' = "replace" => rv <= snap'
      /\ rpc' \in {"watch", "watching"} => synced'
      /\ ~synced' => ~synced
      /\ ~synced' /\ rpc' \in {"list", "replace"} => rpc \in {"list", "replace"}
  <2>1. rv <= Len(log)
    BY <1>3, <1>4 DEF TypeOK
  <2> QED BY <1>3, <1>4, <2>1 DEF LineInv, List, SetLast, WatchOpens, WatchFails, WatchCloses,
         WatchEnds, Enqueue, vars, server, reflector, fifo, controller, Step
<1>7. LineInv'
  BY <1>1, <1>2, <1>3, <1>6 DEF LineInv
<1> QED BY <1>2, <1>5, <1>7 DEF InformerInv

(* Pop moves deltas within a line; its key leaves the queue.               *)
LEMMA PopKeeps ==
  ASSUME InformerInv, Pop
  PROVE  InformerInv'
<1>1. TypeOK /\ LogInv /\ QueueMatchesItems /\ OnlyDeletionsAreMissed /\ LineInOrder /\ LineInv
  BY DEF InformerInv
<1>2. /\ UNCHANGED <<log, rpc, snap, rv, synced, store, pend>>
      /\ queue # <<>> /\ queue' = Tail(queue)
      /\ cur' = Head(queue) /\ todo' = items[Head(queue)]
      /\ items' = [items EXCEPT ![Head(queue)] = <<>>]
  BY DEF Pop, server, reflector
<1>3. queue \in Seq(Key) /\ Head(queue) \in Key /\ items \in [Key -> Seq(Nat)]
  BY <1>1, <1>2 DEF TypeOK
<1>4. TypeOK'
  <2>1. queue' \in Seq(Key) /\ todo' \in Seq(Nat) /\ items' \in [Key -> Seq(Nat)]
    BY <1>2, <1>3
  <2>2. cur' \in Key /\ cur' # None
    BY <1>2, <1>3, NoneAssumption
  <2> QED BY <1>1, <1>2, <2>1, <2>2 DEF TypeOK
<1>5. \A k \in Key : Line(k)' = Line(k)
  BY <1>1, LinePop
<1>6. LogInv' /\ OnlyDeletionsAreMissed' /\ LineInOrder' /\ LineInv'
  BY <1>1, <1>2, <1>5 DEF LogInv, OnlyDeletionsAreMissed, LineInOrder, LineInv, Final, At
<1>7. QueueMatchesItems'
  <2> DEFINE h == Head(queue)
  <2>1. /\ Len(queue) \in Nat \ {0} /\ Len(queue') = Len(queue) - 1
        /\ DOMAIN queue = 1 .. Len(queue) /\ DOMAIN queue' = 1 .. Len(queue) - 1
        /\ \A i \in 1 .. Len(queue) - 1 : queue'[i] = queue[i + 1]
        /\ h = queue[1]
    BY <1>2, <1>3
  <2>2. \A i, j \in DOMAIN queue' : queue'[i] = queue'[j] => i = j
    BY <1>1, <2>1 DEF QueueMatchesItems
  <2>3. \A i \in DOMAIN queue' : queue'[i] # h
    BY <1>1, <2>1 DEF QueueMatchesItems
  <2>4. \A k \in Key : k # h => (items'[k] # <<>> <=> \E i \in DOMAIN queue' : queue'[i] = k)
    <3> SUFFICES ASSUME NEW k \in Key, k # h
                 PROVE  items'[k] # <<>> <=> \E i \in DOMAIN queue' : queue'[i] = k
      OBVIOUS
    <3>1. items'[k] = items[k]
      BY <1>2, <1>3
    <3>2. (\E i \in DOMAIN queue : queue[i] = k) => \E i \in DOMAIN queue' : queue'[i] = k
      <4> SUFFICES ASSUME NEW i \in DOMAIN queue, queue[i] = k
                   PROVE  \E n \in DOMAIN queue' : queue'[n] = k
        OBVIOUS
      <4>1. i # 1 /\ i - 1 \in DOMAIN queue' /\ (i - 1) + 1 = i
        BY <2>1
      <4> QED BY <2>1, <4>1
    <3>3. (\E i \in DOMAIN queue' : queue'[i] = k) => \E i \in DOMAIN queue : queue[i] = k
      BY <2>1
    <3> QED BY <1>1, <3>1, <3>2, <3>3 DEF QueueMatchesItems
  <2>5. items'[h] = <<>>
    BY <1>2, <1>3
  <2> QED BY <2>2, <2>3, <2>4, <2>5 DEF QueueMatchesItems
<1> QED BY <1>4, <1>6, <1>7 DEF InformerInv

(* Process takes the first element off one line.                           *)
LEMMA ProcessKeeps ==
  ASSUME InformerInv, Process
  PROVE  InformerInv'
<1>1. TypeOK /\ LogInv /\ QueueMatchesItems /\ OnlyDeletionsAreMissed /\ LineInOrder /\ LineInv
  BY DEF InformerInv
<1>2. /\ UNCHANGED <<log, rpc, snap, rv, synced, items, queue, cur>>
      /\ todo # <<>> /\ todo' = Tail(todo)
      /\ store' = [store EXCEPT ![cur] = Head(todo)]
      /\ pend' \in {None, cur}
  BY DEF Process, server, reflector, fifo
<1> PICK c : c = cur
  OBVIOUS
<1> DEFINE l == Line(c)
           t == Line(c)'
<1>3. /\ c \in Key /\ Len(l) >= 2 /\ t \in Seq(Nat)
      /\ Len(t) = Len(l) - 1
      /\ \A i \in 1 .. Len(t) : t[i] = l[i + 1]
      /\ \A k \in Key : k # c => Line(k)' = Line(k)
  BY <1>1, LineProcess
<1>4. l \in Seq(Nat) /\ Len(l) \in Nat /\ DOMAIN l = 1 .. Len(l) /\ DOMAIN t = 1 .. Len(t)
  BY <1>1, <1>3, LineType
<1>5. TypeOK'
  <2>1. todo \in Seq(Nat) /\ Head(todo) \in Nat /\ Tail(todo) \in Seq(Nat)
    BY <1>1, <1>2 DEF TypeOK
  <2>2. store' \in Objects
    BY <1>1, <1>2, <2>1 DEF TypeOK, Objects
  <2> QED BY <1>1, <1>2, <1>3, <2>1, <2>2, NoneAssumption DEF TypeOK
<1>6. LogInv' /\ QueueMatchesItems' /\ At(rv)' = At(rv)
  BY <1>1, <1>2 DEF LogInv, QueueMatchesItems, At
<1> HIDE DEF l, t
<1>shift. \A i \in DOMAIN t : i \in Nat /\ i + 1 \in DOMAIN l /\ t[i] = l[i + 1]
  BY <1>3, <1>4
<1>7. OnlyDeletionsAreMissed'
  <2>1. t[Len(t)] = l[Len(l)]
    BY <1>3, <1>4
  <2>2. \A k \in Key : Final(k)' = Final(k)
    BY <1>3, <2>1 DEF Final, Newest, l, t
  <2> QED BY <1>1, <1>6, <2>2 DEF OnlyDeletionsAreMissed
<1>8. LineInOrder'
  <2>1. \A i, j \in DOMAIN l : i < j /\ l[i] # 0 /\ l[j] # 0 => l[i] <= l[j]
    BY <1>1, <1>3 DEF LineInOrder, InOrder, l
  <2>2. \A i, j \in DOMAIN t : i < j /\ t[i] # 0 /\ t[j] # 0 => t[i] <= t[j]
    <3> TAKE i, j \in DOMAIN t
    <3>1. i + 1 < j + 1 <=> i < j
      BY <1>shift
    <3> QED BY <1>shift, <2>1, <3>1
  <2>3. InOrder(t)
    BY <2>2 DEF InOrder
  <2> QED BY <1>1, <1>3, <2>3 DEF LineInOrder, t
<1>9. LineInv'
  <2>1. \A i \in DOMAIN l : l[i] <= rv /\ (l[i] # 0 => log[l[i]].key = c)
    BY <1>1, <1>3 DEF LineInv, l
  <2>2. \A i \in DOMAIN t : t[i] <= rv /\ (t[i] # 0 => log[t[i]].key = c)
    BY <1>shift, <2>1
  <2>3. \A k \in Key : \A i \in DOMAIN Line(k)' :
          LET v == Line(k)'[i] IN v <= rv /\ (v # 0 => log[v].key = k)
    BY <1>1, <1>3, <2>2 DEF LineInv, l, t
  <2>4. ~(~synced /\ rpc \in {"list", "replace"})
    <3>1. l # <<0>>
      <4>1. Len(<<0>>) = 1
        OBVIOUS
      <4>2. Len(l) # 1
        BY <1>3, <1>4
      <4> QED BY <4>1, <4>2
    <3> QED BY <1>1, <1>3, <3>1 DEF LineInv, l
  <2>5. ~synced => Len(t) = 1
    BY <1>1, <1>3, <1>4 DEF LineInv, l
  <2>6. ~synced => \A k \in Key : \/ Len(Line(k)') = 1
                                  \/ Len(Line(k)') = 2 /\ Line(k)'[1] = 0 /\ Line(k)'[2] # 0
    BY <1>1, <1>3, <2>5 DEF LineInv, t
  <2> QED BY <1>1, <1>2, <2>3, <2>4, <2>6 DEF LineInv
<1> QED BY <1>5, <1>6, <1>7, <1>8, <1>9 DEF InformerInv

(* A line that a delta is appended to stays in order if the delta is a     *)
(* deletion or at least as new as all before it.                           *)
LEMMA GrowsInOrder ==
  ASSUME NEW l \in Seq(Nat), NEW d \in Nat, InOrder(l),
         \A i \in DOMAIN l : d = 0 \/ l[i] <= d
  PROVE  InOrder(Append(l, d))
<1>1. PICK t : t = Append(l, d)
  OBVIOUS
<1>2. /\ DOMAIN l = 1 .. Len(l) /\ DOMAIN t = 1 .. Len(l) + 1 /\ Len(l) \in Nat
      /\ \A i \in DOMAIN l : t[i] = l[i] /\ l[i] \in Nat
      /\ t[Len(l) + 1] = d
  BY <1>1
<1>3. InOrder(t)
  <2> SUFFICES ASSUME NEW i \in DOMAIN t, NEW j \in DOMAIN t, i < j, t[i] # 0, t[j] # 0
               PROVE  t[i] <= t[j]
    BY DEF InOrder
  <2>1. i \in DOMAIN l /\ (j \in DOMAIN l \/ j = Len(l) + 1)
    BY <1>2
  <2>2. CASE j \in DOMAIN l
    BY <1>2, <2>1, <2>2 DEF InOrder
  <2>3. CASE j = Len(l) + 1
    BY <1>2, <2>1, <2>3
  <2> QED BY <2>1, <2>2, <2>3
<1> QED BY <1>1, <1>3

(* What queuing a delta does to a line, when the reflector reaches n.      *)
LEMMA LineGrows ==
  ASSUME InformerInv, NEW k \in Key, NEW d \in Nat, NEW n \in Nat,
         Line(k)' = Append(Line(k), d),
         rv <= n, d <= n, d # 0 => log[d].key = k,
         \A i \in DOMAIN Line(k) : d = 0 \/ Line(k)[i] <= d
  PROVE  /\ Final(k)' = d
         /\ \A i \in DOMAIN Line(k)' :
              Line(k)'[i] <= n /\ (Line(k)'[i] # 0 => log[Line(k)'[i]].key = k)
<1>1. PICK l : l = Line(k)
  OBVIOUS
<1>2. TypeOK /\ LineInv
  BY DEF InformerInv
<1>3. l \in Seq(Nat) /\ Len(l) >= 1 /\ rv \in 0 .. Len(log) /\ Len(log) \in Nat
  BY <1>1, <1>2, LineType DEF TypeOK
<1>4. \A i \in DOMAIN l : l[i] <= rv /\ (l[i] # 0 => log[l[i]].key = k)
  BY <1>1, <1>2 DEF LineInv
<1>5. Line(k)' = Append(l, d)
  BY <1>1
<1>6. Final(k)' = d
  BY <1>3, <1>5 DEF Final, Newest
<1>7. \A i \in DOMAIN Append(l, d) :
        Append(l, d)[i] <= n /\ (Append(l, d)[i] # 0 => log[Append(l, d)[i]].key = k)
  <2> SUFFICES ASSUME NEW i \in DOMAIN Append(l, d)
               PROVE  Append(l, d)[i] <= n /\ (Append(l, d)[i] # 0 => log[Append(l, d)[i]].key = k)
    OBVIOUS
  <2>1. CASE i \in DOMAIN l
    <3>1. Append(l, d)[i] = l[i] /\ l[i] \in Nat /\ l[i] <= rv /\ rv \in Nat
      BY <1>3, <1>4, <2>1
    <3> QED BY <1>4, <2>1, <3>1
  <2>2. CASE i = Len(l) + 1
    <3>1. Append(l, d)[i] = d
      BY <1>3, <2>2
    <3> QED BY <3>1
  <2> QED BY <1>3, <2>1, <2>2
<1> QED BY <1>5, <1>6, <1>7

LEMMA WatchEventKeeps ==
  ASSUME InformerInv, WatchEvent
  PROVE  InformerInv'
<1>0. PICK k, d : k = log[rv + 1].key /\ d = log[rv + 1].objects[k]
  OBVIOUS
<1>1. TypeOK /\ LogInv /\ QueueMatchesItems /\ OnlyDeletionsAreMissed /\ LineInOrder /\ LineInv
  BY DEF InformerInv
<1>2. /\ UNCHANGED <<log, rpc, snap, synced, store, cur, todo, pend>>
      /\ rpc = "watching" /\ rv < Len(log) /\ rv' = rv + 1
      /\ queueActionLocked(k, d)
  BY <1>0 DEF WatchEvent, server, controller
<1>3. /\ rv \in 0 .. Len(log) /\ rv \in Nat /\ rv + 1 \in Nat
      /\ Len(log) \in Nat
  BY <1>1 DEF TypeOK
<1>4. /\ rv + 1 \in 1 .. Len(log) /\ k \in Key /\ At(rv + 1)[k] = d /\ d \in {0, rv + 1}
      /\ \A j \in Key : j # k => At(rv + 1)[j] = At(rv)[j]
  BY <1>0, <1>1, <1>2, <1>3, AtNext
<1>5. /\ items' = [items EXCEPT ![k] = Append(@, d)]
      /\ queue' = IF items[k] = <<>> THEN Append(queue, k) ELSE queue
  BY <1>2 DEF queueActionLocked
<1>6. synced
  BY <1>1, <1>2 DEF LineInv
<1>7. (d # 0 => log[d].key = k)
  BY <1>0, <1>4
<1>8. d \in Nat /\ d <= rv + 1
  BY <1>3, <1>4
<1>9. items'[k] = Append(items[k], d) /\ \A j \in Key : j # k => items'[j] = items[j]
  BY <1>1, <1>4, <1>5 DEF TypeOK
<1>10. Line(k)' = Append(Line(k), d)
  BY <1>1, <1>2, <1>4, <1>8, <1>9, LineAppend
<1>11. \A j \in Key : j # k => Line(j)' = Line(j)
  BY <1>2, <1>9, LineSame
<1>12. \A i \in DOMAIN Line(k) : d = 0 \/ Line(k)[i] <= d
  <2> TAKE i \in DOMAIN Line(k)
  <2>1. Line(k)[i] <= rv /\ Line(k)[i] \in Nat
    BY <1>1, <1>4, LineType, ElementOfSeq DEF LineInv
  <2> QED BY <1>3, <1>4, <2>1
<1>13. /\ Final(k)' = d
       /\ InOrder(Line(k))'
       /\ \A i \in DOMAIN Line(k)' :
            Line(k)'[i] <= rv + 1 /\ (Line(k)'[i] # 0 => log[Line(k)'[i]].key = k)
  <2>0. PICK n : n = rv + 1
    OBVIOUS
  <2>1. n \in Nat /\ rv <= n /\ d <= n /\ log' = log /\ k \in Key /\ d \in Nat
    BY <1>2, <1>3, <1>4, <1>8, <2>0
  <2>2. /\ Final(k)' = d
        /\ \A i \in DOMAIN Line(k)' :
             Line(k)'[i] <= n /\ (Line(k)'[i] # 0 => log[Line(k)'[i]].key = k)
    BY <1>7, <1>10, <1>12, <2>1, LineGrows
  <2>3. InOrder(Line(k))'
    <3>1. Line(k) \in Seq(Nat) /\ InOrder(Line(k))
      BY <1>1, <1>4, LineType DEF LineInOrder
    <3>2. InOrder(Append(Line(k), d))
      BY <1>8, <1>12, <3>1, GrowsInOrder
    <3> QED BY <1>10, <3>2 DEF InOrder
  <2> QED BY <2>0, <2>2, <2>3
<1>grown. Append(items[k], d) \in Seq(Nat) /\ Append(items[k], d) # <<>>
  <2>1. items[k] \in Seq(Nat)
    BY <1>1, <1>4 DEF TypeOK
  <2> QED BY <1>8, <2>1
<1>14. TypeOK'
  <2>1. items' \in [Key -> Seq(Nat)]
    BY <1>1, <1>5, <1>grown DEF TypeOK
  <2>2. queue' \in Seq(Key)
    BY <1>1, <1>4, <1>5 DEF TypeOK
  <2>3. rv' \in 0 .. Len(log)
    BY <1>2, <1>3, <1>4
  <2> QED BY <1>1, <1>2, <2>1, <2>2, <2>3 DEF TypeOK
<1>15. LogInv'
  BY <1>1, <1>2 DEF LogInv, At
<1>16. QueueMatchesItems'
  <2>0. items[k] \in Seq(Nat) /\ queue \in Seq(Key)
    BY <1>1, <1>4 DEF TypeOK
  <2>1. items'[k] # <<>> /\ items[k] \in Seq(Nat) /\ queue \in Seq(Key)
    BY <1>9, <1>grown, <2>0
  <2>2. CASE items[k] = <<>>
    <3>1. /\ DOMAIN queue = 1 .. Len(queue) /\ DOMAIN queue' = 1 .. Len(queue) + 1
          /\ \A i \in 1 .. Len(queue) : queue'[i] = queue[i]
          /\ queue'[Len(queue) + 1] = k /\ Len(queue) \in Nat
      BY <1>4, <1>5, <2>1, <2>2
    <3>2. \A i \in DOMAIN queue : queue[i] # k
      BY <1>1, <1>4, <2>2 DEF QueueMatchesItems
    <3>3. \A i, j \in DOMAIN queue' : queue'[i] = queue'[j] => i = j
      BY <1>1, <3>1, <3>2 DEF QueueMatchesItems
    <3>4. \A j \in Key : (\E i \in DOMAIN queue' : queue'[i] = j)
                           <=> j = k \/ \E i \in DOMAIN queue : queue[i] = j
      BY <3>1
    <3> QED BY <1>1, <1>9, <2>1, <3>3, <3>4 DEF QueueMatchesItems
  <2>3. CASE items[k] # <<>>
    BY <1>1, <1>5, <1>9, <2>1, <2>3 DEF QueueMatchesItems
  <2> QED BY <2>0, <2>2, <2>3
<1>17. At(rv)' = At(rv + 1)
  BY <1>2 DEF At
<1>18. OnlyDeletionsAreMissed'
  <2> SUFFICES ASSUME NEW j \in Key
               PROVE  Final(j)' = At(rv + 1)[j] \/ At(rv + 1)[j] = 0
    BY <1>17 DEF OnlyDeletionsAreMissed
  <2>1. CASE j = k
    BY <1>4, <1>13, <2>1
  <2>2. CASE j # k
    BY <1>1, <1>4, <1>11, <2>2 DEF OnlyDeletionsAreMissed, Final
  <2> QED BY <2>1, <2>2
<1>19. LineInOrder'
  BY <1>1, <1>11, <1>13 DEF LineInOrder
<1>20. LineInv'
  <2> SUFFICES ASSUME NEW j \in Key, NEW i \in DOMAIN Line(j)'
               PROVE  Line(j)'[i] <= rv + 1 /\ (Line(j)'[i] # 0 => log[Line(j)'[i]].key = j)
    BY <1>2, <1>6 DEF LineInv
  <2>1. CASE j = k
    BY <1>13, <2>1
  <2>2. CASE j # k
    <3>1. Line(j)' = Line(j) /\ i \in DOMAIN Line(j)
      BY <1>11, <2>2
    <3>2. Line(j)[i] <= rv /\ (Line(j)[i] # 0 => log[Line(j)[i]].key = j)
      BY <1>1, <3>1 DEF LineInv
    <3>3. Line(j)[i] \in Nat
      BY <1>1, <3>1, LineType, ElementOfSeq
    <3> QED BY <1>3, <3>1, <3>2, <3>3
  <2> QED BY <2>1, <2>2
<1> QED BY <1>14, <1>15, <1>16, <1>18, <1>19, <1>20 DEF InformerInv

(* A relist appends what was listed to the line of a key, or leaves the    *)
(* line as it is: then nothing was listed, and the store has nothing or    *)
(* the newest delta is a deletion.                                         *)
LEMMA ReplaceLine ==
  ASSUME InformerInv, Replace, NEW k \in Key
  PROVE  \/ /\ SyncDelta(k) = <<>>
            /\ items'[k] = items[k]
            /\ Line(k)' = Line(k)
            /\ At(snap)[k] = 0
            /\ store[k] = 0 \/ Final(k) = 0
         \/ /\ SyncDelta(k) = <<At(snap)[k]>>
            /\ items'[k] = Append(items[k], At(snap)[k])
            /\ Line(k)' = Append(Line(k), At(snap)[k])
            /\ At(snap)[k] # 0 \/ store[k] # 0
<1>1. TypeOK /\ LogInv
  BY DEF InformerInv
<1>2. UNCHANGED <<store, cur, todo>> /\ items' = [j \in Key |-> items[j] \o SyncDelta(j)]
  BY DEF Replace, controller
<1>3. items[k] \in Seq(Nat) /\ store[k] \in Nat /\ snap \in 0 .. Len(log)
  BY <1>1 DEF TypeOK, Objects
<1>4. At(snap)[k] \in Nat
  BY <1>1, <1>3, AtFacts
<1>5. CASE SyncDelta(k) = <<>>
  <2>1. items'[k] = items[k]
    BY <1>2, <1>3, <1>5, ConcatEmptySeq
  <2>2. /\ At(snap)[k] = 0
        /\ store[k] = 0 \/ (items[k] # <<>> /\ Newest(items[k]) = 0)
    BY <1>5 DEF SyncDelta
  <2>3. items[k] # <<>> => Final(k) = Newest(items[k])
    <3> SUFFICES ASSUME items[k] # <<>>
                 PROVE  Final(k) = Newest(items[k])
      OBVIOUS
    <3>1. PICK t, u : t = (IF cur = k THEN todo ELSE <<>>) /\ u = items[k]
      OBVIOUS
    <3>2. t \in Seq(Nat) /\ u \in Seq(Nat) /\ u # <<>>
      BY <1>1, <1>3, <3>1 DEF TypeOK
    <3>3. PICK w : w = t \o u
      OBVIOUS
    <3>4. w \in Seq(Nat) /\ w # <<>> /\ w[Len(w)] = u[Len(u)] /\ Len(w) >= 1
      BY <3>2, <3>3
    <3>5. (<<store[k]>> \o w)[Len(<<store[k]>> \o w)] = w[Len(w)]
      BY <1>3, <3>4, Prefixed
    <3>6. Line(k) = <<store[k]>> \o w
      BY <3>1, <3>3 DEF Line, Deltas
    <3> QED BY <3>1, <3>4, <3>5, <3>6 DEF Final, Newest
  <2>4. Line(k)' = Line(k)
    BY <1>2, <2>1, LineSame
  <2> QED BY <1>5, <2>1, <2>2, <2>3, <2>4
<1>6. CASE SyncDelta(k) # <<>>
  <2>1. SyncDelta(k) = <<At(snap)[k]>> /\ (At(snap)[k] # 0 \/ store[k] # 0)
    BY <1>6 DEF SyncDelta
  <2>2. PICK d : d = At(snap)[k]
    OBVIOUS
  <2>3. items'[k] = items[k] \o <<d>>
    BY <1>2, <2>1, <2>2
  <2>4. items'[k] = Append(items[k], d)
    BY <1>3, <1>4, <2>2, <2>3
  <2>5. Line(k)' = Append(Line(k), d)
    BY <1>1, <1>2, <1>4, <2>2, <2>4, LineAppend
  <2> QED BY <2>1, <2>2, <2>4, <2>5
<1> QED BY <1>5, <1>6

(* Each key after a relist.                                                *)
LEMMA ReplaceKey ==
  ASSUME InformerInv, Replace, NEW k \in Key
  PROVE  /\ Final(k)' = At(snap)[k] \/ At(snap)[k] = 0
         /\ store[k] # 0 => Final(k)' = At(snap)[k]
         /\ InOrder(Line(k))'
         /\ \A i \in DOMAIN Line(k)' :
              Line(k)'[i] <= snap /\ (Line(k)'[i] # 0 => log[Line(k)'[i]].key = k)
         /\ ~synced => \/ Len(Line(k)') = 1
                       \/ Len(Line(k)') = 2 /\ Line(k)'[1] = 0 /\ Line(k)'[2] # 0
<1>1. TypeOK /\ LogInv /\ LineInOrder /\ LineInv
  BY DEF InformerInv
<1>2. rpc = "replace" /\ rv <= snap
  BY <1>1 DEF LineInv, Replace, Step
<1>3. PICK d : d = At(snap)[k]
  OBVIOUS
<1>4. /\ snap \in 0 .. Len(log) /\ snap \in Nat /\ rv \in 0 .. Len(log) /\ rv \in Nat
      /\ Len(log) \in Nat
  BY <1>1 DEF TypeOK
<1>5. /\ d \in Nat /\ d <= snap /\ (d # 0 => log[d].key = k)
      /\ \A u \in 1 .. snap : log[u].key = k /\ d # 0 => u <= d
  BY <1>1, <1>3, <1>4, AtFacts
<1>6. Line(k) \in Seq(Nat) /\ Len(Line(k)) >= 1 /\ Line(k)[1] = store[k]
  BY <1>1, LineType
<1>7. \A i \in DOMAIN Line(k) :
        /\ Line(k)[i] \in Nat /\ Line(k)[i] <= rv /\ Line(k)[i] <= snap
        /\ Line(k)[i] # 0 => log[Line(k)[i]].key = k
  <2> TAKE i \in DOMAIN Line(k)
  <2>1. Line(k)[i] \in Nat
    BY <1>6, ElementOfSeq
  <2>2. Line(k)[i] <= rv /\ (Line(k)[i] # 0 => log[Line(k)[i]].key = k)
    BY <1>1 DEF LineInv
  <2> QED BY <1>2, <1>4, <2>1, <2>2
<1>8. ~synced => Line(k) = <<0>>
  BY <1>1, <1>2 DEF LineInv
<1>9. CASE Line(k)' = Line(k) /\ d = 0 /\ (store[k] = 0 \/ Final(k) = 0)
  <2>1. Final(k)' = Final(k)
    BY <1>9 DEF Final
  <2>2. InOrder(Line(k))'
    BY <1>1, <1>9 DEF LineInOrder, InOrder
  <2>3. ~synced => Len(Line(k)') = 1
    BY <1>8, <1>9
  <2> QED BY <1>3, <1>7, <1>9, <2>1, <2>2, <2>3
<1>10. CASE Line(k)' = Append(Line(k), d) /\ (d # 0 \/ store[k] # 0)
  <2>1. \A i \in DOMAIN Line(k) : d = 0 \/ Line(k)[i] <= d
    <3> TAKE i \in DOMAIN Line(k)
    <3>1. PICK v : v = Line(k)[i]
      OBVIOUS
    <3>2. v \in Nat /\ v <= snap /\ (v # 0 => log[v].key = k)
      BY <1>7, <3>1
    <3> QED BY <1>4, <1>5, <3>1, <3>2
  <2>2. Final(k)' = d
    BY <1>2, <1>4, <1>5, <1>10, <2>1, LineGrows
  <2>3. \A i \in DOMAIN Line(k)' :
          Line(k)'[i] <= snap /\ (Line(k)'[i] # 0 => log[Line(k)'[i]].key = k)
    BY <1>2, <1>4, <1>5, <1>10, <2>1, LineGrows
  <2>4. InOrder(Line(k))'
    <3>1. InOrder(Append(Line(k), d))
      BY <1>1, <1>5, <1>6, <2>1, GrowsInOrder DEF LineInOrder
    <3> QED BY <1>10, <3>1 DEF InOrder
  <2>5. ~synced => Len(Line(k)') = 2 /\ Line(k)'[1] = 0 /\ Line(k)'[2] # 0
    <3> SUFFICES ASSUME ~synced
                 PROVE  Len(Line(k)') = 2 /\ Line(k)'[1] = 0 /\ Line(k)'[2] # 0
      OBVIOUS
    <3>1. Line(k) = <<0>> /\ store[k] = 0
      BY <1>6, <1>8
    <3>2. d # 0 /\ Line(k)' = Append(<<0>>, d)
      BY <1>10, <3>1
    <3> QED BY <1>5, <3>2
  <2> QED BY <1>3, <2>2, <2>3, <2>4, <2>5
<1> QED BY <1>3, <1>9, <1>10, ReplaceLine

LEMMA ReplaceKeeps ==
  ASSUME InformerInv, Replace
  PROVE  InformerInv'
<1>1. TypeOK /\ LogInv /\ QueueMatchesItems /\ LineInv
  BY DEF InformerInv
<1>2. /\ UNCHANGED <<log, snap, synced, store, cur, todo, pend>>
      /\ rpc' = "setLast" /\ rv' = snap
      /\ items' = [k \in Key |-> items[k] \o SyncDelta(k)]
  BY DEF Replace, Step, server, controller
<1> DEFINE T == {k \in Key : items[k] = <<>> /\ SyncDelta(k) # <<>>}
<1>3. PICK s \in Orders(T) : queue' = queue \o s
  BY DEF Replace
<1>4. \A k \in Key : \/ items'[k] = items[k] /\ SyncDelta(k) = <<>>
                     \/ /\ items'[k] = Append(items[k], At(snap)[k])
                        /\ SyncDelta(k) = <<At(snap)[k]>>
  BY ReplaceLine
<1>5. \A k \in Key : /\ items'[k] \in Seq(Nat)
                     /\ items'[k] # <<>> <=> (items[k] # <<>> \/ SyncDelta(k) # <<>>)
  <2> TAKE k \in Key
  <2>1. items[k] \in Seq(Nat) /\ snap \in 0 .. Len(log)
    BY <1>1 DEF TypeOK
  <2>2. At(snap)[k] \in Nat
    BY <1>1, <2>1, AtFacts
  <2>3. PICK d : d = At(snap)[k]
    OBVIOUS
  <2>4. <<d>> # <<>> /\ Append(items[k], d) # <<>> /\ Append(items[k], d) \in Seq(Nat)
    BY <2>1, <2>2, <2>3
  <2>5. CASE items'[k] = items[k] /\ SyncDelta(k) = <<>>
    BY <2>1, <2>5
  <2>6. CASE items'[k] = Append(items[k], d) /\ SyncDelta(k) = <<d>>
    BY <2>4, <2>6
  <2> QED BY <1>4, <2>3, <2>5, <2>6
<1>6. Cardinality(T) \in Nat
  BY KeyAssumption, FS_Subset, FS_CardinalityType
<1>7. /\ s \in [1 .. Cardinality(T) -> T]
      /\ \A k \in T : \E i \in DOMAIN s : s[i] = k
      /\ \A i, j \in DOMAIN s : s[i] = s[j] => i = j
  BY <1>3 DEF Orders
<1>8. s \in Seq(Key) /\ \A i \in DOMAIN s : s[i] \in T
  <2>1. PICK n \in Nat : s \in [1 .. n -> T]
    BY <1>6, <1>7
  <2>2. T \subseteq Key
    OBVIOUS
  <2> HIDE DEF T
  <2>3. s \in [1 .. n -> Key]
    BY <2>1, <2>2
  <2> QED BY <2>1, <2>3
<1>9. queue \in Seq(Key) /\ queue' \in Seq(Key)
  BY <1>1, <1>3, <1>8 DEF TypeOK
<1>10. TypeOK'
  <2>1. items' \in [Key -> Seq(Nat)]
    BY <1>2, <1>5
  <2> QED BY <1>1, <1>2, <1>9, <2>1 DEF TypeOK
<1>11. QueueMatchesItems'
  <2>1. /\ Len(queue) \in Nat /\ Len(s) \in Nat
        /\ DOMAIN queue = 1 .. Len(queue) /\ DOMAIN s = 1 .. Len(s)
        /\ DOMAIN queue' = 1 .. Len(queue) + Len(s)
        /\ \A i \in DOMAIN queue : queue'[i] = queue[i]
        /\ \A i \in DOMAIN s : queue'[Len(queue) + i] = s[i]
    BY <1>3, <1>8, <1>9
  <2>2. \A n \in DOMAIN queue' : \/ n \in DOMAIN queue
                                 \/ n - Len(queue) \in DOMAIN s /\ Len(queue) + (n - Len(queue)) = n
    BY <2>1
  <2>3. \A n \in DOMAIN queue : items[queue[n]] # <<>> /\ queue[n] \in Key
    BY <1>1, <1>9, <2>1 DEF QueueMatchesItems
  <2>4. \A i, j \in DOMAIN queue' : queue'[i] = queue'[j] => i = j
    <3> SUFFICES ASSUME NEW i \in DOMAIN queue', NEW j \in DOMAIN queue', queue'[i] = queue'[j]
                 PROVE  i = j
      OBVIOUS
    <3>1. CASE i \in DOMAIN queue /\ j \in DOMAIN queue
      BY <1>1, <2>1, <3>1 DEF QueueMatchesItems
    <3>2. CASE i \in DOMAIN queue /\ j \notin DOMAIN queue
      <4>1. queue'[j] \in T /\ queue'[i] = queue[i]
        BY <1>8, <2>1, <2>2, <3>2
      <4> QED BY <2>3, <3>2, <4>1
    <3>3. CASE i \notin DOMAIN queue /\ j \in DOMAIN queue
      <4>1. queue'[i] \in T /\ queue'[j] = queue[j]
        BY <1>8, <2>1, <2>2, <3>3
      <4> QED BY <2>3, <3>3, <4>1
    <3>4. CASE i \notin DOMAIN queue /\ j \notin DOMAIN queue
      <4>1. /\ i - Len(queue) \in DOMAIN s /\ queue'[i] = s[i - Len(queue)]
            /\ j - Len(queue) \in DOMAIN s /\ queue'[j] = s[j - Len(queue)]
        BY <2>1, <2>2, <3>4
      <4>2. i - Len(queue) = j - Len(queue)
        BY <1>7, <4>1
      <4> QED BY <2>1, <4>2
    <3> QED BY <3>1, <3>2, <3>3, <3>4
  <2>5. \A k \in Key : items'[k] # <<>> <=> \E i \in DOMAIN queue' : queue'[i] = k
    <3> SUFFICES ASSUME NEW k \in Key
                 PROVE  items'[k] # <<>> <=> \E i \in DOMAIN queue' : queue'[i] = k
      OBVIOUS
    <3>1. items'[k] # <<>> <=> items[k] # <<>> \/ k \in T
      BY <1>5
    <3>2. items[k] # <<>> => \E i \in DOMAIN queue' : queue'[i] = k
      BY <1>1, <2>1 DEF QueueMatchesItems
    <3>3. k \in T => \E i \in DOMAIN queue' : queue'[i] = k
      <4> SUFFICES ASSUME k \in T
                   PROVE  \E i \in DOMAIN queue' : queue'[i] = k
        OBVIOUS
      <4>1. PICK i \in DOMAIN s : s[i] = k
        BY <1>7
      <4>2. Len(queue) + i \in DOMAIN queue' /\ queue'[Len(queue) + i] = k
        BY <2>1, <4>1
      <4> QED BY <4>2
    <3>4. ASSUME NEW i \in DOMAIN queue', queue'[i] = k
          PROVE  items[k] # <<>> \/ k \in T
      <4>1. CASE i \in DOMAIN queue
        BY <2>1, <2>3, <3>4, <4>1
      <4>2. CASE i \notin DOMAIN queue
        BY <1>8, <2>1, <2>2, <3>4, <4>2
      <4> QED BY <4>1, <4>2
    <3> QED BY <3>1, <3>2, <3>3, <3>4
  <2> QED BY <2>4, <2>5 DEF QueueMatchesItems
<1>12. LogInv' /\ At(rv)' = At(snap)
  BY <1>1, <1>2 DEF LogInv, At
<1>13. OnlyDeletionsAreMissed'
  BY <1>12, ReplaceKey DEF OnlyDeletionsAreMissed
<1>14. LineInOrder'
  BY ReplaceKey DEF LineInOrder
<1>15. LineInv'
  <2>1. \A k \in Key : /\ \A i \in DOMAIN Line(k)' :
                            Line(k)'[i] <= snap /\ (Line(k)'[i] # 0 => log[Line(k)'[i]].key = k)
                       /\ ~synced => \/ Len(Line(k)') = 1
                                     \/ Len(Line(k)') = 2 /\ Line(k)'[1] = 0 /\ Line(k)'[2] # 0
    BY ReplaceKey
  <2> QED BY <1>2, <2>1 DEF LineInv
<1> QED BY <1>10, <1>11, <1>12, <1>13, <1>14, <1>15 DEF InformerInv

-----------------------------------------------------------------------------
(* The theorems.                                                           *)

LEMMA InformerStep == InformerInv /\ [Next]_vars => InformerInv'
<1> SUFFICES ASSUME InformerInv, [Next]_vars
             PROVE  InformerInv'
  OBVIOUS
<1>1. CASE \E k \in Key, gone \in BOOLEAN : Change(k, gone)
  BY <1>1, ChangeKeeps
<1>2. CASE \/ List \/ SetLast \/ WatchOpens \/ WatchFails \/ WatchCloses \/ WatchEnds
           \/ Enqueue \/ UNCHANGED vars
  BY <1>2, QuietKeeps
<1>3. CASE Replace
  BY <1>3, ReplaceKeeps
<1>4. CASE WatchEvent
  BY <1>4, WatchEventKeeps
<1>5. CASE Pop
  BY <1>5, PopKeeps
<1>6. CASE Process
  BY <1>6, ProcessKeeps
<1> QED BY <1>1, <1>2, <1>3, <1>4, <1>5, <1>6 DEF Next

(* The inductive invariant: the types, the log, the FIFO and the lines.    *)
THEOREM InformerInvariant == Spec => []InformerInv
<1> QED BY InformerInit, InformerStep, PTL DEF Spec

(* The informer's variables have their types: in particular the reflector  *)
(* never claims a version the server has not reached.                      *)
THEOREM InformerTypeCorrect == Spec => []TypeOK
<1>1. InformerInv => TypeOK
  BY DEF InformerInv
<1> QED BY <1>1, InformerInvariant, PTL

(* DeltaFIFO's queue holds the keys that have deltas, each once.           *)
THEOREM FIFOConsistent == Spec => []QueueMatchesItems
<1>1. InformerInv => QueueMatchesItems
  BY DEF InformerInv
<1> QED BY <1>1, InformerInvariant, PTL

(* Only the deletion of an object may be missed: every creation and update *)
(* that the reflector has reached is on its way to the store.              *)
THEOREM MissesOnlyDeletions == Spec => []OnlyDeletionsAreMissed
<1>1. InformerInv => OnlyDeletionsAreMissed
  BY DEF InformerInv
<1> QED BY <1>1, InformerInvariant, PTL

(* The objects of a key are handled in the order of their versions.        *)
THEOREM HandledInOrder == Spec => []LineInOrder
<1>1. InformerInv => LineInOrder
  BY DEF InformerInv
<1> QED BY <1>1, InformerInvariant, PTL

(* A relist corrects every key that the store has.                         *)
THEOREM RelistCorrects == Spec => RelistCorrectsStore
<1>1. InformerInv /\ [Next]_vars =>
        [rpc = "replace" /\ rpc' = "setLast"
           => \A k \in Key : store[k] # 0 => Final(k)' = At(rv)[k]']_vars
  <2> SUFFICES ASSUME InformerInv, Next, rpc = "replace", rpc' = "setLast"
               PROVE  \A k \in Key : store[k] # 0 => Final(k)' = At(rv)[k]'
    OBVIOUS
  <2>1. Replace
    BY DEF Next, Change, List, SetLast, WatchOpens, WatchFails, WatchEvent, WatchCloses,
           WatchEnds, Pop, Process, Enqueue, Step, reflector
  <2>2. At(rv)' = At(snap)
    BY <2>1 DEF Replace, At, server
  <2> QED BY <2>1, <2>2, ReplaceKey
<1> QED BY <1>1, InformerInvariant, PTL DEF Spec, RelistCorrectsStore

(* The informer implements the feed: every write that changes the store is *)
(* followed by the handler's call before the next one, a version is only   *)
(* replaced by a newer one or deleted, and before HasSynced only items of  *)
(* the first list arrive.                                                  *)
THEOREM FeedRefinement == Spec => ImplementsFeed
<1>1. Init => F!Init
  BY DEF Init, F!Init, NoObjects
<1>2. InformerInv /\ [Next]_vars => [F!Next]_(F!feedVars)
  <2> SUFFICES ASSUME InformerInv, [Next]_vars
               PROVE  F!Next \/ UNCHANGED <<store, synced, pend>>
    BY DEF F!feedVars
  <2>1. CASE \/ \E k \in Key, gone \in BOOLEAN : Change(k, gone)
             \/ List \/ Replace \/ WatchOpens \/ WatchFails \/ WatchEvent \/ WatchCloses
             \/ WatchEnds \/ Pop \/ UNCHANGED vars
    BY <2>1 DEF Change, List, Replace, WatchOpens, WatchFails, WatchEvent, WatchCloses, WatchEnds,
           Pop, vars, reflector, controller
  <2>2. CASE SetLast
    <3>1. UNCHANGED <<store, pend>> /\ synced' = TRUE
      BY <2>2 DEF SetLast, controller
    <3>2. CASE synced
      <4>1. synced = TRUE
        BY <3>2, Zenon DEF InformerInv, TypeOK
      <4> QED BY <3>1, <4>1
    <3>3. CASE ~synced
      BY <3>1, <3>3 DEF F!Next, F!HasListed
    <3> QED BY <3>2, <3>3
  <2>3. CASE Process
    <3>1. TypeOK /\ LogInv /\ LineInOrder /\ LineInv
      BY DEF InformerInv
    <3>2. PICK c : c = cur
      OBVIOUS
    <3>3. PICK v : v = Line(c)[2]
      OBVIOUS
    <3>4. /\ c \in Key /\ Len(Line(c)) >= 2 /\ v = Head(todo)
          /\ store' = [store EXCEPT ![c] = v]
      BY <2>3, <3>1, <3>2, <3>3, LineProcess
    <3>5. /\ pend = None /\ synced' = synced
          /\ pend' = IF v # 0 /\ v = store[c] THEN None ELSE c
      BY <2>3, <3>2, <3>4 DEF Process, reflector
    <3>6. PICK l : l = Line(c)
      OBVIOUS
    <3>7. /\ 1 \in DOMAIN l /\ 2 \in DOMAIN l /\ Len(l) >= 2
          /\ v = l[2] /\ v \in Nat /\ store[c] = l[1] /\ store[c] \in Nat
      <4>1. l \in Seq(Nat) /\ l[1] = store[c] /\ Len(l) >= 2 /\ v = l[2]
        BY <3>1, <3>3, <3>4, <3>6, LineType
      <4>2. Len(l) \in Nat /\ DOMAIN l = 1 .. Len(l) /\ 1 \in 1 .. Len(l) /\ 2 \in 1 .. Len(l)
        BY <4>1
      <4>3. l[1] \in Nat /\ l[2] \in Nat
        BY <4>1, <4>2, ElementOfSeq
      <4> QED BY <4>1, <4>2, <4>3
    <3>8. v \in 0 .. MaxChanges
      <4>1. v <= rv
        BY <3>1, <3>4, <3>6, <3>7 DEF LineInv
      <4>2. rv \in 0 .. Len(log) /\ Len(log) \in Nat /\ Len(log) <= MaxChanges
        BY <3>1 DEF TypeOK, LogInv
      <4> QED BY <3>7, <4>1, <4>2, BoundAssumption
    <3>9. synced \/ (store[c] = 0 /\ v # 0)
      <4>1. ~synced => Len(l) = 1 \/ (Len(l) = 2 /\ l[1] = 0 /\ l[2] # 0)
        BY <3>1, <3>4, <3>6 DEF LineInv
      <4> QED BY <3>7, <4>1
    <3>10. store[c] # 0 /\ v # 0 => store[c] <= v
      <4>1. InOrder(l)
        BY <3>1, <3>4, <3>6 DEF LineInOrder
      <4> QED BY <3>7, <4>1 DEF InOrder
    <3>11. CASE v # 0 /\ v = store[c]
      <4>1. store' = store
        BY <3>1, <3>4, <3>11 DEF TypeOK, Objects
      <4> QED BY <3>5, <3>11, <4>1
    <3>12. CASE ~(v # 0 /\ v = store[c])
      <4>1. v = 0 \/ v > store[c]
        BY <3>7, <3>10, <3>12
      <4>2. F!StoreWrite(c, v)
        BY <3>4, <3>5, <3>9, <3>12, <4>1 DEF F!StoreWrite
      <4> QED BY <3>4, <3>8, <4>2 DEF F!Next
    <3> QED BY <3>11, <3>12
  <2>4. CASE Enqueue
    BY <2>4 DEF Enqueue, reflector, F!Next, F!Enqueue
  <2> QED BY <2>1, <2>2, <2>3, <2>4 DEF Next
<1> QED BY <1>1, <1>2, InformerInvariant, PTL DEF Spec, ImplementsFeed, F!Spec
=============================================================================
