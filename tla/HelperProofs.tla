----------------------------- MODULE HelperProofs -----------------------------
(***************************************************************************)
(* Proofs about the parts that run beside the sync loop: the reaper, the   *)
(* syslog server and the health server's page, each by itself and for all  *)
(* values of its constants.                                                *)
(***************************************************************************)
EXTENDS Reaper, Syslog, DefaultIndex, TLAPS

-----------------------------------------------------------------------------
(* The reaper, for any set of processes.  ZombiesAreAnnounced is inductive *)
(* with the types: a death sets pending, Deliver moves the signal to the   *)
(* channel before it clears it, Receive goes on to reap, and the loop is   *)
(* left only when there is no zombie.                                      *)

ReaperInv == TypeOK /\ ZombiesAreAnnounced

(* A process whose state moves is the only one that does, and only a death *)
(* makes a zombie.                                                         *)
LEMMA MovesOne ==
  ASSUME TypeOK, NEW p \in Proc, NEW from,
         NEW to \in {"none", "running", "gone"}, Moves(p, from, to)
  PROVE  /\ state' \in [Proc -> {"none", "running", "zombie", "gone"}]
         /\ Zombies' \subseteq Zombies
         /\ \A q \in Proc : q # p => state'[q] = state[q]
         /\ state'[p] = to
  BY DEF TypeOK, Moves, Zombies

(* Before the first command there is no zombie.                            *)
LEMMA ReaperStarts == ReaperInit => ReaperInv
<1> SUFFICES ASSUME ReaperInit PROVE ReaperInv
  OBVIOUS
<1>1. pending \in BOOLEAN /\ sigs \in BOOLEAN
  BY Zenon DEF ReaperInit
<1>2. Zombies = {} /\ state \in [Proc -> {"none", "running", "zombie", "gone"}]
  BY DEF ReaperInit, Zombies
<1> QED
  BY <1>1, <1>2 DEF ReaperInit, ReaperInv, TypeOK, ZombiesAreAnnounced

(* Every step of the manager, the kernel and the reaper keeps the          *)
(* invariant.                                                              *)
LEMMA ReaperStepInv == ReaperInv /\ [ReaperNext]_reaperVars => ReaperInv'
<1> SUFFICES ASSUME ReaperInv, [ReaperNext]_reaperVars PROVE ReaperInv'
  OBVIOUS
<1> USE NoneAssumption DEF ReaperInv
<1>1. ASSUME NEW p \in Proc, Command(p) PROVE ReaperInv'
  BY <1>1, MovesOne DEF Command, TypeOK, ZombiesAreAnnounced
<1>2. ASSUME NEW p \in Proc, NEW daemons \in SUBSET Proc, Ends(p, daemons) PROVE ReaperInv'
  <2>1. state' \in [Proc -> {"none", "running", "zombie", "gone"}]
    BY <1>2 DEF Ends, TypeOK
  <2>2. pending' \in BOOLEAN /\ (reaper # "start" => pending')
    BY <1>2, Zenon DEF Ends, TypeOK
  <2>3. cmd' = cmd /\ sigs' = sigs /\ reaper' = reaper /\ early' \subseteq Proc
    BY <1>2 DEF Ends, TypeOK
  <2>4. cmd # None => state'[cmd] # "none"
    BY <1>2 DEF Ends, TypeOK
  <2>5. CASE reaper = "start"
    <3>1. early' = early \cup {p} /\ Zombies' \subseteq Zombies \cup {p}
      BY <1>2, <2>5 DEF Ends, Zombies
    <3>2. pending => pending'
      BY <1>2, Zenon DEF Ends, TypeOK
    <3> QED
      BY <2>1, <2>2, <2>3, <2>4, <2>5, <3>1, <3>2 DEF TypeOK, ZombiesAreAnnounced
  <2>6. CASE reaper # "start"
    BY <2>1, <2>2, <2>3, <2>4, <2>6 DEF TypeOK, ZombiesAreAnnounced
  <2> QED BY <2>5, <2>6
<1>3. CASE WaitStatus
  BY <1>3, MovesOne DEF WaitStatus, TypeOK, ZombiesAreAnnounced
<1>4. CASE WaitNoChild
  BY <1>4 DEF WaitNoChild, TypeOK, ZombiesAreAnnounced, Zombies
<1>5. CASE Deliver
  <2>1. pending' \in BOOLEAN /\ sigs' \in BOOLEAN /\ sigs'
    BY <1>5, Zenon DEF Deliver
  <2> QED BY <1>5, <2>1 DEF Deliver, TypeOK, ZombiesAreAnnounced
<1>6. CASE Notify
  BY <1>6 DEF Notify, ReaperGoes, TypeOK, ZombiesAreAnnounced, Zombies
<1>7. CASE Receive
  <2>1. sigs' \in BOOLEAN
    BY <1>7, Zenon DEF Receive
  <2> QED BY <1>7, <2>1 DEF Receive, ReaperGoes, TypeOK, ZombiesAreAnnounced
<1>8. CASE Reap
  <2>1. PICK p \in Zombies : Moves(p, "zombie", "gone")
    BY <1>8 DEF Reap
  <2>2. p \in Proc
    BY DEF Zombies
  <2> QED BY <1>8, <2>1, <2>2, MovesOne DEF Reap, ReaperGoes, TypeOK, ZombiesAreAnnounced
<1>9. CASE NoMore
  BY <1>9 DEF NoMore, ReaperGoes, TypeOK, ZombiesAreAnnounced, Zombies
<1>10. CASE UNCHANGED reaperVars
  BY <1>10 DEF reaperVars, TypeOK, ZombiesAreAnnounced, Zombies
<1> QED
  BY <1>1, <1>2, <1>3, <1>4, <1>5, <1>6, <1>7, <1>8, <1>9, <1>10 DEF ReaperNext

(* ReaperInv holds in every behaviour, fair or not.                        *)
THEOREM ReaperInvariant == ReaperSpec => []ReaperInv
  BY ReaperStarts, ReaperStepInv, PTL DEF ReaperSpec

(* Type correctness of the reaper, its children and the signal.            *)
THEOREM ReaperTypeCorrect == ReaperSpec => []TypeOK
<1>1. ReaperInv => TypeOK
  BY DEF ReaperInv
<1> QED BY <1>1, ReaperInvariant, PTL

(* Every zombie is on its way to be reaped, although signals are merged    *)
(* and dropped: StartReaper's inner loop and its buffered channel suffice. *)
THEOREM EveryZombieAnnounced == ReaperSpec => []ZombiesAreAnnounced
<1>1. ReaperInv => ZombiesAreAnnounced
  BY DEF ReaperInv
<1> QED BY <1>1, ReaperInvariant, PTL

-----------------------------------------------------------------------------
(* The syslog server.  Messages are in line from the socket to the output: *)
(* each part of the line is increasing, every message of a part comes      *)
(* before those of the parts behind it, and what haproxy sends next comes  *)
(* after all of them.                                                      *)

Increasing(s) == \A i, j \in DOMAIN s : i < j => s[i] < s[j]

Before(s, t) == \A i \in DOMAIN s, j \in DOMAIN t : s[i] < t[j]

UpTo(s, n) == \A i \in DOMAIN s : s[i] <= n

\* The message in mainLoop's hand, as a part of the line.
Held == IF hand = 0 THEN <<>> ELSE <<hand>>

SyslogTypes ==
  /\ printed \in Seq(Nat) /\ queue \in Seq(Nat \ {0}) /\ wire \in Seq(Nat \ {0})
  /\ hand \in Nat /\ sent \in Nat

LineInv ==
  /\ Increasing(printed) /\ Increasing(queue) /\ Increasing(wire)
  /\ Before(printed, Held) /\ Before(printed, queue) /\ Before(printed, wire)
  /\ Before(Held, queue) /\ Before(Held, wire)
  /\ Before(queue, wire)
  /\ UpTo(printed, sent) /\ UpTo(Held, sent) /\ UpTo(queue, sent) /\ UpTo(wire, sent)

SyslogInv == SyslogTypes /\ LineInv

(* A new last element that is larger keeps a sequence increasing.          *)
LEMMA AppendIncreasing ==
  ASSUME NEW s \in Seq(Nat), NEW m \in Nat, Increasing(s), \A i \in DOMAIN s : s[i] < m
  PROVE  Increasing(Append(s, m))
  BY DEF Increasing

(* What holds of the elements of a sequence and of m holds of those of the *)
(* sequence with m appended.                                               *)
LEMMA AppendElements ==
  ASSUME NEW T, NEW s \in Seq(T), NEW m \in T
  PROVE  /\ Append(s, m) \in Seq(T)
         /\ \A i \in DOMAIN Append(s, m) :
              Append(s, m)[i] = m \/ \E j \in DOMAIN s : Append(s, m)[i] = s[j]
<1>1. Append(s, m) \in Seq(T) /\ DOMAIN Append(s, m) = 1 .. Len(s) + 1
  OBVIOUS
<1>2. ASSUME NEW i \in 1 .. Len(s) + 1
      PROVE  Append(s, m)[i] = m \/ \E j \in DOMAIN s : Append(s, m)[i] = s[j]
  <2>1. CASE i = Len(s) + 1
    BY <2>1
  <2>2. CASE i # Len(s) + 1
    <3>1. i \in DOMAIN s /\ Append(s, m)[i] = s[i]
      BY <2>2
    <3> QED
      BY <3>1
  <2> QED
    BY <2>1, <2>2
<1> QED
  BY <1>1, <1>2

(* The head of a sequence and its tail are elements of it, in its order.   *)
LEMMA HeadAndTail ==
  ASSUME NEW T \in SUBSET Nat, NEW s \in Seq(T), s # <<>>
  PROVE  /\ Head(s) \in T /\ Tail(s) \in Seq(T)
         /\ \E j \in DOMAIN s : Head(s) = s[j]
         /\ \A i \in DOMAIN Tail(s) : \E j \in DOMAIN s : Tail(s)[i] = s[j]
         /\ Increasing(s) => /\ Increasing(Tail(s))
                             /\ \A i \in DOMAIN Tail(s) : Head(s) < Tail(s)[i]
<1>1. Len(s) \in Nat /\ Len(s) >= 1 /\ DOMAIN s = 1 .. Len(s) /\ Head(s) = s[1] /\ 1 \in DOMAIN s
  OBVIOUS
<1>2. /\ Tail(s) \in Seq(T) /\ DOMAIN Tail(s) = 1 .. Len(s) - 1
      /\ \A i \in 1 .. Len(s) - 1 : i + 1 \in DOMAIN s /\ Tail(s)[i] = s[i + 1]
  BY <1>1
<1>3. Increasing(s) => /\ Increasing(Tail(s))
                       /\ \A i \in DOMAIN Tail(s) : Head(s) < Tail(s)[i]
  BY <1>1, <1>2 DEF Increasing
<1> QED
  BY <1>1, <1>2, <1>3

(* Two increasing sequences, one before the other, make one.               *)
LEMMA ConcatIncreasing ==
  ASSUME NEW s \in Seq(Nat), NEW t \in Seq(Nat), Increasing(s), Increasing(t), Before(s, t)
  PROVE  /\ s \o t \in Seq(Nat) /\ Increasing(s \o t)
         /\ \A u \in Seq(Nat) : Before(s, u) /\ Before(t, u) => Before(s \o t, u)
<1> DEFINE st == s \o t
           m == Len(s)
           n == Len(t)
<1>1. m \in Nat /\ n \in Nat /\ DOMAIN s = 1 .. m /\ DOMAIN t = 1 .. n
  OBVIOUS
<1>2. st \in Seq(Nat) /\ DOMAIN st = 1 .. m + n
  OBVIOUS
<1>3. \A i \in DOMAIN s : st[i] = s[i]
  OBVIOUS
<1>4. ASSUME NEW i \in m + 1 .. m + n PROVE i - m \in DOMAIN t /\ st[i] = t[i - m]
  OBVIOUS
<1>5. \A i \in DOMAIN st : i \in DOMAIN s \/ i \in m + 1 .. m + n
  BY <1>1, <1>2
<1> HIDE DEF st, m, n
<1>6. Increasing(st)
  <2> SUFFICES ASSUME NEW i \in DOMAIN st, NEW j \in DOMAIN st, i < j PROVE st[i] < st[j]
    BY DEF Increasing
  <2>1. CASE i \in DOMAIN s /\ j \in DOMAIN s
    BY <2>1, <1>3 DEF Increasing
  <2>2. CASE i \in m + 1 .. m + n /\ j \in m + 1 .. m + n
    <3>1. i - m < j - m
      BY <1>1, <2>2
    <3> QED
      BY <3>1, <2>2, <1>4 DEF Increasing
  <2>3. CASE i \in DOMAIN s /\ j \in m + 1 .. m + n
    BY <2>3, <1>3, <1>4 DEF Before
  <2>4. ~(i \in m + 1 .. m + n /\ j \in DOMAIN s)
    BY <1>1
  <2> QED
    BY <2>1, <2>2, <2>3, <2>4, <1>5
<1>7. ASSUME NEW u \in Seq(Nat), Before(s, u), Before(t, u) PROVE Before(st, u)
  <2> SUFFICES ASSUME NEW i \in DOMAIN st, NEW j \in DOMAIN u PROVE st[i] < u[j]
    BY DEF Before
  <2>1. CASE i \in DOMAIN s
    BY <2>1, <1>3, <1>7 DEF Before
  <2>2. CASE i \in m + 1 .. m + n
    BY <2>2, <1>4, <1>7 DEF Before
  <2> QED
    BY <2>1, <2>2, <1>5
<1> QED
  BY <1>2, <1>6, <1>7 DEF st

LEMMA SyslogStepInv == SyslogInv /\ [SyslogNext]_syslogVars => SyslogInv'
<1> SUFFICES ASSUME SyslogInv, [SyslogNext]_syslogVars PROVE SyslogInv'
  OBVIOUS
<1> USE DEF SyslogInv
<1>1. CASE Listen \/ Restart
  BY <1>1 DEF Listen, Restart, SyslogTypes, LineInv, Held
<1>2. CASE Exit
  <2>1. SyslogTypes' /\ printed' = printed /\ sent' = sent
        /\ queue' = <<>> /\ wire' = <<>> /\ Held' = <<>>
    BY <1>2 DEF Exit, SyslogTypes, Held
  <2> QED
    BY <2>1 DEF LineInv, Increasing, Before, UpTo
<1>3. CASE Log
  <2>1. /\ sent' = sent + 1 /\ sent' \in Nat /\ sent' \in Nat \ {0}
        /\ printed' = printed /\ queue' = queue /\ hand' = hand /\ Held' = Held
        /\ wire' = wire \/ wire' = Append(wire, sent')
    BY <1>3 DEF Log, process, SyslogTypes, Held
  <2>2. CASE wire' = wire
    <3>1. SyslogTypes'
      BY <2>1, <2>2 DEF SyslogTypes
    <3>2. UpTo(printed, sent') /\ UpTo(Held, sent') /\ UpTo(queue, sent') /\ UpTo(wire, sent')
      BY <2>1 DEF SyslogTypes, LineInv, UpTo, Held
    <3> QED
      BY <2>1, <2>2, <3>1, <3>2 DEF LineInv
  <2>3. CASE wire' = Append(wire, sent')
    <3>1. /\ wire' \in Seq(Nat \ {0})
          /\ \A i \in DOMAIN wire' : wire'[i] = sent' \/ \E j \in DOMAIN wire : wire'[i] = wire[j]
      BY <2>1, <2>3, AppendElements DEF SyslogTypes
    <3>2. \A i \in DOMAIN wire : wire[i] < sent' /\ wire[i] \in Nat
      BY <2>1 DEF SyslogTypes, LineInv, UpTo
    <3>3. Increasing(wire')
      <4>1. wire \in Seq(Nat)
        BY DEF SyslogTypes
      <4> QED
        BY <2>1, <2>3, <3>2, <4>1, AppendIncreasing DEF LineInv
    <3>4. /\ \A i \in DOMAIN printed : printed[i] \in Nat /\ printed[i] < sent'
          /\ \A i \in DOMAIN queue : queue[i] \in Nat /\ queue[i] < sent'
          /\ \A i \in DOMAIN Held : Held[i] \in Nat /\ Held[i] < sent'
      BY <2>1 DEF SyslogTypes, LineInv, UpTo, Held
    <3>5. Before(printed, wire') /\ Before(queue, wire') /\ Before(Held, wire')
      BY <3>1, <3>4 DEF LineInv, Before
    <3>6. UpTo(printed, sent') /\ UpTo(Held, sent') /\ UpTo(queue, sent') /\ UpTo(wire', sent')
      BY <2>1, <3>1, <3>2, <3>4 DEF UpTo
    <3> QED
      BY <2>1, <3>1, <3>3, <3>5, <3>6 DEF SyslogTypes, LineInv
  <2> QED
    BY <2>1, <2>2, <2>3
<1>4. CASE receiver
  <2>1. /\ sent' = sent /\ printed' = printed /\ hand' = hand /\ Held' = Held
        /\ wire # <<>> /\ wire' = Tail(wire)
        /\ queue' = queue \/ queue' = Append(queue, Head(wire))
    BY <1>4 DEF receiver, Handle, process, Held
  <2>2. /\ Head(wire) \in Nat \ {0} /\ wire' \in Seq(Nat \ {0})
        /\ \E j \in DOMAIN wire : Head(wire) = wire[j]
        /\ \A i \in DOMAIN wire' : \E j \in DOMAIN wire : wire'[i] = wire[j]
        /\ Increasing(wire') /\ \A i \in DOMAIN wire' : Head(wire) < wire'[i]
    <3>1. wire \in Seq(Nat \ {0}) /\ Increasing(wire) /\ Nat \ {0} \in SUBSET Nat
      BY DEF SyslogTypes, LineInv
    <3> HIDE DEF SyslogInv
    <3> QED
      BY <2>1, <3>1, HeadAndTail
  <2>3. /\ Before(printed, wire') /\ Before(Held, wire') /\ Before(queue, wire')
        /\ UpTo(wire', sent)
    BY <2>2 DEF LineInv, Before, UpTo
  <2>4. CASE queue' = queue
    BY <2>1, <2>2, <2>3, <2>4 DEF SyslogTypes, LineInv
  <2>5. CASE queue' = Append(queue, Head(wire))
    <3>1. /\ queue' \in Seq(Nat \ {0})
          /\ \A i \in DOMAIN queue' :
               queue'[i] = Head(wire) \/ \E j \in DOMAIN queue : queue'[i] = queue[j]
      BY <2>2, <2>5, AppendElements DEF SyslogTypes
    <3>2. \A i \in DOMAIN queue : queue[i] < Head(wire)
      BY <2>2 DEF LineInv, Before
    <3>3. Increasing(queue')
      <4>1. queue \in Seq(Nat)
        BY DEF SyslogTypes
      <4> QED
        BY <2>2, <2>5, <3>2, <4>1, AppendIncreasing DEF LineInv
    <3>4. /\ Before(printed, queue') /\ Before(Held, queue') /\ UpTo(queue', sent)
      BY <2>2, <3>1 DEF LineInv, Before, UpTo
    <3>5. Before(queue', wire')
      BY <2>2, <2>3, <3>1 DEF Before
    <3> QED
      BY <2>1, <2>2, <2>3, <3>1, <3>3, <3>4, <3>5 DEF SyslogTypes, LineInv
  <2> QED
    BY <2>1, <2>4, <2>5
<1>5. CASE Get
  <2>1. /\ sent' = sent /\ printed' = printed /\ wire' = wire
        /\ queue # <<>> /\ queue' = Tail(queue) /\ hand' = Head(queue)
    BY <1>5 DEF Get, process
  <2>2. /\ Head(queue) \in Nat \ {0} /\ queue' \in Seq(Nat \ {0})
        /\ \E j \in DOMAIN queue : Head(queue) = queue[j]
        /\ \A i \in DOMAIN queue' : \E j \in DOMAIN queue : queue'[i] = queue[j]
        /\ Increasing(queue') /\ \A i \in DOMAIN queue' : Head(queue) < queue'[i]
    <3>1. queue \in Seq(Nat \ {0}) /\ Increasing(queue) /\ Nat \ {0} \in SUBSET Nat
      BY DEF SyslogTypes, LineInv
    <3> HIDE DEF SyslogInv
    <3> QED
      BY <2>1, <3>1, HeadAndTail
  <2>3. Held' = <<hand'>> /\ hand' \in Nat /\ hand' = Head(queue)
    BY <2>1, <2>2 DEF Held
  <2>4. /\ Before(printed, queue') /\ Before(queue', wire) /\ UpTo(queue', sent)
    BY <2>2 DEF LineInv, Before, UpTo
  <2>5. \A i \in DOMAIN Held' : Held'[i] = Head(queue)
    BY <2>3
  <2>6. Before(printed, Held') /\ Before(Held', queue') /\ Before(Held', wire) /\ UpTo(Held', sent)
    BY <2>2, <2>5 DEF LineInv, Before, UpTo
  <2> QED
    BY <2>1, <2>2, <2>3, <2>4, <2>6 DEF SyslogTypes, LineInv
<1>6. CASE Printf
  <2>1. /\ sent' = sent /\ wire' = wire /\ queue' = queue
        /\ hand # 0 /\ printed' = Append(printed, hand) /\ hand' = 0 /\ Held' = <<>>
    BY <1>6 DEF Printf, process, Held
  <2>2. hand \in Nat /\ 1 \in DOMAIN Held /\ Held[1] = hand
    BY <2>1 DEF SyslogTypes, Held
  <2>3. /\ printed' \in Seq(Nat)
        /\ \A i \in DOMAIN printed' :
             printed'[i] = hand \/ \E j \in DOMAIN printed : printed'[i] = printed[j]
    BY <2>1, <2>2, AppendElements DEF SyslogTypes
  <2>4. Increasing(printed')
    <3>1. \A i \in DOMAIN printed : printed[i] < hand
      BY <2>2 DEF LineInv, Before
    <3> QED
      BY <2>1, <2>2, <3>1, AppendIncreasing DEF SyslogTypes, LineInv
  <2>5. Before(printed', queue) /\ Before(printed', wire) /\ UpTo(printed', sent)
    BY <2>2, <2>3 DEF LineInv, Before, UpTo
  <2>6. /\ Before(printed', Held') /\ Before(Held', queue) /\ Before(Held', wire)
        /\ UpTo(Held', sent)
    BY <2>1 DEF Before, UpTo
  <2> QED
    BY <2>1, <2>3, <2>4, <2>5, <2>6 DEF SyslogTypes, LineInv
<1>7. CASE UNCHANGED syslogVars
  BY <1>7 DEF syslogVars, SyslogTypes, LineInv, Held
<1> QED
  BY <1>1, <1>2, <1>3, <1>4, <1>5, <1>6, <1>7 DEF SyslogNext

(* Messages are printed in the order haproxy sent them and at most once:   *)
(* what a full socket, a full queue or an exit drops leaves the others in  *)
(* line, for any lengths of the two and any number of messages and exits.  *)
THEOREM MessagesStayInLine == SyslogSpec => []PrintedInOrder
<1>1. SyslogInit => SyslogInv
  BY DEF SyslogInit, SyslogInv, SyslogTypes, LineInv, Held, Increasing, Before, UpTo
<1>2. SyslogInv => PrintedInOrder
  <2> SUFFICES ASSUME SyslogInv PROVE PrintedInOrder
    OBVIOUS
  <2>1. /\ printed \in Seq(Nat) /\ Held \in Seq(Nat) /\ queue \in Seq(Nat) /\ wire \in Seq(Nat)
        /\ Increasing(Held)
    BY DEF SyslogInv, SyslogTypes, Held, Increasing
  <2>2. /\ printed \o Held \in Seq(Nat) /\ Increasing(printed \o Held)
        /\ Before(printed \o Held, queue) /\ Before(printed \o Held, wire)
    BY <2>1, ConcatIncreasing DEF SyslogInv, LineInv
  <2>3. /\ printed \o Held \o queue \in Seq(Nat) /\ Increasing(printed \o Held \o queue)
        /\ Before(printed \o Held \o queue, wire)
    BY <2>1, <2>2, ConcatIncreasing DEF SyslogInv, LineInv
  <2>4. Increasing(printed \o Held \o queue \o wire)
    BY <2>1, <2>3, ConcatIncreasing DEF SyslogInv, LineInv
  <2> QED
    BY <2>4 DEF PrintedInOrder, Increasing, Held
<1> QED
  BY <1>1, <1>2, SyslogStepInv, PTL DEF SyslogSpec

-----------------------------------------------------------------------------
(* The health server's page.  While no failed read has met another, a      *)
(* request that writes words of a failed read is alone: so the words that  *)
(* the writers have written agree, and the last one leaves a whole slice.  *)

Slice == [ptr : Request \cup {Nil}, len : {0, 1}]

Writing(r) == pc[r] = "write"

Failed(r) == page[r].len = 0

\* Is this word of the slice that of a page?
Good(w) == IF w = "ptr" THEN defaultIndex.ptr # Nil ELSE defaultIndex.len > 0

CacheTypes ==
  /\ defaultIndex \in Slice
  /\ pc \in [Request -> {"new", "read", "write", "return", "done"}]
  /\ page \in [Request -> Slice]
  /\ todo \in [Request -> SUBSET Word]
  /\ failures \in Nat
  /\ overlapped \in BOOLEAN

WriterInv ==
  \A r \in Request :
    /\ pc[r] = "read" => todo[r] = Word
    /\ Writing(r) =>
         /\ todo[r] # {}
         /\ page[r] = [ptr |-> Nil, len |-> 0] \/ page[r] = [ptr |-> r, len |-> 1]
         /\ failures = 0 => ~Failed(r)

\* A request that writes a failed read is alone.
Alone ==
  \A f, q \in Request : f # q /\ Writing(f) /\ Failed(f) => pc[q] \notin {"read", "write"}

\* What a writer has written is there.
WrittenInv ==
  \A r \in Request, w \in Word :
    Writing(r) /\ w \notin todo[r] => (Good(w) <=> ~Failed(r))

\* Only a writer that is halfway leaves the slice in pieces.
WholeInv == (Good("len") <=> Good("ptr")) \/ \E r \in Request : Writing(r) /\ todo[r] # Word

PageInv ==
  failures = 0 /\ (\E r \in Request : pc[r] \in {"return", "done"}) => Good("len")

CacheInv ==
  CacheTypes /\ WriterInv /\ (~overlapped => Alone /\ WrittenInv /\ WholeInv /\ PageInv)

(* A request moves, and the history knows if it met a failed read.         *)
LEMMA GoAlone ==
  ASSUME CacheTypes, NEW r \in Request, NEW from,
         NEW to \in {"new", "read", "write", "return", "done"}, Go(r, from, to)
  PROVE  /\ pc[r] = from /\ pc' = [pc EXCEPT ![r] = to]
         /\ pc' \in [Request -> {"new", "read", "write", "return", "done"}]
         /\ pc'[r] = to /\ \A q \in Request : q # r => pc'[q] = pc[q]
         /\ overlapped' \in BOOLEAN
         /\ ~overlapped' => ~overlapped /\ Alone'
<1>1. /\ pc[r] = from /\ pc' = [pc EXCEPT ![r] = to]
      /\ overlapped' = (overlapped \/ \E f, q \in Request :
           f # q /\ pc'[f] = "write" /\ page'[f].len = 0 /\ pc'[q] \in {"read", "write"})
  BY DEF Go
<1>2. /\ overlapped' \in BOOLEAN
      /\ ~overlapped' => ~overlapped /\ ~\E f, q \in Request :
           f # q /\ pc'[f] = "write" /\ page'[f].len = 0 /\ pc'[q] \in {"read", "write"}
  BY <1>1, Zenon DEF CacheTypes
<1>3. ~overlapped' => Alone'
  BY <1>2 DEF Alone, Writing, Failed
<1> QED
  BY <1>1, <1>2, <1>3 DEF CacheTypes

(* A word is written: it is that of the writer's page, the other is left.  *)
LEMMA AssignWord ==
  ASSUME Nil \notin Request, CacheTypes, WriterInv, NEW r \in Request, NEW w \in Word, Writing(r),
         defaultIndex' = [defaultIndex EXCEPT ![w] = page[r][w]]
  PROVE  /\ defaultIndex' \in Slice
         /\ Good(w)' <=> ~Failed(r)
         /\ \A v \in Word : v # w => (Good(v)' <=> Good(v))
<1>1. page[r] = [ptr |-> Nil, len |-> 0] \/ page[r] = [ptr |-> r, len |-> 1]
  BY DEF WriterInv
<1>2. PICK p \in Request \cup {Nil}, n \in {0, 1} : defaultIndex = [ptr |-> p, len |-> n]
  BY DEF CacheTypes, Slice
<1>3. CASE w = "ptr"
  <2>1. defaultIndex' = [ptr |-> page[r].ptr, len |-> n]
    BY <1>2, <1>3
  <2> QED
    BY <1>1, <1>2, <1>3, <2>1 DEF Slice, Good, Failed, Word
<1>4. CASE w = "len"
  <2>1. defaultIndex' = [ptr |-> p, len |-> page[r].len]
    BY <1>2, <1>4
  <2> QED
    BY <1>1, <1>2, <1>4, <2>1 DEF Slice, Good, Failed, Word
<1> QED
  BY <1>3, <1>4 DEF Word

(* The steps of a request.                                                 *)
LEMMA CheckLenInv ==
  ASSUME CacheInv, NEW r \in Request, CheckLen(r)
  PROVE  CacheInv'
<1> DEFINE to == IF defaultIndex.len > 0 THEN "return" ELSE "read"
<1> USE DEF CacheInv
<1>1. /\ todo' = [todo EXCEPT ![r] = Word]
      /\ defaultIndex' = defaultIndex /\ page' = page /\ failures' = failures
      /\ Go(r, "new", to)
  BY DEF CheckLen
<1>2. /\ pc[r] = "new" /\ pc' \in [Request -> {"new", "read", "write", "return", "done"}]
      /\ pc'[r] = to /\ \A q \in Request : q # r => pc'[q] = pc[q]
      /\ overlapped' \in BOOLEAN
      /\ ~overlapped' => ~overlapped /\ Alone'
  BY <1>1, GoAlone
<1>3. /\ todo'[r] = Word /\ \A q \in Request : q # r => todo'[q] = todo[q]
      /\ todo' \in [Request -> SUBSET Word]
  BY <1>1 DEF CacheTypes
<1>4. CacheTypes' /\ WriterInv'
  BY <1>1, <1>2, <1>3 DEF CacheTypes, WriterInv, Writing, Failed
<1>5. ASSUME ~overlapped' PROVE WrittenInv' /\ WholeInv' /\ PageInv'
  <2>1. WrittenInv'
    BY <1>1, <1>2, <1>3, <1>5 DEF WrittenInv, Writing, Failed, Good
  <2>2. WholeInv'
    BY <1>1, <1>2, <1>3, <1>5 DEF WholeInv, Writing, Good
  <2>3. PageInv'
    BY <1>1, <1>2, <1>5 DEF PageInv, Good
  <2> QED
    BY <2>1, <2>2, <2>3
<1> QED
  BY <1>2, <1>4, <1>5

LEMMA ReadInv ==
  ASSUME CacheInv, NEW r \in Request, ReadFile(r) \/ ReadFileFails(r)
  PROVE  CacheInv'
<1> USE DEF CacheInv
<1>1. /\ defaultIndex' = defaultIndex /\ todo' = todo /\ Go(r, "read", "write")
      /\ \/ failures' = failures /\ page' = [page EXCEPT ![r] = [ptr |-> r, len |-> 1]]
         \/ failures' = failures + 1 /\ page' = [page EXCEPT ![r] = [ptr |-> Nil, len |-> 0]]
  BY DEF ReadFile, ReadFileFails
<1>2. /\ pc[r] = "read" /\ pc' \in [Request -> {"new", "read", "write", "return", "done"}]
      /\ pc'[r] = "write" /\ \A q \in Request : q # r => pc'[q] = pc[q]
      /\ overlapped' \in BOOLEAN
      /\ ~overlapped' => ~overlapped /\ Alone'
  BY <1>1, GoAlone
<1>3. /\ page' \in [Request -> Slice] /\ \A q \in Request : q # r => page'[q] = page[q]
      /\ page'[r] = [ptr |-> Nil, len |-> 0] \/ page'[r] = [ptr |-> r, len |-> 1]
      /\ failures' \in Nat
      /\ failures' = 0 => failures = 0 /\ page'[r] = [ptr |-> r, len |-> 1]
  BY <1>1 DEF CacheTypes, Slice
<1>4. todo[r] = Word
  BY <1>2 DEF WriterInv
<1>5. CacheTypes'
  BY <1>1, <1>2, <1>3 DEF CacheTypes
<1>6. WriterInv'
  <2> SUFFICES ASSUME NEW q \in Request
               PROVE  /\ pc'[q] = "read" => todo'[q] = Word
                      /\ pc'[q] = "write" =>
                           /\ todo'[q] # {}
                           /\ \/ page'[q] = [ptr |-> Nil, len |-> 0]
                              \/ page'[q] = [ptr |-> q, len |-> 1]
                           /\ failures' = 0 => page'[q].len # 0
    BY DEF WriterInv, Writing, Failed
  <2>1. CASE q = r
    BY <2>1, <1>1, <1>2, <1>3, <1>4 DEF Word
  <2>2. CASE q # r
    BY <2>2, <1>1, <1>2, <1>3 DEF WriterInv, Writing, Failed
  <2> QED
    BY <2>1, <2>2
<1>7. ASSUME ~overlapped' PROVE WrittenInv' /\ WholeInv' /\ PageInv'
  <2>1. WrittenInv'
    BY <1>1, <1>2, <1>3, <1>4, <1>7 DEF WrittenInv, Writing, Failed, Good
  <2>2. WholeInv'
    BY <1>1, <1>2, <1>4, <1>7 DEF WholeInv, Writing, Good
  <2>3. PageInv'
    BY <1>1, <1>2, <1>3, <1>7 DEF PageInv, Good
  <2> QED
    BY <2>1, <2>2, <2>3
<1> QED
  BY <1>2, <1>5, <1>6, <1>7

LEMMA AssignInv ==
  ASSUME Nil \notin Request, CacheInv, NEW r \in Request, NEW w \in Word, Assign(r, w)
  PROVE  CacheInv'
<1> DEFINE last == todo[r] = {w}
           to == IF last THEN "return" ELSE "write"
<1> USE DEF CacheInv
<1>1. /\ w \in todo[r] /\ page' = page /\ failures' = failures
      /\ defaultIndex' = [defaultIndex EXCEPT ![w] = page[r][w]]
      /\ todo' = [todo EXCEPT ![r] = IF last THEN Word ELSE todo[r] \ {w}]
      /\ Go(r, "write", to)
  BY DEF Assign, LastWord, CacheTypes
<1>2. /\ pc[r] = "write" /\ pc' \in [Request -> {"new", "read", "write", "return", "done"}]
      /\ pc'[r] = to /\ \A q \in Request : q # r => pc'[q] = pc[q]
      /\ overlapped' \in BOOLEAN
      /\ ~overlapped' => ~overlapped /\ Alone'
  BY <1>1, GoAlone
<1>3. /\ todo'[r] = IF last THEN Word ELSE todo[r] \ {w}
      /\ \A q \in Request : q # r => todo'[q] = todo[q]
      /\ todo' \in [Request -> SUBSET Word]
  BY <1>1 DEF CacheTypes
<1>4. /\ defaultIndex' \in Slice /\ (Good(w)' <=> ~Failed(r))
      /\ \A v \in Word : v # w => (Good(v)' <=> Good(v))
  BY <1>1, <1>2, AssignWord DEF Writing
<1>5. CacheTypes'
  BY <1>1, <1>2, <1>3, <1>4 DEF CacheTypes
<1>6. WriterInv'
  <2> SUFFICES ASSUME NEW q \in Request
               PROVE  /\ pc'[q] = "read" => todo'[q] = Word
                      /\ pc'[q] = "write" =>
                           /\ todo'[q] # {} /\ pc[q] = "write"
    BY <1>1 DEF WriterInv, Writing, Failed
  <2>1. CASE q = r
    BY <2>1, <1>1, <1>2, <1>3
  <2>2. CASE q # r
    BY <2>2, <1>2, <1>3 DEF WriterInv, Writing
  <2> QED
    BY <2>1, <2>2
<1>7. ASSUME ~overlapped' PROVE WrittenInv' /\ WholeInv' /\ PageInv'
  <2>0. Alone /\ WrittenInv /\ WholeInv /\ PageInv
    BY <1>2, <1>7
  <2>1. ASSUME NEW v \in Word, v \notin todo[r] \ {w} PROVE Good(v)' <=> ~Failed(r)
    <3>1. CASE v = w
      BY <3>1, <1>4
    <3>2. CASE v # w
      BY <3>2, <2>0, <2>1, <1>2, <1>4 DEF WrittenInv, Writing
    <3> QED
      BY <3>1, <3>2
  <2>2. WrittenInv'
    <3> SUFFICES ASSUME NEW q \in Request, NEW v \in Word, pc'[q] = "write", v \notin todo'[q]
                 PROVE  Good(v)' <=> ~Failed(q)
      BY <1>1 DEF WrittenInv, Writing, Failed
    <3>1. CASE q = r
      BY <3>1, <2>1, <1>2, <1>3
    <3>2. CASE q # r
      <4>1. Writing(q) /\ Writing(r) /\ v \notin todo[q]
        BY <3>2, <1>2, <1>3 DEF Writing
      <4>2. ~Failed(q) /\ ~Failed(r)
        BY <4>1, <3>2, <2>0 DEF Alone, Writing
      <4> QED
        BY <4>1, <4>2, <2>0, <1>4 DEF WrittenInv
    <3> QED
      BY <3>1, <3>2
  <2>3. WholeInv'
    <3>1. CASE last
      <4>1. Good("len")' <=> Good("ptr")'
        <5>1. "len" \in Word /\ "ptr" \in Word /\ todo[r] \ {w} = {}
          BY <3>1 DEF Word
        <5> HIDE DEF last
        <5> QED
          BY <5>1, <2>1
      <4> QED
        BY <4>1 DEF WholeInv
    <3>2. CASE ~last
      <4>1. pc'[r] = "write" /\ todo'[r] # Word
        BY <3>2, <1>2, <1>3
      <4> QED
        BY <4>1 DEF WholeInv, Writing
    <3> QED
      BY <3>1, <3>2
  <2>4. PageInv'
    <3> SUFFICES ASSUME failures' = 0, NEW q \in Request, pc'[q] \in {"return", "done"}
                 PROVE  Good("len")'
      BY DEF PageInv
    <3>1. ~Failed(r) /\ failures = 0
      BY <1>1, <1>2 DEF WriterInv, Writing
    <3>2. CASE q = r
      <4>1. "len" \in Word /\ todo[r] \ {w} = {}
        BY <3>2, <1>2 DEF Word
      <4> QED
        BY <4>1, <3>1, <2>1
    <3>3. CASE q # r
      <4>1. Good("len") /\ "len" \in Word
        BY <3>1, <3>3, <2>0, <1>2 DEF PageInv, Word
      <4> QED
        BY <4>1, <3>1, <1>4
    <3> QED
      BY <3>2, <3>3
  <2> QED
    BY <2>2, <2>3, <2>4
<1> QED
  BY <1>2, <1>5, <1>6, <1>7

LEMMA ReturnWordInv ==
  ASSUME CacheInv, NEW r \in Request, NEW w \in Word, ReturnWord(r, w)
  PROVE  CacheInv'
<1> DEFINE to == IF todo[r] = {w} THEN "done" ELSE "return"
<1> USE DEF CacheInv
<1>1. /\ page' = [page EXCEPT ![r][w] = defaultIndex[w]] /\ todo' = [todo EXCEPT ![r] = @ \ {w}]
      /\ defaultIndex' = defaultIndex /\ failures' = failures
      /\ Go(r, "return", to)
  BY DEF ReturnWord, LastWord
<1>2. /\ pc[r] = "return" /\ pc' \in [Request -> {"new", "read", "write", "return", "done"}]
      /\ pc'[r] = to /\ \A q \in Request : q # r => pc'[q] = pc[q]
      /\ overlapped' \in BOOLEAN
      /\ ~overlapped' => ~overlapped /\ Alone'
  BY <1>1, GoAlone
<1>3. /\ \A q \in Request : q # r => todo'[q] = todo[q]
      /\ todo' \in [Request -> SUBSET Word]
  BY <1>1 DEF CacheTypes
<1>4. page' \in [Request -> Slice] /\ \A q \in Request : q # r => page'[q] = page[q]
  <2>1. [page[r] EXCEPT ![w] = defaultIndex[w]] \in Slice
    <3>1. PICK p \in Request \cup {Nil}, n \in {0, 1} : defaultIndex = [ptr |-> p, len |-> n]
      BY DEF CacheTypes, Slice
    <3>2. PICK p2 \in Request \cup {Nil}, n2 \in {0, 1} : page[r] = [ptr |-> p2, len |-> n2]
      BY DEF CacheTypes, Slice
    <3>3. CASE w = "ptr"
      BY <3>1, <3>2, <3>3 DEF Slice
    <3>4. CASE w = "len"
      BY <3>1, <3>2, <3>4 DEF Slice
    <3> QED
      BY <3>3, <3>4 DEF Word
  <2>2. page' = [page EXCEPT ![r] = [page[r] EXCEPT ![w] = defaultIndex[w]]]
    BY <1>1 DEF CacheTypes
  <2> QED
    BY <2>1, <2>2 DEF CacheTypes
<1>5. CacheTypes' /\ WriterInv'
  BY <1>1, <1>2, <1>3, <1>4 DEF CacheTypes, WriterInv, Writing, Failed
<1>6. ASSUME ~overlapped' PROVE WrittenInv' /\ WholeInv' /\ PageInv'
  <2>1. WrittenInv'
    BY <1>1, <1>2, <1>3, <1>4, <1>6 DEF WrittenInv, Writing, Failed, Good
  <2>2. WholeInv'
    BY <1>1, <1>2, <1>3, <1>6 DEF WholeInv, Writing, Good
  <2>3. PageInv'
    BY <1>1, <1>2, <1>6 DEF PageInv, Good
  <2> QED
    BY <2>1, <2>2, <2>3
<1> QED
  BY <1>2, <1>5, <1>6

(* However requests interleave word by word, the slice that they leave is  *)
(* whole and is the page, unless a failed read met another request's.      *)
THEOREM CacheAlwaysSettles ==
  ASSUME Nil \notin Request
  PROVE  IndexSpec => []CacheSettles
<1>1. IndexInit => CacheInv
  <2> SUFFICES ASSUME IndexInit PROVE CacheInv
    OBVIOUS
  <2>1. overlapped \in BOOLEAN
    BY Zenon DEF IndexInit
  <2> QED
    BY <2>1 DEF IndexInit, CacheInv, CacheTypes, Slice, WriterInv, Alone, WrittenInv, WholeInv,
                PageInv, Writing, Good
<1>2. CacheInv /\ [IndexNext]_indexVars => CacheInv'
  <2> SUFFICES ASSUME CacheInv, [IndexNext]_indexVars PROVE CacheInv'
    OBVIOUS
  <2>1. CASE IndexNext
    BY <2>1, CheckLenInv, ReadInv, AssignInv, ReturnWordInv DEF IndexNext
  <2>2. CASE UNCHANGED indexVars
    BY <2>2 DEF indexVars, CacheInv, CacheTypes, WriterInv, Alone, WrittenInv, WholeInv, PageInv,
                Writing, Failed, Good
  <2> QED
    BY <2>1, <2>2
<1>3. CacheInv => CacheSettles
  <2> SUFFICES ASSUME CacheInv, InFlight = {}, ~overlapped
               PROVE  /\ defaultIndex.len > 0 <=> defaultIndex.ptr # Nil
                      /\ failures = 0 /\ (\E r \in Request : pc[r] = "done")
                           => defaultIndex.len > 0
    BY DEF CacheSettles
  <2>1. \A r \in Request : ~Writing(r)
    BY DEF InFlight, Writing
  <2> QED
    BY <2>1 DEF CacheInv, WholeInv, PageInv, Good
<1> QED
  BY <1>1, <1>2, <1>3, PTL DEF IndexSpec
=============================================================================
