------------------------- MODULE StreamWatcherProofs -------------------------
(***************************************************************************)
(* Proofs about StreamWatcher, for any set of watches and any number of    *)
(* events.  ClosedExactlyOnce is not inductive: it needs that the flag is  *)
(* what Close was called for, and that receive passes Stop before it       *)
(* closes the channel.  NoEventLost needs that a watch which is opened has *)
(* decoded nothing.                                                        *)
(***************************************************************************)
EXTENDS StreamWatcher, TLAPS

TypeInv ==
  /\ receiver \in [Watch -> {"none", "decode", "send", "stop", "close", "gone"}]
  /\ decoded \in [Watch -> Nat]
  /\ stopped \in [Watch -> BOOLEAN]
  /\ closes \in [Watch -> Nat]
  /\ result \in [Watch -> BOOLEAN]
  /\ handler \in {"idle", "select", "return"}
  /\ watch \in Watch \cup {None}
  /\ events \in Seq(Nat)

\* The flag, the calls of Close and the place of receive go together.
CloseInv ==
  \A w \in Watch : /\ closes[w] = IF stopped[w] THEN 1 ELSE 0
                   /\ receiver[w] \in {"close", "gone"} => stopped[w]
                   /\ ~result[w] => receiver[w] = "gone"

\* A watch that was not opened yet has decoded nothing.
FreshInv == \A w \in Watch : receiver[w] = "none" => decoded[w] = 0

\* watchHandler has a watch from its call to its return.
HandlerInv == handler = "idle" <=> watch = None

WatchInv == TypeInv /\ CloseInv /\ FreshInv /\ HandlerInv /\ NoEventLost

-----------------------------------------------------------------------------

(* Stop, whoever calls it and however often: the flag is set, and Close    *)
(* was called once.                                                        *)
LEMMA StopCloses ==
  ASSUME TypeInv, CloseInv, NEW w \in Watch, Stop(w)
  PROVE  /\ stopped' \in [Watch -> BOOLEAN] /\ closes' \in [Watch -> Nat]
         /\ stopped'[w]
         /\ \A v \in Watch : /\ closes'[v] = IF stopped'[v] THEN 1 ELSE 0
                             /\ stopped[v] => stopped'[v]
<1>1. stopped' = [stopped EXCEPT ![w] = TRUE] /\ stopped' \in [Watch -> BOOLEAN]
  BY Zenon DEF Stop, TypeInv
<1>2. stopped'[w] /\ \A v \in Watch : v # w => stopped'[v] = stopped[v]
  BY <1>1 DEF TypeInv
<1>3. closes' \in [Watch -> Nat]
  BY DEF Stop, TypeInv, CloseInv
<1>4. closes'[w] = 1 /\ \A v \in Watch : v # w => closes'[v] = closes[v]
  BY DEF Stop, TypeInv, CloseInv
<1> QED
  BY <1>1, <1>2, <1>3, <1>4 DEF CloseInv

(* Before the first watch everything is new.                               *)
LEMMA WatchInit == Init => WatchInv
<1> SUFFICES ASSUME Init PROVE WatchInv
  OBVIOUS
<1>1. TypeInv
  <2>1. stopped \in [Watch -> BOOLEAN] /\ result \in [Watch -> BOOLEAN]
    BY Zenon DEF Init
  <2> QED
    BY <2>1 DEF Init, TypeInv
<1>2. CloseInv /\ FreshInv
  BY DEF Init, CloseInv, FreshInv
<1> QED
  BY <1>1, <1>2 DEF Init, WatchInv, HandlerInv, NoEventLost

(* Appending the next number keeps the events numbered.                    *)
LEMMA AppendNumbered ==
  ASSUME events \in Seq(Nat), events = [i \in 1 .. Len(events) |-> i],
         NEW n \in Nat, n = Len(events) + 1, events' = Append(events, n)
  PROVE  /\ events' \in Seq(Nat) /\ Len(events') = n
         /\ events' = [i \in 1 .. Len(events') |-> i]
<1>1. events' \in Seq(Nat) /\ Len(events') = n
  OBVIOUS
<1>2. DOMAIN events' = 1 .. n /\ \A i \in 1 .. n : events'[i] = i
  OBVIOUS
<1> QED
  BY <1>1, <1>2

-----------------------------------------------------------------------------
(* The steps.                                                              *)

LEMMA ReceiverStepInv ==
  ASSUME WatchInv, NEW w \in Watch, Receive(w) \/ DecodeError(w)
  PROVE  WatchInv'
<1> USE DEF WatchInv
<1>1. CASE DecodeEvent(w)
  <2>1. TypeInv'
    BY <1>1 DEF DecodeEvent, Receiver, reflector, TypeInv
  <2>2. CloseInv'
    BY <1>1 DEF DecodeEvent, Receiver, TypeInv, CloseInv
  <2>3. FreshInv' /\ HandlerInv'
    BY <1>1 DEF DecodeEvent, Receiver, reflector, TypeInv, FreshInv, HandlerInv
  <2>4. NoEventLost'
    BY <1>1, NoneAssumption DEF DecodeEvent, Receiver, reflector, TypeInv, NoEventLost
  <2> QED
    BY <2>1, <2>2, <2>3, <2>4
<1>2. CASE DecodeError(w)
  <2>1. TypeInv'
    BY <1>2 DEF DecodeError, Receiver, reflector, TypeInv
  <2>2. CloseInv'
    BY <1>2 DEF DecodeError, Receiver, TypeInv, CloseInv
  <2>3. FreshInv' /\ HandlerInv'
    BY <1>2 DEF DecodeError, Receiver, reflector, TypeInv, FreshInv, HandlerInv
  <2>4. NoEventLost'
    BY <1>2, NoneAssumption DEF DecodeError, Receiver, reflector, TypeInv, NoEventLost
  <2> QED
    BY <2>1, <2>2, <2>3, <2>4
<1>3. CASE ReceiverStop(w)
  <2>1. /\ stopped' \in [Watch -> BOOLEAN] /\ closes' \in [Watch -> Nat]
        /\ stopped'[w]
        /\ \A v \in Watch : /\ closes'[v] = IF stopped'[v] THEN 1 ELSE 0
                            /\ stopped[v] => stopped'[v]
    BY <1>3, StopCloses DEF ReceiverStop
  <2>2. TypeInv'
    BY <1>3, <2>1 DEF ReceiverStop, Receiver, reflector, TypeInv
  <2>3. CloseInv'
    BY <1>3, <2>1 DEF ReceiverStop, Receiver, TypeInv, CloseInv
  <2>4. FreshInv' /\ HandlerInv'
    BY <1>3 DEF ReceiverStop, Receiver, reflector, TypeInv, FreshInv, HandlerInv
  <2>5. NoEventLost'
    BY <1>3, NoneAssumption DEF ReceiverStop, Receiver, reflector, TypeInv, NoEventLost
  <2> QED
    BY <2>2, <2>3, <2>4, <2>5
<1>4. CASE ReceiverClose(w)
  <2>1. result' \in [Watch -> BOOLEAN]
    BY <1>4, Zenon DEF ReceiverClose, TypeInv
  <2>2. TypeInv'
    BY <1>4, <2>1 DEF ReceiverClose, Receiver, reflector, TypeInv
  <2>3. CloseInv'
    BY <1>4 DEF ReceiverClose, Receiver, TypeInv, CloseInv
  <2>4. FreshInv' /\ HandlerInv'
    BY <1>4 DEF ReceiverClose, Receiver, reflector, TypeInv, FreshInv, HandlerInv
  <2>5. NoEventLost'
    BY <1>4, NoneAssumption DEF ReceiverClose, Receiver, reflector, TypeInv, NoEventLost
  <2> QED
    BY <2>2, <2>3, <2>4, <2>5
<1> QED
  BY <1>1, <1>2, <1>3, <1>4 DEF Receive

LEMMA HandlerStepInv ==
  ASSUME WatchInv,
         \/ \E w \in Watch : Open(w)
         \/ \E isError \in BOOLEAN : Deliver(isError)
         \/ SeeClosed \/ ResyncRequested \/ HandlerStop
  PROVE  WatchInv'
<1> USE DEF WatchInv
<1>1. ASSUME NEW w \in Watch, Open(w) PROVE WatchInv'
  <2>1. TypeInv'
    BY <1>1 DEF Open, Receiver, TypeInv
  <2>2. CloseInv'
    BY <1>1 DEF Open, Receiver, TypeInv, CloseInv
  <2>3. FreshInv' /\ HandlerInv'
    BY <1>1, NoneAssumption DEF Open, Receiver, TypeInv, FreshInv, HandlerInv
  <2>4. NoEventLost'
    BY <1>1 DEF Open, Receiver, TypeInv, FreshInv, NoEventLost
  <2> QED
    BY <2>1, <2>2, <2>3, <2>4
<1>2. ASSUME NEW isError \in BOOLEAN, Deliver(isError) PROVE WatchInv'
  <2>1. watch \in Watch /\ watch' = watch /\ watch # None
    BY <1>2, NoneAssumption DEF Deliver, TypeInv, HandlerInv
  <2>2. /\ events' \in Seq(Nat) /\ Len(events') = decoded[watch]
        /\ events' = [i \in 1 .. Len(events') |-> i]
    <3>1. decoded[watch] = Len(events) + 1 /\ decoded[watch] \in Nat
      BY <1>2, <2>1 DEF Deliver, Receiver, TypeInv, NoEventLost
    <3>2. events \in Seq(Nat) /\ events = [i \in 1 .. Len(events) |-> i]
      BY <2>1 DEF TypeInv, NoEventLost
    <3>3. events' = Append(events, decoded[watch])
      BY <1>2 DEF Deliver
    <3> QED
      BY <3>1, <3>2, <3>3, AppendNumbered
  <2>3. TypeInv'
    BY <1>2, <2>1, <2>2 DEF Deliver, Receiver, TypeInv
  <2>4. CloseInv'
    BY <1>2, <2>1 DEF Deliver, Receiver, TypeInv, CloseInv
  <2>5. FreshInv' /\ HandlerInv'
    BY <1>2, <2>1 DEF Deliver, Receiver, TypeInv, FreshInv, HandlerInv
  <2>6. NoEventLost'
    BY <1>2, <2>1, <2>2 DEF Deliver, Receiver, TypeInv, NoEventLost
  <2> QED
    BY <2>3, <2>4, <2>5, <2>6
<1>3. CASE SeeClosed \/ ResyncRequested
  <2>1. UNCHANGED <<perWatch, watch, events>> /\ handler = "select" /\ handler' = "return"
    BY <1>3 DEF SeeClosed, ResyncRequested
  <2> QED
    BY <2>1 DEF perWatch, TypeInv, CloseInv, FreshInv, HandlerInv, NoEventLost
<1>4. CASE HandlerStop
  <2>1. watch \in Watch
    BY <1>4 DEF HandlerStop, TypeInv, HandlerInv
  <2>2. /\ stopped' \in [Watch -> BOOLEAN] /\ closes' \in [Watch -> Nat]
        /\ \A v \in Watch : /\ closes'[v] = IF stopped'[v] THEN 1 ELSE 0
                            /\ stopped[v] => stopped'[v]
    BY <1>4, <2>1, StopCloses DEF HandlerStop
  <2>3. TypeInv'
    BY <1>4, <2>2 DEF HandlerStop, TypeInv
  <2>4. CloseInv'
    BY <1>4, <2>2 DEF HandlerStop, TypeInv, CloseInv
  <2>5. FreshInv' /\ HandlerInv' /\ NoEventLost'
    BY <1>4 DEF HandlerStop, FreshInv, HandlerInv, NoEventLost
  <2> QED
    BY <2>3, <2>4, <2>5
<1> QED
  BY <1>1, <1>2, <1>3, <1>4

(* The invariant of the two goroutines.                                    *)
THEOREM WatchInvariant == Spec => []WatchInv
<1>1. WatchInv /\ [Next]_vars => WatchInv'
  <2> SUFFICES ASSUME WatchInv, [Next]_vars PROVE WatchInv'
    OBVIOUS
  <2>1. CASE Next
    BY <2>1, ReceiverStepInv, HandlerStepInv DEF Next
  <2>2. CASE UNCHANGED vars
    BY <2>2 DEF vars, perWatch, reflector, WatchInv, TypeInv, CloseInv, FreshInv,
                HandlerInv, NoEventLost
  <2> QED
    BY <2>1, <2>2
<1> QED
  BY WatchInit, <1>1, PTL DEF Spec

(* The HTTP body is closed at most once, whichever of the two goroutines   *)
(* stops the watch first, and always before the channel is.                *)
THEOREM BodyClosedOnce == Spec => []ClosedExactlyOnce
<1>1. ASSUME WatchInv PROVE ClosedExactlyOnce
  <2> SUFFICES ASSUME NEW w \in Watch
               PROVE  closes[w] <= 1 /\ (~result[w] => closes[w] = 1)
    BY DEF ClosedExactlyOnce
  <2>1. closes[w] = IF stopped[w] THEN 1 ELSE 0
    BY <1>1 DEF WatchInv, CloseInv
  <2>2. ~result[w] => stopped[w]
    BY <1>1 DEF WatchInv, CloseInv
  <2> QED
    BY <2>1, <2>2
<1> QED
  BY <1>1, WatchInvariant, PTL

(* watchHandler gets what was decoded, in order and without a gap.         *)
THEOREM EventsArriveInOrder == Spec => []NoEventLost
<1>1. WatchInv => NoEventLost
  BY DEF WatchInv
<1> QED
  BY <1>1, WatchInvariant, PTL
=============================================================================
