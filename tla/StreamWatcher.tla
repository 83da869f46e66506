---------------------------- MODULE StreamWatcher ----------------------------
(***************************************************************************)
(* A watch of the API server, below the Informer module's WatchEvent: the  *)
(* goroutine receive decodes events from the HTTP body and sends them down *)
(* an unbuffered channel, and the reflector's watchHandler takes them.     *)
(* The reflector uses one watch after the other; receive of a former one   *)
(* may still be there.  Events are numbered per watch.                     *)
(***************************************************************************)
EXTENDS Naturals, Sequences

CONSTANTS
  Watch,     \* the watches, each opened at most once
  None,      \* no watch
  MaxEvents  \* bound: events that the server sends on one watch

ASSUME NoneAssumption == None \notin Watch

VARIABLES
  receiver,  \* where receive stands, for each watch
  decoded,   \* events decoded so far
  stopped,   \* StreamWatcher.stopped
  closes,    \* calls of source.Close
  result,    \* TRUE while the result channel is open
  handler,   \* where watchHandler stands
  watch,     \* the watch it handles
  events     \* the events it got from that watch

perWatch == <<receiver, decoded, stopped, closes, result>>
reflector == <<handler, watch, events>>
vars == <<perWatch, reflector>>

Init ==
  /\ receiver = [w \in Watch |-> "none"]
  /\ decoded = [w \in Watch |-> 0]
  /\ stopped = [w \in Watch |-> FALSE]
  /\ closes = [w \in Watch |-> 0]
  /\ result = [w \in Watch |-> TRUE]
  /\ handler = "idle"
  /\ watch = None
  /\ events = <<>>

-----------------------------------------------------------------------------
(* Stop, called by both goroutines.                                        *)

\* Mutant of Stop: the flag is not looked at.
StopAlways(w) ==
  /\ stopped' = [stopped EXCEPT ![w] = TRUE]
  /\ closes' = [closes EXCEPT ![w] = @ + 1]

\* Under the watcher's lock.
Stop(w) ==
  /\ stopped' = [stopped EXCEPT ![w] = TRUE]
  /\ closes' = IF stopped[w] THEN closes ELSE [closes EXCEPT ![w] = @ + 1]

-----------------------------------------------------------------------------
(* receive.                                                                *)

Receiver(w, from, to) == receiver[w] = from /\ receiver' = [receiver EXCEPT ![w] = to]

\* What was read before Close may still be decoded after it.
DecodeEvent(w) ==
  /\ Receiver(w, "decode", "send")
  /\ decoded[w] < MaxEvents
  /\ decoded' = [decoded EXCEPT ![w] = @ + 1]
  /\ UNCHANGED <<stopped, closes, result, reflector>>

\* The stream ends, breaks or cannot be decoded.
DecodeError(w) ==
  /\ Receiver(w, "decode", "stop")
  /\ UNCHANGED <<decoded, stopped, closes, result, reflector>>

\* defer sw.Stop()
ReceiverStop(w) ==
  /\ Receiver(w, "stop", "close")
  /\ Stop(w)
  /\ UNCHANGED <<decoded, result, reflector>>

\* Mutant of ReceiverClose: the channel is not closed.
ReceiverLeaves(w) ==
  /\ Receiver(w, "close", "gone")
  /\ UNCHANGED <<decoded, stopped, closes, result, reflector>>

\* defer close(sw.result)
ReceiverClose(w) ==
  /\ Receiver(w, "close", "gone")
  /\ result' = [result EXCEPT ![w] = FALSE]
  /\ UNCHANGED <<decoded, stopped, closes, reflector>>

-----------------------------------------------------------------------------
(* The reflector.                                                          *)

\* NewStreamWatcher, in the last return of Request.Watch.  The others make no
\* StreamWatcher: an error (Informer's WatchFails), or after a probable EOF an
\* empty watch, whose channel is closed (its WatchEnds: a very short watch).
Open(w) ==
  /\ handler = "idle"
  /\ Receiver(w, "none", "decode")
  /\ handler' = "select"
  /\ watch' = w
  /\ events' = <<>>
  /\ UNCHANGED <<decoded, stopped, closes, result>>

\* Mutant of Deliver: receive takes the next event before this one is taken.
DeliverLate(isError) ==
  /\ handler = "select"
  /\ Receiver(watch, "send", "decode")
  /\ decoded' = [decoded EXCEPT ![watch] = IF @ < MaxEvents THEN @ + 1 ELSE @]
  /\ events' = Append(events, decoded'[watch])
  /\ handler' = IF isError THEN "return" ELSE "select"
  /\ UNCHANGED <<stopped, closes, result, watch>>

\* Both sides meet at the channel.  An event of type Error ends the watch.
Deliver(isError) ==
  /\ handler = "select"
  /\ Receiver(watch, "send", "decode")
  /\ events' = Append(events, decoded[watch])
  /\ handler' = IF isError THEN "return" ELSE "select"
  /\ UNCHANGED <<decoded, stopped, closes, result, watch>>

\* The channel is closed: break loop.
SeeClosed ==
  /\ handler = "select"
  /\ ~result[watch]
  /\ handler' = "return"
  /\ UNCHANGED <<perWatch, watch, events>>

\* The resync timer fires while this watch is handled.
ResyncRequested ==
  /\ handler = "select"
  /\ handler' = "return"
  /\ UNCHANGED <<perWatch, watch, events>>

\* defer w.Stop()
HandlerStop ==
  /\ handler = "return"
  /\ Stop(watch)
  /\ handler' = "idle"
  /\ watch' = None
  /\ UNCHANGED <<receiver, decoded, result, events>>

-----------------------------------------------------------------------------

Receive(w) == DecodeEvent(w) \/ ReceiverStop(w) \/ ReceiverClose(w)

Next ==
  \/ \E w \in Watch : Receive(w) \/ DecodeError(w) \/ Open(w)
  \/ \E isError \in BOOLEAN : Deliver(isError)
  \/ SeeClosed \/ ResyncRequested \/ HandlerStop

\* Both goroutines run.  Decode returns when the source was closed; a stream
\* that is open may stay silent for ever, and the timer need not fire while
\* a given watch is handled.
Fairness ==
  /\ \A w \in Watch : /\ WF_vars(ReceiverStop(w)) /\ WF_vars(ReceiverClose(w))
                      /\ WF_vars(closes[w] > 0 /\ DecodeError(w))
  /\ WF_vars(\E isError \in BOOLEAN : Deliver(isError))
  /\ WF_vars(SeeClosed) /\ WF_vars(HandlerStop)

Spec == Init /\ [][Next]_vars /\ Fairness

-----------------------------------------------------------------------------
(* Properties.                                                             *)

(* Stop's comment: "Call Close() exactly once by locking and setting a     *)
(* flag."  The HTTP body is closed once however the two goroutines meet,   *)
(* and it is closed when the channel is.                                   *)
ClosedExactlyOnce ==
  \A w \in Watch : /\ closes[w] <= 1
                   /\ ~result[w] => closes[w] = 1

(* What watchHandler got of a watch is what was decoded, in order and      *)
(* without a gap: at most the event in receive's hands is missing.         *)
NoEventLost ==
  watch # None =>
    /\ events = [i \in 1 .. Len(events) |-> i]
    /\ decoded[watch] = IF receiver[watch] = "send" THEN Len(events) + 1 ELSE Len(events)

(* The reflector notices that a stream ended, without the resync timer.    *)
EndIsSeen ==
  \A w \in Watch : receiver[w] = "stop" /\ watch = w ~> watch # w

-----------------------------------------------------------------------------
(* What the sources say and the code does not do.                          *)

(* watch.Interface: Stop "Will close the channel returned by ResultChan(). *)
(* Releases any resources used by the watch."  The channel is closed by    *)
(* receive, when it leaves; with an event in hand that nobody takes any    *)
(* more it never does.                                                     *)
StopClosesChannel == \A w \in Watch : stopped[w] ~> ~result[w]
=============================================================================
