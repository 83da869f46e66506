----------------------------- MODULE TokenBucket -----------------------------
(***************************************************************************)
(* The token bucket (juju/ratelimit) behind util.NewTokenBucketRateLimiter *)
(* and its callers.  The router has two: one limits the worker's reloads   *)
(* (10 per second, burst 10), the other the API requests of both           *)
(* reflectors (5 per second, burst 10).                                    *)
(*                                                                         *)
(* The bucket computes in ticks of its fillInterval, and so does the       *)
(* model: nothing depends on the time within a tick.  For both rates       *)
(* NewBucketWithRate takes the first quantum it tries, 1: one token is     *)
(* added per tick.                                                         *)
(***************************************************************************)
EXTENDS Integers, FiniteSets

CONSTANTS
  Client,    \* goroutines that call Accept
  Capacity,  \* the bucket's capacity, called burst by the router
  MaxTick    \* bound: ticks

ASSUME ClientAssumption == IsFiniteSet(Client)
ASSUME CapacityAssumption == Capacity \in Nat \ {0}
ASSUME TickAssumption == MaxTick \in Nat

VARIABLES
  tick,       \* the time since startTime, in ticks
  avail,      \* Bucket.avail; less than 0: tokens that were promised
  availTick,  \* Bucket.availTick
  wake,       \* the tick that each caller sleeps for, 0 if it does not sleep
  mark,       \* history: the tick at which an observer began to count
  taken,      \* history: calls of take since then
  slack       \* history: 1 if no token had been taken before

bucket == <<avail, availTick>>
window == <<mark, taken, slack>>
vars == <<tick, bucket, wake, window>>

Init ==
  /\ tick = 0
  /\ avail = Capacity
  /\ availTick = 0
  /\ wake = [c \in Client |-> 0]
  /\ mark = 0
  /\ taken = 0
  /\ slack = 1

-----------------------------------------------------------------------------
(* The bucket.                                                             *)

CapAt(n) == IF n > Capacity THEN Capacity ELSE n

\* Mutant of adjust: availTick is left behind, so ticks are paid twice.
adjustForgetting ==
  IF avail >= Capacity THEN bucket ELSE <<CapAt(avail + (tick - availTick)), availTick>>

\* <<avail, availTick>> after adjust.  A full bucket is left as it is, its
\* availTick included.
adjust ==
  IF avail >= Capacity THEN bucket ELSE <<CapAt(avail + (tick - availTick)), tick>>

\* Mutant of endTick: the tokens missing are counted one short.
endTickEarly(missing) == IF missing > 1 THEN tick + missing - 1 ELSE tick + missing

\* The tick at which the missing tokens will have been added.
endTick(missing) == tick + missing

\* Accept: Wait(1), which takes a token under the bucket's lock and sleeps
\* if it was only promised.
Accept(c) ==
  /\ wake[c] = 0
  /\ tick + Cardinality(Client) <= MaxTick
  /\ LET left == adjust[1] - 1
     IN  /\ avail' = left
         /\ availTick' = adjust[2]
         /\ wake' = [wake EXCEPT ![c] = IF left >= 0 THEN 0 ELSE endTick(-left)]
  /\ taken' = taken + 1
  /\ UNCHANGED <<tick, mark, slack>>

\* time.Sleep returns, at that tick or later.
Wake(c) ==
  /\ wake[c] # 0
  /\ wake[c] <= tick
  /\ wake' = [wake EXCEPT ![c] = 0]
  /\ UNCHANGED <<tick, bucket, window>>

Tick ==
  /\ tick < MaxTick
  /\ tick' = tick + 1
  /\ UNCHANGED <<bucket, wake, window>>

\* The observer starts a new window, at any time.
OpenWindow ==
  /\ mark' = tick
  /\ taken' = 0
  /\ slack' = IF avail >= Capacity THEN 1 ELSE 0
  /\ UNCHANGED <<tick, bucket, wake>>

Next ==
  \/ \E c \in Client : Accept(c) \/ Wake(c)
  \/ Tick
  \/ OpenWindow

Spec == Init /\ [][Next]_vars

-----------------------------------------------------------------------------
(* Properties.                                                             *)

TypeOK ==
  /\ tick \in 0 .. MaxTick
  /\ avail \in Int /\ avail <= Capacity
  /\ availTick \in 0 .. tick
  /\ wake \in [Client -> 0 .. MaxTick]
  /\ mark \in 0 .. tick
  /\ taken \in Nat
  /\ slack \in {0, 1}

\* What the bucket would have if it were adjusted now.
Level == adjust[1]

\* Tokens promised that have not been added yet.
Debt == IF Level < 0 THEN -Level ELSE 0

(* Those that sleep for a tick to come are served one per tick, without a  *)
(* gap: no two of them wake for the same token, and none is made to wait   *)
(* for a tick that nobody needs.                                           *)
SleepersAreTheDebt ==
  /\ \A t \in tick + 1 .. tick + Debt : \E c \in Client : wake[c] = t
  /\ \A c \in Client : wake[c] <= tick + Debt
  /\ \A c, d \in Client : wake[c] = wake[d] /\ wake[c] > tick => c = d

(* So no call of Accept sleeps longer than there are callers, in ticks:    *)
(* the worker waits for at most a tenth of a second.                       *)
WaitIsBounded == \A c \in Client : wake[c] <= tick + Cardinality(Client)

(* What a limiter is for: in any window the tokens handed out are at most  *)
(* a full bucket and one per tick, and one more if the window has the      *)
(* first token ever taken (a full bucket keeps its old availTick, so the   *)
(* ticks before that token are credited after it).                         *)
RateIsBounded == taken - Debt <= Capacity + slack + (tick - mark)
=============================================================================
