------------------------------- MODULE WorkSet -------------------------------
(***************************************************************************)
(* What the work queue of the router promises, without saying how: a set   *)
(* of items waiting to be worked on, from which workers take one item at a *)
(* time.  An item is never given to two workers at once; an item marked    *)
(* while a worker has it stays marked until it can be given out again.     *)
(* Once closed, the set accepts no new marks.                              *)
(*                                                                         *)
(* The package comment of workqueue promises this ("a single item will not *)
(* be processed multiple times concurrently", "it is allowed for an item   *)
(* to be reenqueued while it is being processed"); module WorkQueue        *)
(* implements it.                                                          *)
(***************************************************************************)
CONSTANTS Item,    \* what is worked on
          Worker,  \* the goroutines that work
          None     \* "no item"

VARIABLES pending,    \* items that need work
          active,     \* items some worker has
          closed,     \* no more marks are accepted
          assigned    \* the item each worker has, or None

absVars == <<pending, active, closed, assigned>>

Init ==
  /\ pending = {}
  /\ active = {}
  /\ closed = FALSE
  /\ assigned = [w \in Worker |-> None]

\* Item i needs work.
Mark(i) ==
  /\ ~closed
  /\ pending' = pending \cup {i}
  /\ UNCHANGED <<active, closed, assigned>>

\* Worker w, which has nothing, is given an item nobody else has.
Take(w, i) ==
  /\ assigned[w] = None
  /\ i \in pending \ active
  /\ pending' = pending \ {i}
  /\ active' = active \cup {i}
  /\ assigned' = [assigned EXCEPT ![w] = i]
  /\ UNCHANGED closed

\* Worker w gives its item back.
Release(w) ==
  /\ assigned[w] # None
  /\ active' = active \ {assigned[w]}
  /\ assigned' = [assigned EXCEPT ![w] = None]
  /\ UNCHANGED <<pending, closed>>

Close ==
  /\ closed' = TRUE
  /\ UNCHANGED <<pending, active, assigned>>

Next ==
  \/ \E i \in Item : Mark(i)
  \/ \E w \in Worker, i \in Item : Take(w, i)
  \/ \E w \in Worker : Release(w)
  \/ Close

Spec == Init /\ [][Next]_absVars
=============================================================================
