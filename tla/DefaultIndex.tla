----------------------------- MODULE DefaultIndex -----------------------------
(***************************************************************************)
(* getDefaultIndex of the health server: requests for "/", each in its own *)
(* goroutine, read and write the slice defaultIndex without a lock.  The   *)
(* race is modelled as what a build does: a slice is a pointer and a       *)
(* length, and each word is read and written by itself, in either order.   *)
(***************************************************************************)
EXTENDS Naturals

CONSTANTS
  Request,      \* requests, concurrent or one after the other
  Nil,          \* the nil pointer
  MaxFailures   \* bound: failures of ReadFile

Word == {"ptr", "len"}

VARIABLES
  defaultIndex, \* the slice; a page is named by the request that read it
  pc,           \* where each request stands
  page,         \* what ReadFile gave it
  todo,         \* the words it has yet to write or to return
  failures,     \* failures of ReadFile
  overlapped    \* did a failed read meet another request's? (history)

indexVars == <<defaultIndex, pc, page, todo, failures, overlapped>>

IndexInit ==
  /\ defaultIndex = [ptr |-> Nil, len |-> 0]
  /\ pc = [r \in Request |-> "new"]
  /\ page = [r \in Request |-> [ptr |-> Nil, len |-> 0]]
  /\ todo = [r \in Request |-> {}]
  /\ failures = 0
  /\ overlapped = FALSE

Go(r, from, to) ==
  /\ pc[r] = from
  /\ pc' = [pc EXCEPT ![r] = to]
  /\ overlapped' = (overlapped \/ \E f, q \in Request :
       f # q /\ pc'[f] = "write" /\ page'[f].len = 0 /\ pc'[q] \in {"read", "write"})

\* if len(defaultIndex) > 0
CheckLen(r) ==
  /\ todo' = [todo EXCEPT ![r] = Word]
  /\ UNCHANGED <<defaultIndex, page, failures>>
  /\ Go(r, "new", IF defaultIndex.len > 0 THEN "return" ELSE "read")

ReadFile(r) ==
  /\ page' = [page EXCEPT ![r] = [ptr |-> r, len |-> 1]]
  /\ Go(r, "read", "write")
  /\ UNCHANGED <<defaultIndex, todo, failures>>

\* The error is dropped and the slice is nil.
ReadFileFails(r) ==
  /\ failures < MaxFailures
  /\ failures' = failures + 1
  /\ page' = [page EXCEPT ![r] = [ptr |-> Nil, len |-> 0]]
  /\ Go(r, "read", "write")
  /\ UNCHANGED <<defaultIndex, todo>>

LastWord(r, w) == todo[r] = {w}

Assign(r, w) ==
  /\ w \in todo[r]
  /\ defaultIndex' = [defaultIndex EXCEPT ![w] = page[r][w]]
  /\ todo' = [todo EXCEPT ![r] = IF LastWord(r, w) THEN Word ELSE @ \ {w}]
  /\ UNCHANGED <<page, failures>>
  /\ Go(r, "write", IF LastWord(r, w) THEN "return" ELSE "write")

\* return defaultIndex: the words as they are now.
ReturnWord(r, w) ==
  /\ w \in todo[r]
  /\ page' = [page EXCEPT ![r][w] = defaultIndex[w]]
  /\ todo' = [todo EXCEPT ![r] = @ \ {w}]
  /\ Go(r, "return", IF LastWord(r, w) THEN "done" ELSE "return")
  /\ UNCHANGED <<defaultIndex, failures>>

IndexNext ==
  \E r \in Request :
    \/ CheckLen(r) \/ ReadFile(r) \/ ReadFileFails(r)
    \/ \E w \in Word : Assign(r, w) \/ ReturnWord(r, w)

IndexSpec == IndexInit /\ [][IndexNext]_indexVars

-----------------------------------------------------------------------------
(* Properties.                                                             *)

InFlight == {r \in Request : pc[r] \notin {"new", "done"}}

(* The race leaves no lasting damage, unless a read that fails overlaps    *)
(* another: between requests the slice is whole, and it is the page if no  *)
(* read has failed.  (A failed read that overlaps may leave a length with  *)
(* a nil pointer, for every later request to stumble over; and a request   *)
(* in flight may be given such a slice in any case.)                       *)
CacheSettles ==
  InFlight = {} /\ ~overlapped =>
    /\ defaultIndex.len > 0 <=> defaultIndex.ptr # Nil
    /\ failures = 0 /\ (\E r \in Request : pc[r] = "done") => defaultIndex.len > 0
=============================================================================
