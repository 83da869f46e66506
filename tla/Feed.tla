-------------------------------- MODULE Feed --------------------------------
(***************************************************************************)
(* What an informer promises the controller (the feed that Router assumes, *)
(* for one resource): a store of the objects, HasSynced, and an event      *)
(* handler call after every write of the store that changes something.     *)
(* An object is its resource version, 0 is no object.                      *)
(***************************************************************************)
EXTENDS Naturals

CONSTANTS
  Key,
  Version,  \* resource versions
  None      \* no key

VARIABLES
  store,   \* the object under each key
  synced,  \* HasSynced
  pend     \* the key whose handler is to be called before the next write

feedVars == <<store, synced, pend>>

Init ==
  /\ store = [k \in Key |-> 0]
  /\ synced = FALSE
  /\ pend = None

HasListed ==
  /\ ~synced
  /\ synced' = TRUE
  /\ UNCHANGED <<store, pend>>

\* Until HasSynced only the items of the first list arrive, each once.  The
\* store never goes back from a version to an older one.  A deletion may be
\* repeated, an object that did not change is not reported.
StoreWrite(k, v) ==
  /\ pend = None
  /\ synced \/ (store[k] = 0 /\ v # 0)
  /\ v = 0 \/ v > store[k]
  /\ store' = [store EXCEPT ![k] = v]
  /\ pend' = k
  /\ UNCHANGED synced

Enqueue ==
  /\ pend # None
  /\ pend' = None
  /\ UNCHANGED <<store, synced>>

Next ==
  \/ HasListed
  \/ \E k \in Key, v \in Version : StoreWrite(k, v)
  \/ Enqueue

Spec == Init /\ [][Next]_feedVars
=============================================================================
