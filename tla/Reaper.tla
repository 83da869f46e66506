-------------------------------- MODULE Reaper --------------------------------
(***************************************************************************)
(* proc.StartReaper in a router that is process 1 of its container, next   *)
(* to the manager's runCommandAndLog: the detail behind HAProxyManager's   *)
(* ExecReaped.                                                             *)
(*                                                                         *)
(* The children of process 1 are the commands the manager runs, one at a   *)
(* time, and the haproxy daemons they leave behind.  A child that ended is *)
(* a zombie until somebody waits for it.  SIGCHLD is one bit in the kernel *)
(* and one slot in the channel, so several deaths may make one signal.     *)
(* Process ids are not reused.                                             *)
(***************************************************************************)
CONSTANTS
  Proc,   \* the processes there will ever be
  None    \* no process

ASSUME NoneAssumption == None \notin Proc

VARIABLES
  state,    \* of each process: "none", "running", "zombie" or "gone"
  cmd,      \* the command whose CombinedOutput is in progress
  pending,  \* a SIGCHLD not yet handed to the channel
  sigs,     \* the channel, of capacity 1, holds a signal
  reaper,   \* where the reaper's goroutine stands
  early     \* processes that ended before signal.Notify (history)

reaperVars == <<state, cmd, pending, sigs, reaper, early>>

ReaperInit ==
  /\ state = [p \in Proc |-> "none"]
  /\ cmd = None
  /\ pending = FALSE
  /\ sigs = FALSE
  /\ reaper = "start"
  /\ early = {}

Zombies == {p \in Proc : state[p] = "zombie"}

Moves(p, from, to) == state[p] = from /\ state' = [state EXCEPT ![p] = to]

-----------------------------------------------------------------------------
(* The manager's command (runCommandAndLog, exec.Cmd.CombinedOutput).      *)

Command(p) ==
  /\ cmd = None
  /\ Moves(p, "none", "running")
  /\ cmd' = p
  /\ UNCHANGED <<pending, sigs, reaper, early>>

\* Wait4(pid) returns the exit status.
WaitStatus ==
  /\ cmd # None
  /\ Moves(cmd, "zombie", "gone")
  /\ cmd' = None
  /\ UNCHANGED <<pending, sigs, reaper, early>>

\* Mutant of WaitNoChild: Wait4(pid) is tried again.
WaitAgain ==
  /\ cmd # None
  /\ state[cmd] = "gone"
  /\ UNCHANGED reaperVars

\* Wait4(pid) returns ECHILD: the reaper was first.  This is not an
\* ExitError, and CombinedOutput returns it as it is.
WaitNoChild ==
  /\ cmd # None
  /\ state[cmd] = "gone"
  /\ cmd' = None
  /\ UNCHANGED <<state, pending, sigs, reaper, early>>

-----------------------------------------------------------------------------
(* The kernel and the Go runtime.                                          *)

\* p ends; process 1 adopts the daemons the command p leaves behind.  The
\* signal is dropped as long as nobody has asked for it.
Ends(p, daemons) ==
  /\ state[p] = "running"
  /\ \A d \in daemons : state[d] = "none"
  /\ daemons # {} => p = cmd
  /\ state' = [q \in Proc |-> IF q = p THEN "zombie"
                              ELSE IF q \in daemons THEN "running" ELSE state[q]]
  /\ pending' = (pending \/ reaper # "start")
  /\ early' = IF reaper = "start" THEN early \cup {p} ELSE early
  /\ UNCHANGED <<cmd, sigs, reaper>>

\* Mutant of Deliver: without a buffer the goroutine must be receiving now.
DeliverUnbuffered ==
  /\ pending
  /\ pending' = FALSE
  /\ sigs' \in {sigs, reaper = "recv"}
  /\ UNCHANGED <<state, cmd, reaper, early>>

\* A send that does not block: dropped when the channel is full.
Deliver ==
  /\ pending
  /\ pending' = FALSE
  /\ sigs' = TRUE
  /\ UNCHANGED <<state, cmd, reaper, early>>

-----------------------------------------------------------------------------
(* The reaper.                                                             *)

ReaperGoes(from, to) == reaper = from /\ reaper' = to

Notify == ReaperGoes("start", "recv") /\ UNCHANGED <<state, cmd, pending, sigs, early>>

Receive ==
  /\ ReaperGoes("recv", "reap")
  /\ sigs
  /\ sigs' = FALSE
  /\ UNCHANGED <<state, cmd, pending, early>>

\* Mutant of Reap: one child per signal.
ReapOne ==
  /\ ReaperGoes("reap", "recv")
  /\ \E p \in Zombies : Moves(p, "zombie", "gone")
  /\ UNCHANGED <<cmd, pending, sigs, early>>

\* Wait4(-1, WNOHANG) takes any zombie, also the manager's command.
Reap ==
  /\ ReaperGoes("reap", "reap")
  /\ \E p \in Zombies : Moves(p, "zombie", "gone")
  /\ UNCHANGED <<cmd, pending, sigs, early>>

\* It returns 0, or an error when there is no child at all.
NoMore ==
  /\ ReaperGoes("reap", "recv")
  /\ Zombies = {}
  /\ UNCHANGED <<state, cmd, pending, sigs, early>>

ReaperNext ==
  \/ \E p \in Proc : Command(p)
  \/ \E p \in Proc, daemons \in SUBSET Proc : Ends(p, daemons)
  \/ WaitStatus \/ WaitNoChild
  \/ Deliver \/ Notify \/ Receive \/ Reap \/ NoMore

\* The goroutines run, and signals arrive; children need not end.
ReaperFairness ==
  /\ WF_reaperVars(WaitStatus \/ WaitNoChild)
  /\ WF_reaperVars(Deliver)
  /\ WF_reaperVars(Notify) /\ WF_reaperVars(Receive) /\ WF_reaperVars(Reap \/ NoMore)

ReaperSpec == ReaperInit /\ [][ReaperNext]_reaperVars /\ ReaperFairness

-----------------------------------------------------------------------------
(* Properties.                                                             *)

TypeOK ==
  /\ state \in [Proc -> {"none", "running", "zombie", "gone"}]
  /\ cmd \in Proc \cup {None}
  /\ pending \in BOOLEAN
  /\ sigs \in BOOLEAN
  /\ reaper \in {"start", "recv", "reap"}
  /\ early \subseteq Proc
  /\ cmd # None => state[cmd] # "none"

(* However deaths, signals and the loop interleave, a zombie is on its way *)
(* to be reaped although signals are merged and dropped; only those that   *)
(* ended before Notify may have to wait for the next death.                *)
ZombiesAreAnnounced ==
  Zombies \subseteq early \/ pending \/ sigs \/ reaper = "reap"

(* A child that ended is waited for, by whom ever: no zombie stays.        *)
NoZombieStays == \A p \in Proc : state[p] = "zombie" /\ p \notin early ~> state[p] = "gone"

(* The manager is not left waiting for a command that ended, whichever of  *)
(* the two calls of Wait4 gets its status.                                 *)
CommandReturns == \A p \in Proc : cmd = p /\ state[p] \in {"zombie", "gone"} ~> cmd # p
=============================================================================
