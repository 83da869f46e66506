---------------------------- MODULE HAProxyManager ----------------------------
(***************************************************************************)
(* haproxy/haproxy.go: HAProxyManager writes haproxy.cfg from a template,  *)
(* has haproxy check it, and starts haproxy or has a new haproxy replace   *)
(* the running one.  The module also holds what the manager acts on: the   *)
(* configuration file, the pid file and the haproxy processes (external).  *)
(*                                                                         *)
(* The manager is called by one goroutine and runs no code of its own, so  *)
(* it is a procedure: mpc says where the call in progress stands, "ok" and *)
(* "err" are its two returns.  Each system call is a step of its own, for  *)
(* haproxy may die between any two of them.                                *)
(*                                                                         *)
(* Errors of the environment (no descriptor left, disk full, fork failing, *)
(* an address in use, the child reaped by proc.StartReaper before          *)
(* exec.Cmd.Wait sees it) and deaths of haproxy are faults; MaxFaults      *)
(* bounds how many happen.                                                 *)
(***************************************************************************)
EXTENDS Naturals

CONSTANTS
  Config,      \* what the template renders: one value per list of services
  Accepts(_),  \* does haproxy accept this file?  (external)
  Partial,     \* a file that no completed buildConf of this process wrote
  Pid,         \* process ids
  None,        \* no file, no process, no call
  MaxFaults    \* bound: faults of the environment

ASSUME ConfigAssumption == Partial \notin Config /\ None \notin Config \cup {Partial}
ASSUME PidAssumption == None \notin Pid
ASSUME MaxFaultsAssumption == MaxFaults \in Nat

VARIABLES
  mpc,      \* where the call in progress stands
  conf,     \* its arguments: the services to write,
  dryRun,   \* and whether Sync only prints and checks
  oldPid,   \* Reload's local pid: what the pid file held, None if missing
  cfgFile,  \* the contents of haproxy.cfg
  pidFile,  \* the contents of /var/run/haproxy.pid
  live,     \* the configuration each running haproxy has loaded
  loaded,   \* the configuration of the haproxy started last (history)
  faults    \* faults so far

mvars == <<mpc, conf, dryRun, oldPid, cfgFile, pidFile, live, loaded, faults>>
args == <<conf, dryRun>>
disk == <<cfgFile, pidFile>>
procs == <<live, loaded>>

\* The router may find the files of an earlier run, of which no haproxy is
\* left (not in a new container, nor before the old syslog socket is removed:
\* see Syslog).
Init ==
  /\ mpc = "idle"
  /\ conf = None
  /\ dryRun = FALSE
  /\ oldPid = None
  /\ cfgFile \in {None, Partial}
  /\ pidFile \in Pid \cup {None}
  /\ live = [p \in Pid |-> None]
  /\ loaded = None
  /\ faults = 0

Goto(from, to) == mpc = from /\ mpc' = to

Fault == faults < MaxFaults /\ faults' = faults + 1

\* A step that returns an error: the caller sees it, nothing else changes.
FailAt(at) ==
  /\ Goto(at, "err")
  /\ UNCHANGED <<args, oldPid, disk, procs>>

-----------------------------------------------------------------------------
(* Calls and returns.                                                      *)

\* Sync(services, nodes, dryrun); the nodes and the domain never change.
CallSync(services, dryrun) ==
  /\ Goto("idle", "build")
  /\ conf' = services
  /\ dryRun' = dryrun
  /\ UNCHANGED <<oldPid, disk, procs, faults>>

\* Reload(), called again by the controller after a Sync that succeeded; the
\* controller makes no dry runs.
CallReload ==
  /\ ~dryRun
  /\ Goto("ok", "readpid")
  /\ UNCHANGED <<args, oldPid, disk, procs, faults>>

\* The caller leaves: the locals are gone.
Return ==
  /\ mpc \in {"ok", "err"}
  /\ mpc' = "idle"
  /\ conf' = None
  /\ dryRun' = FALSE
  /\ oldPid' = None
  /\ UNCHANGED <<disk, procs, faults>>

-----------------------------------------------------------------------------
(* buildConf.  A dry run writes to the standard output instead.            *)

Write(contents) == cfgFile' = IF dryRun THEN cfgFile ELSE contents

\* os.Create fails: the old file, if any, is still there.
CreateFails == FailAt("build") /\ ~dryRun /\ Fault

\* Mutant of ExecuteFails: its error is dropped and Sync goes on.
ExecuteErrorIgnored ==
  /\ Goto("build", "check")
  /\ Write(Partial)
  /\ UNCHANGED <<args, oldPid, pidFile, procs>>
  /\ Fault

\* os.Create has truncated the file, then ParseFiles or Execute fails.
ExecuteFails ==
  /\ Goto("build", "err")
  /\ Write(Partial)
  /\ UNCHANGED <<args, oldPid, pidFile, procs>>
  /\ Fault

Build ==
  /\ Goto("build", "check")
  /\ Write(conf)
  /\ UNCHANGED <<args, oldPid, pidFile, procs, faults>>

-----------------------------------------------------------------------------
(* Check: haproxy -f haproxy.cfg -c, of the file on disk, which a dry run  *)
(* has not written.                                                        *)

\* Mutant of Check: Sync returns once the file is checked.
CheckThenReturn ==
  /\ Goto("check", "ok")
  /\ Accepts(cfgFile)
  /\ UNCHANGED <<args, oldPid, disk, procs, faults>>

Check ==
  /\ Goto("check", IF dryRun THEN "ok" ELSE "readpid")
  /\ Accepts(cfgFile)
  /\ UNCHANGED <<args, oldPid, disk, procs, faults>>

CheckRefuses == FailAt("check") /\ ~Accepts(cfgFile) /\ UNCHANGED faults

CheckFails == FailAt("check") /\ Accepts(cfgFile) /\ Fault

-----------------------------------------------------------------------------
(* Reload and Start.                                                       *)

\* Mutant of ReadPid: Reload always goes the way of Start.
ReadPidNever ==
  /\ Goto("readpid", "exec")
  /\ oldPid' = None
  /\ UNCHANGED <<args, disk, procs, faults>>

\* Mutant of ReadPid: reads the configuration file instead.
ReadPidFromConfig ==
  /\ Goto("readpid", "exec")
  /\ oldPid' = cfgFile
  /\ UNCHANGED <<args, disk, procs, faults>>

ReadPid ==
  /\ Goto("readpid", "exec")
  /\ oldPid' = pidFile
  /\ UNCHANGED <<args, disk, procs, faults>>

ReadPidFails == FailAt("readpid") /\ Fault

\* haproxy -f haproxy.cfg -p pidfile [-st oldPid]: a new process p loads the
\* file, terminates the old one if there is one to name, and takes over the
\* pid file before the command returns.  p is a fresh process id.
Takeover(p) ==
  /\ Accepts(cfgFile)
  /\ live[p] = None /\ p # pidFile
  /\ live' = [q \in Pid |-> IF q = p THEN cfgFile
                            ELSE IF q = oldPid THEN None ELSE live[q]]
  /\ pidFile' = p
  /\ loaded' = cfgFile
  /\ UNCHANGED <<args, oldPid, cfgFile>>

\* Mutant of Exec: a pid file whose process is dead counts as a success.
ExecUnlessDead ==
  /\ Goto("exec", "ok")
  /\ IF oldPid # None /\ live[oldPid] = None
       THEN UNCHANGED <<args, oldPid, disk, procs>>
       ELSE \E p \in Pid : Takeover(p)
  /\ UNCHANGED faults

Exec == Goto("exec", "ok") /\ (\E p \in Pid : Takeover(p)) /\ UNCHANGED faults

\* The command did its work but the reaper took its exit status: Wait errs.
ExecReaped == Goto("exec", "err") /\ (\E p \in Pid : Takeover(p)) /\ Fault

\* Mutant of ExecFails: the old haproxy is stopped before the new one starts.
StopThenFail ==
  /\ Goto("exec", "err")
  /\ live' = [p \in Pid |-> IF p = oldPid THEN None ELSE live[p]]
  /\ UNCHANGED <<args, oldPid, disk, loaded>>
  /\ Fault

\* The command fails before it touches the running haproxy.  (It does not
\* refuse the file: Check has just accepted it.)
ExecFails == FailAt("exec") /\ Accepts(cfgFile) /\ Fault

-----------------------------------------------------------------------------

\* A running haproxy dies; its pid file stays.
Crash(p) ==
  /\ live[p] # None
  /\ live' = [live EXCEPT ![p] = None]
  /\ Fault
  /\ UNCHANGED <<mpc, args, oldPid, disk, loaded>>

\* The steps of a call in progress.
Step ==
  \/ CreateFails \/ ExecuteFails \/ Build
  \/ Check \/ CheckRefuses \/ CheckFails
  \/ ReadPid \/ ReadPidFails
  \/ Exec \/ ExecReaped \/ ExecFails

Next ==
  \/ \E c \in Config, d \in BOOLEAN : CallSync(c, d)
  \/ CallReload
  \/ Return
  \/ Step
  \/ \E p \in Pid : Crash(p)

Spec == Init /\ [][Next]_mvars

-----------------------------------------------------------------------------
(* Properties.                                                             *)

File == Config \cup {Partial, None}

TypeOK ==
  /\ mpc \in {"idle", "build", "check", "readpid", "exec", "ok", "err"}
  /\ conf \in Config \cup {None}
  /\ dryRun \in BOOLEAN
  /\ oldPid \in Pid \cup {None}
  /\ cfgFile \in File
  /\ pidFile \in Pid \cup {None}
  /\ live \in [Pid -> File]
  /\ loaded \in File
  /\ faults \in 0 .. MaxFaults

(* Every haproxy that runs is the one the pid file names, so the next      *)
(* Reload terminates it: the manager never leaves a second haproxy behind  *)
(* that would go on serving an old configuration on the same ports.        *)
OnlyPidFileRuns == \A p \in Pid : live[p] # None => p = pidFile

(* No haproxy ever runs with a file whose writing was cut short or that is *)
(* left over from before, although such a file is on disk after a failed   *)
(* buildConf or a restart and may well pass haproxy's own check.           *)
NeverPartial == loaded # Partial /\ \A p \in Pid : live[p] # Partial

(* When Sync (or the Reload after it) returns nil, the haproxy started     *)
(* last has loaded exactly the services that Sync was given.               *)
OkMeansLoaded == mpc = "ok" /\ ~dryRun => loaded = conf /\ cfgFile = conf

(* No step of a call, failing or not, leaves nothing running where a       *)
(* haproxy was running: Reload replaces and never stops first.             *)
KeepsServing ==
  [][mpc' # mpc /\ (\E p \in Pid : live[p] # None)
       => \E p \in Pid : live'[p] # None]_mvars

(* Nothing restarts a haproxy that died but the next change of the         *)
(* cluster: a sync that returns nil has a haproxy running with its         *)
(* services, also when the pid file names one that is dead.                *)
ReloadRevives ==
  [][mpc = "exec" /\ mpc' = "ok" => \E p \in Pid : live'[p] = conf]_mvars

(* A dry run changes neither the files nor the processes.                  *)
DryRunTouchesNothing == [][dryRun /\ mpc' # mpc => UNCHANGED <<disk, procs>>]_mvars

(* What these need to be inductive: from Check to the return of the call   *)
(* the file holds the services of this call, and between ReadPid and the   *)
(* command nobody replaces the process that was read.                      *)
CallInv ==
  /\ mpc \notin {"idle", "err"} => conf # None
  /\ mpc \in {"check", "readpid", "exec", "ok"} /\ ~dryRun => cfgFile = conf
  /\ mpc \in {"readpid", "exec"} => ~dryRun
  /\ mpc = "exec" => oldPid = pidFile
=============================================================================
