------------------------- MODULE HAProxyManagerProofs -------------------------
(***************************************************************************)
(* Proofs about HAProxyManager, for all configurations, whatever haproxy   *)
(* accepts, for any set of process ids and any number of faults.           *)
(*                                                                         *)
(* One inductive invariant carries them all: the properties themselves and *)
(* CallInv, which says what the call in progress can rely on.              *)
(***************************************************************************)
EXTENDS HAProxyManager, TLAPS

ManagerInv ==
  /\ TypeOK
  /\ OnlyPidFileRuns
  /\ NeverPartial
  /\ OkMeansLoaded
  /\ CallInv

(* A new haproxy that takes over runs alone, with the services of the call *)
(* in progress: all the processes the pid file does not name are gone.     *)
LEMMA TakeoverRunsAlone ==
  ASSUME ManagerInv, mpc = "exec", NEW p \in Pid, Takeover(p)
  PROVE  /\ pidFile' = p /\ loaded' = conf /\ cfgFile' = conf
         /\ conf \in Config
         /\ live' \in [Pid -> File]
         /\ \A q \in Pid : live'[q] # None => q = p
         /\ live'[p] = conf
         /\ \A q \in Pid : live'[q] # Partial
<1>1. /\ cfgFile = conf /\ conf \in Config /\ oldPid = pidFile
      /\ pidFile \in Pid \cup {None} /\ live \in [Pid -> File]
  BY DEF ManagerInv, TypeOK, CallInv
<1>2. /\ live' = [q \in Pid |-> IF q = p THEN cfgFile
                                ELSE IF q = oldPid THEN None ELSE live[q]]
      /\ pidFile' = p /\ loaded' = cfgFile /\ cfgFile' = cfgFile
  BY DEF Takeover
<1>3. \A q \in Pid : q # p => live'[q] = None
  BY <1>1, <1>2 DEF ManagerInv, OnlyPidFileRuns, File
<1>4. live'[p] = conf
  BY <1>1, <1>2
<1>5. conf # Partial /\ None # Partial
  BY <1>1, ConfigAssumption
<1> QED
  BY <1>1, <1>2, <1>3, <1>4, <1>5 DEF File

(* Every state the manager's first call can start from.                    *)
LEMMA ManagerInit == Init => ManagerInv
<1> SUFFICES ASSUME Init PROVE ManagerInv
  OBVIOUS
<1>1. TypeOK
  <2>1. live \in [Pid -> File] /\ cfgFile \in File /\ loaded \in File
    BY DEF Init, File
  <2>2. faults \in 0 .. MaxFaults
    BY MaxFaultsAssumption DEF Init
  <2>3. dryRun \in BOOLEAN
    BY Zenon DEF Init
  <2>4. mpc \in {"idle", "build", "check", "readpid", "exec", "ok", "err"}
    BY DEF Init
  <2> QED BY <2>1, <2>2, <2>3, <2>4 DEF Init, TypeOK
<1>2. OnlyPidFileRuns /\ NeverPartial /\ OkMeansLoaded /\ CallInv
  BY ConfigAssumption DEF Init, OnlyPidFileRuns, NeverPartial, OkMeansLoaded, CallInv
<1> QED BY <1>1, <1>2 DEF ManagerInv

(* An error return keeps the invariant: nothing but the control moves.     *)
LEMMA FailKeepsInv ==
  ASSUME ManagerInv, NEW at, FailAt(at), UNCHANGED faults \/ Fault
  PROVE  ManagerInv'
  BY MaxFaultsAssumption
     DEF FailAt, Goto, Fault, args, disk, procs, ManagerInv, TypeOK, OnlyPidFileRuns,
         NeverPartial, OkMeansLoaded, CallInv, File

(* Every step keeps the invariant.                                         *)
LEMMA ManagerStepInv == ManagerInv /\ [Next]_mvars => ManagerInv'
<1> SUFFICES ASSUME ManagerInv, [Next]_mvars PROVE ManagerInv'
  OBVIOUS
<1> USE ConfigAssumption, MaxFaultsAssumption
<1>1. ASSUME NEW c \in Config, NEW d \in BOOLEAN, CallSync(c, d) PROVE ManagerInv'
  BY <1>1 DEF CallSync, Goto, disk, procs, ManagerInv, TypeOK, OnlyPidFileRuns,
              NeverPartial, OkMeansLoaded, CallInv, File
<1>2. CASE CallReload
  BY <1>2 DEF CallReload, Goto, args, disk, procs, ManagerInv, TypeOK, OnlyPidFileRuns,
              NeverPartial, OkMeansLoaded, CallInv, File
<1>3. CASE Return
  BY <1>3 DEF Return, disk, procs, ManagerInv, TypeOK, OnlyPidFileRuns,
              NeverPartial, OkMeansLoaded, CallInv, File
<1>4. CASE CreateFails \/ CheckRefuses \/ CheckFails \/ ReadPidFails \/ ExecFails
  BY <1>4, FailKeepsInv DEF CreateFails, CheckRefuses, CheckFails, ReadPidFails, ExecFails
<1>5. CASE ExecuteFails
  BY <1>5 DEF ExecuteFails, Goto, Write, Fault, args, procs, ManagerInv, TypeOK,
              OnlyPidFileRuns, NeverPartial, OkMeansLoaded, CallInv, File
<1>6. CASE Build
  BY <1>6 DEF Build, Goto, Write, args, procs, ManagerInv, TypeOK,
              OnlyPidFileRuns, NeverPartial, OkMeansLoaded, CallInv, File
<1>7. CASE Check
  <2>1. CASE dryRun
    BY <1>7, <2>1 DEF Check, Goto, args, disk, procs, ManagerInv, TypeOK,
              OnlyPidFileRuns, NeverPartial, OkMeansLoaded, CallInv, File
  <2>2. CASE ~dryRun
    BY <1>7, <2>2 DEF Check, Goto, args, disk, procs, ManagerInv, TypeOK,
              OnlyPidFileRuns, NeverPartial, OkMeansLoaded, CallInv, File
  <2> QED BY <2>1, <2>2
<1>8. CASE ReadPid
  BY <1>8 DEF ReadPid, Goto, args, disk, procs, ManagerInv, TypeOK,
              OnlyPidFileRuns, NeverPartial, OkMeansLoaded, CallInv, File
<1>9. CASE Exec \/ ExecReaped
  <2>1. PICK p \in Pid : Takeover(p)
    BY <1>9 DEF Exec, ExecReaped
  <2>2. mpc = "exec" /\ mpc' \in {"ok", "err"} /\ (UNCHANGED faults \/ Fault)
    BY <1>9 DEF Exec, ExecReaped, Goto
  <2>3. /\ pidFile' = p /\ loaded' = conf /\ cfgFile' = conf /\ conf \in Config
        /\ live' \in [Pid -> File]
        /\ \A q \in Pid : live'[q] # None => q = p
        /\ \A q \in Pid : live'[q] # Partial
    BY <2>1, <2>2, TakeoverRunsAlone
  <2>4. conf' = conf /\ dryRun' = dryRun /\ oldPid' = oldPid /\ ~dryRun
    BY <2>1, <2>2 DEF Takeover, args, ManagerInv, CallInv
  <2>5. faults' \in 0 .. MaxFaults
    BY <2>2 DEF Fault, ManagerInv, TypeOK
  <2> QED
    BY <2>2, <2>3, <2>4, <2>5 DEF ManagerInv, TypeOK, OnlyPidFileRuns, NeverPartial,
                                  OkMeansLoaded, CallInv, File
<1>10. ASSUME NEW p \in Pid, Crash(p) PROVE ManagerInv'
  BY <1>10 DEF Crash, Fault, args, disk, ManagerInv, TypeOK, OnlyPidFileRuns,
               NeverPartial, OkMeansLoaded, CallInv, File
<1>11. CASE UNCHANGED mvars
  BY <1>11 DEF mvars, ManagerInv, TypeOK, OnlyPidFileRuns, NeverPartial,
               OkMeansLoaded, CallInv, File
<1> QED
  BY <1>1, <1>2, <1>3, <1>4, <1>5, <1>6, <1>7, <1>8, <1>9, <1>10, <1>11 DEF Next, Step

(* The inductive invariant holds throughout every run of the manager.      *)
THEOREM ManagerInvariant == Spec => []ManagerInv
  BY ManagerInit, ManagerStepInv, PTL DEF Spec

(* Type correctness of the manager, its files and its processes.           *)
THEOREM ManagerTypeCorrect == Spec => []TypeOK
<1>1. ManagerInv => TypeOK
  BY DEF ManagerInv
<1> QED BY <1>1, ManagerInvariant, PTL

(* Reload never leaves a haproxy running that the next Reload would not    *)
(* terminate, whatever fails and whenever haproxy dies.                    *)
THEOREM NoStrayHaproxy == Spec => []OnlyPidFileRuns
<1>1. ManagerInv => OnlyPidFileRuns
  BY DEF ManagerInv
<1> QED BY <1>1, ManagerInvariant, PTL

(* A file cut short by a failed buildConf or left over from before is      *)
(* never loaded, even if haproxy would accept it.                          *)
THEOREM PartialFileNeverRuns == Spec => []NeverPartial
<1>1. ManagerInv => NeverPartial
  BY DEF ManagerInv
<1> QED BY <1>1, ManagerInvariant, PTL

(* A nil error of Sync or Reload means that the services of the call are   *)
(* what haproxy has loaded.                                                *)
THEOREM NilErrorMeansLoaded == Spec => []OkMeansLoaded
<1>1. ManagerInv => OkMeansLoaded
  BY DEF ManagerInv
<1> QED BY <1>1, ManagerInvariant, PTL

(* No step of Sync or Reload takes the service down.                       *)
THEOREM ReloadKeepsServing == Spec => KeepsServing
<1>1. ManagerInv /\ [Next]_mvars =>
        [mpc' # mpc /\ (\E p \in Pid : live[p] # None)
           => \E p \in Pid : live'[p] # None]_mvars
  <2> SUFFICES ASSUME ManagerInv, Next, mpc' # mpc, NEW p \in Pid, live[p] # None
               PROVE  \E q \in Pid : live'[q] # None
    BY DEF mvars
  <2>1. CASE Exec \/ ExecReaped
    <3>1. PICK q \in Pid : Takeover(q)
      BY <2>1 DEF Exec, ExecReaped
    <3>2. mpc = "exec"
      BY <2>1 DEF Exec, ExecReaped, Goto
    <3>3. live'[q] = conf /\ conf \in Config
      BY <3>1, <3>2, TakeoverRunsAlone
    <3> QED BY <3>3, ConfigAssumption
  <2>2. CASE \E q \in Pid : Crash(q)
    BY <2>2 DEF Crash
  <2>3. CASE ~(Exec \/ ExecReaped) /\ ~\E q \in Pid : Crash(q)
    <3>1. live' = live
      BY <2>3 DEF Next, Step, CallSync, CallReload, Return, CreateFails, ExecuteFails, Build,
                  Check, CheckRefuses, CheckFails, ReadPid, ReadPidFails, ExecFails, FailAt, procs
    <3> QED BY <3>1
  <2> QED BY <2>1, <2>2, <2>3
<1> QED BY <1>1, ManagerInvariant, PTL DEF Spec, KeepsServing

(* The command that replaces or starts haproxy leaves one running with the *)
(* services of the call, whether or not the process it was to replace was  *)
(* still alive.                                                            *)
THEOREM ReloadStartsHaproxy == Spec => ReloadRevives
<1>1. ManagerInv /\ [Next]_mvars =>
        [mpc = "exec" /\ mpc' = "ok" => \E p \in Pid : live'[p] = conf]_mvars
  <2> SUFFICES ASSUME ManagerInv, Next, mpc = "exec", mpc' = "ok"
               PROVE  \E p \in Pid : live'[p] = conf
    BY DEF mvars
  <2>1. Exec
    BY DEF Next, Step, CallSync, CallReload, Return, CreateFails, ExecuteFails, Build,
           Check, CheckRefuses, CheckFails, ReadPid, ReadPidFails, ExecReaped, ExecFails,
           Crash, FailAt, Goto
  <2>2. PICK q \in Pid : Takeover(q)
    BY <2>1 DEF Exec
  <2> QED BY <2>2, TakeoverRunsAlone
<1> QED BY <1>1, ManagerInvariant, PTL DEF Spec, ReloadRevives

(* A dry run of Sync leaves the files and the processes alone.             *)
THEOREM DryRunIsHarmless == Spec => DryRunTouchesNothing
<1>1. ManagerInv /\ [Next]_mvars =>
        [dryRun /\ mpc' # mpc => UNCHANGED <<disk, procs>>]_mvars
  <2> SUFFICES ASSUME ManagerInv, Next, mpc' # mpc, dryRun
               PROVE  UNCHANGED <<disk, procs>>
    BY DEF mvars
  <2>1. mpc # "exec"
    BY DEF ManagerInv, CallInv
  <2> QED
    BY <2>1 DEF Next, Step, CallSync, CallReload, Return, CreateFails, ExecuteFails, Build,
           Check, CheckRefuses, CheckFails, ReadPid, ReadPidFails, Exec, ExecReaped, ExecFails,
           Crash, FailAt, Goto, Write, disk, procs
<1> QED BY <1>1, ManagerInvariant, PTL DEF Spec, DryRunTouchesNothing
=============================================================================
