---------------------------- MODULE ReloadLimiter ----------------------------
(***************************************************************************)
(* The worker's sync and its rate limiter.  A sync reloads haproxy twice,  *)
(* once in HAProxyManager.Sync and once at its end, and takes a token      *)
(* between the two: the first is never limited, and without services the   *)
(* second is not either.                                                   *)
(*                                                                         *)
(* The bucket's other clients call Accept at any time.  The limiter of the *)
(* reloads has none; that of the API requests has the two reflectors and   *)
(* not the worker.  Both are cases of this module.                         *)
(***************************************************************************)
EXTENDS TokenBucket

CONSTANT Worker

ASSUME WorkerAssumption == Worker \in Client

VARIABLES
  at,      \* where the worker's sync stands
  reloads  \* history: reloads in the window by syncs that take a token

sync == <<at, reloads>>
limiterVars == <<vars, sync>>

LimiterInit == Init /\ at = "idle" /\ reloads = 0

-----------------------------------------------------------------------------
(* The worker.                                                             *)

\* haproxy.Sync works, and there are services.
FirstReload ==
  /\ at = "idle"
  /\ at' = "limit"
  /\ reloads' = reloads + 1
  /\ UNCHANGED vars

\* haproxy.Sync fails after its Reload, or there are no services: these take
\* no token, and there is no bound for them.
FreeReload ==
  /\ at = "idle"
  /\ at' = "free"
  /\ UNCHANGED <<vars, reloads>>

\* sync returns the error, or reloads once more: len(httpSvc) == 0.
FreeReturn ==
  /\ at = "free"
  /\ at' = "idle"
  /\ UNCHANGED <<vars, reloads>>

\* Mutant of Limit: a limiter that has no token at hand is passed by.
LimitIfAvailable ==
  /\ at = "limit"
  /\ at' = "reload"
  /\ IF Level > 0 THEN Accept(Worker)
     ELSE wake[Worker] = 0 /\ tick < MaxTick /\ UNCHANGED vars
  /\ UNCHANGED reloads

\* reloadRateLimiter.Accept()
Limit ==
  /\ at = "limit"
  /\ at' = "reload"
  /\ Accept(Worker)
  /\ UNCHANGED reloads

\* Accept has returned.
LastReload ==
  /\ at = "reload"
  /\ wake[Worker] = 0
  /\ at' = "idle"
  /\ reloads' = reloads + 1
  /\ UNCHANGED vars

-----------------------------------------------------------------------------

Others == (\E c \in Client \ {Worker} : Accept(c)) /\ UNCHANGED sync

Sleepers == (\E c \in Client : Wake(c)) /\ UNCHANGED sync

Clock == Tick /\ UNCHANGED sync

Observe == OpenWindow /\ reloads' = 0 /\ UNCHANGED at

LimiterNext ==
  \/ FirstReload \/ FreeReload \/ FreeReturn \/ Limit \/ LastReload
  \/ Others \/ Sleepers \/ Clock \/ Observe

LimiterSpec == LimiterInit /\ [][LimiterNext]_limiterVars

-----------------------------------------------------------------------------
(* Properties.                                                             *)

(* While there are services and syncs do not fail, haproxy is reloaded at  *)
(* most twice per token, whatever part of a sync a window begins and ends  *)
(* in: reloadQPS bounds the rate only up to this factor of two.            *)
TwoReloadsPerToken == reloads <= 2 * (Capacity + slack + (tick - mark)) + 2
=============================================================================
