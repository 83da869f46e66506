# A TLA+ model of kube-haproxy-router

The router watches the services and endpoints of a Kubernetes cluster, renders
them into `haproxy.cfg` and has haproxy reload it. These modules model that
loop and what it runs on, check it with TLC on small instances and prove its main
safety properties with TLAPS for all instances.

## 1. The system

The program's own code is small (`kube-haproxy.go`, `haproxy/`, `cluster/`,
`haproxy.tmpl`); its behaviour depends on vendored Kubernetes packages
(`workqueue`, `framework`, `cache`, `watch`, `util`), on `juju/ratelimit` and on a
syslog server, and those parts are modelled too.

| Component | State | Operations | Interacts with |
|---|---|---|---|
| Informers, one per resource (`framework.NewInformer`) | the reflector's resource version, DeltaFIFO, store (`clientState`), `HasSynced` | list, watch, relist every 10 s, pop a delta: write the store, then call the event handler | write the stores the worker reads; the handler enqueues |
| Watch streams (`watch.StreamWatcher`) | `stopped`, the result channel, the HTTP body | `receive`, `Stop` | feed the reflector's `watchHandler` |
| Work queue (`workqueue.Type`) | `queue`, `dirty`, `processing`, `shuttingDown`, a condition variable | `Add`, `Get`, `Done`, `ShutDown` | handlers add, the worker gets |
| Controller (`loadBalancerController`) | locals of the worker: key, services listed, list rendered | `worker`, `sync`, `getServices`, `getEndpoints` | queue, stores, manager, rate limiter |
| HAProxy manager (`haproxy.HAProxyManager`) | none of its own: `haproxy.cfg`, the pid file, the processes | `Sync` (`buildConf`, `Check`, `Reload`), `Reload`, `Start` | called by the worker alone |
| Configuration (`getServices`, `getEndpoints`, `haproxy.tmpl`) | none: a function of the stores | render | read by haproxy |
| Rate limiters (`util.NewTokenBucketRateLimiter`) | `avail`, `availTick` | `Accept` | the second reload of a sync; the API requests of both reflectors |
| Reaper (`proc.StartReaper`) | a channel for one signal | `Wait4(-1)` on SIGCHLD | takes exit statuses the manager waits for |
| Syslog server (`haproxy/syslog.go`) | the socket's file, a queue of 1000 messages | listen, receive, print | haproxy logs to it |
| Health server | a cached default page | `/healthz`, `/health-check`, `/` | haproxy's stats port |

### What is hard, and what makes each component correct

* **Queue.** Adds, Gets and Dones interleave, and `Get` sleeps on a condition
  variable. Correct: an item is handed to one worker at a time, an item added
  while it is processed is handed out again, nobody sleeps on work.
* **Controller.** The stores move while a sync reads them: services are listed
  once, endpoints are looked up service by service, each time in the current
  store. There is no periodic repair: a relist whose objects are equal enqueues
  nothing. Correct: whatever changes after a sync has read it leads to another
  sync, so that a quiet router serves what the stores hold; a failed sync is
  retried.
* **Manager.** Every step is a system call that may fail; haproxy may die between
  any two; a failed write leaves a truncated file. Correct: never two haproxies,
  never a truncated configuration loaded, never an outage because of a reload,
  and a nil error means that the new configuration is loaded.
* **Informers.** A watch may break at any event, a list is old when it is handled,
  a relist meets deltas that wait, and the controller's goroutine is behind the
  reflector's. Correct: no creation or update is lost and none is handled after a
  newer one; the store comes to equal the server's state; each change of the store
  is followed by an event.
* **Watch streams.** `Stop` is called by both goroutines, at any moment. Correct: the
  body is closed once, no event is lost or swapped, the end of a stream is noticed,
  and a stopped watch leaves nothing behind.
* **Configuration.** Several services may have one label, a service may have several
  ports (each makes a backend section of the same name), ports match by number or by
  name, and the template uses names of its own. Correct: a host leads to exactly the
  pods of the service labelled with it, and never to anybody else's.
* **Rate limiters.** A token may be promised before it exists, and several callers may
  sleep. Correct: the rate is bounded in every window, nobody waits long.
* **Reaper.** Signals are merged and dropped, and two calls of `Wait4` race for a
  status. Correct: no zombie stays, and the manager gets an answer.
* **Syslog.** Messages may come faster than they are printed, and printing may be
  stuck. Correct: the receiver never waits, what is printed is in order, and a
  restarted router listens again.
* **Health server.** Requests race on a slice. Correct: no lasting damage.

The hazards, with the source line where each bites and the properties that watch
it, are listed in `PROJECT.json`.

## 2. Modules

```
WorkSet            abstract: a set of work, each item with one worker at most
  ^ implemented by
WorkQueue          workqueue.Type and its clients          WorkQueueProofs
HAProxyManager     haproxy.go, the files, the processes    HAProxyManagerProofs
  ^ both instantiated by
Router             informers as seen by the worker, the    RouterProofs
                   event handlers, the worker, sync
Feed               abstract: what an informer promises
  ^ implemented by
Informer           reflector, DeltaFIFO, controller        InformerProofs
StreamWatcher      one watch after the other, below        StreamWatcherProofs
                   Informer's WatchEvent
TokenBucket        juju/ratelimit and its callers          TokenBucketProofs
  ^ extended by
ReloadLimiter      the reloads of sync and their limiter   TokenBucketProofs
Config             getServices, getEndpoints, the          ConfigProofs
                   template, haproxy's routing
Reaper             StartReaper and the commands            HelperProofs
Syslog             syslog.go and the server, exits         HelperProofs
DefaultIndex       getDefaultIndex                         HelperProofs
MCHAProxyManager, MCConfig, MCReloadLimiter: definitions for TLC; the other
                   modules are run as they are
```

**WorkQueue.** The variables `queue`, `dirty`, `processing` and `shuttingDown` are
the fields of `Type`. Every method holds the mutex throughout, so `Add`, `Done` and
`ShutDown` are one action each; `Get` is three (`GetWait`, `GetItem`,
`GetShutdown`), for `cond.Wait` gives the mutex up. `waiting` are the goroutines
asleep, `woken` those signalled that have not run yet: another worker may take the
item first. `held` is the caller's variable with the item it got.

**HAProxyManager.** A procedure with the program counter `mpc`. `Build`, `Check`,
`ReadPid` and `Exec` are the successes of the four things a call does;
`CreateFails`, `ExecuteFails`, `CheckRefuses`, `CheckFails`, `ReadPidFails`,
`ExecFails` and `ExecReaped` their failures. `conf` and `dryRun` are the arguments
of `Sync`. External, modelled from how the code uses them: `haproxy -c`
(`Accepts`), the takeover `haproxy -f .. -p .. -st ..` (`Takeover`: the new process
loads the file, the old one named on the command line ends, the pid file is
rewritten) and a haproxy that dies (`Crash`). A new process gets a process id that
no running haproxy has and that is not in the pid file. The router is the first
process of its container, so it starts without a haproxy. `Init` allows files of an
earlier run: the pid file may name any process, and the configuration file may be a
leftover, which counts as `Partial`, a file that no completed `buildConf` of this
process wrote. The unit that ships with the router removes the old container before
it starts a new one, so there the files are missing; in a container that is started
again the left-over syslog socket stops the router first (see Syslog), unless
somebody removes it.

**Router.** Instantiates the two others and adds the feed (`store`, `synced`, `pend`)
and the worker (`pc`, `svcs`, `todo`, `httpSvc`; its `key` is the queue's `held`).
An informer's goroutine writes one change to its store (`StoreWrite`) and then runs
the event handler (`Enqueue`); everything else may happen between the two. The
worker's actions follow `worker` and `sync` line by line: `GetKey`/`GetBlocks`;
`Defer` or `ListServices`; `GetEndpoints` once per service; `CallSync`;
`ManagerStep` (a step of the manager); `SyncReturns`, `Accept` (the wait for the
rate limiter) and the second `Reload`; `SyncFails` or `SyncSucceeds`; `Requeue`
(Add, no Done) or `MarkDone`.

Abstractions: an object is a version number, new with every write, and the one
thing the worker asks of it (is the service labelled with a name, would haproxy
refuse its backend); a rendered configuration is the map from keys to the pair of
versions it was made from. So "haproxy serves what the stores hold" is an equality
of versions. A service has one port: for several ports the code repeats
`getEndpoints` and the entry. A service without ports renders to nothing, like one
without the label. `loaded` is a history variable, the configuration of the
haproxy started last; by `OnlyPidFileRuns` it is that of the one that runs, if one
does. Flags, logging and metrics are left out. `sync` is only ever called with
`dryRun = false` (the flag `--dry` is parsed and not read), so its dry-run branches are
unreachable; those of the manager's `Sync` are modelled.

**Informer** is one informer below that feed. `log` is the API server (external): one
entry per resource version. The reflector follows `ListAndWatch`: `List`, `Replace`
(`syncWith`), `SetLast`, `WatchOpens` or `WatchFails`, then `WatchEvent` until the
channel closes (`WatchCloses`, it watches again from `rv`) or `watchHandler` returns an
error (`WatchEnds`, it lists again; the resync timer is one of the reasons). Events
are ones that `watchHandler` can use: objects of the type asked for, with metadata,
added, modified or deleted. The
controller follows `processLoop`: `Pop`, `Process` for each delta (the store is
written), `Enqueue` (the handler is called). A delta is the version of the object it
leaves, 0 for a deletion, because `Process` treats the other kinds alike. `Replace` is
one step: it holds the FIFO's lock throughout and reads the store once. `Feed` is
what remains to be seen of it by the worker: its actions `HasListed`, `StoreWrite` and
`Enqueue` are those of `Router`, for one resource, so `Informer => Feed` is what
justifies the feed that `Router` assumes.

**StreamWatcher** has the goroutine `receive` of each watch and the reflector's
`watchHandler`, which meet at an unbuffered channel (`Deliver`). The receiver of a
former watch may still be there when the next one is opened. A `Request.Watch` that
fails, or gives an empty watch after a probable EOF, makes no stream: `Informer` has these
as `WatchFails` and as a very short watch (`WatchEnds`).

**TokenBucket** computes in ticks of the bucket's `fillInterval`, as the code does.
`Accept` is `Wait(1)`: `adjust`, take a token, sleep until `endTick` if it was only
promised. `mark`, `taken` and `slack` are an observer's window, opened at any time.
**ReloadLimiter** adds the worker: one reload inside `manager.Sync` before `Accept`, one
after it, and the syncs that take no token because they fail or have no services.
Only the sequence of reloads is in it; what they do is in HAProxyManager. The other
callers call `Accept` at any time. The limiter of reloads is the case where they never
do, that of the API requests the case where the worker never syncs.

**Reaper** has the children of process 1 (the manager's commands and the daemons they
leave), SIGCHLD as one bit and a channel with one slot, and the reaper's loop. It is
the detail behind `ExecReaped`: the command worked and its caller gets an error.

**Config** renders arbitrary contents of the two stores. `getServices` is the body of the
code's loop, one step per service in any order (`todo` are those to come, the store is
a Go map); `rendered` holds when the loop has ended. `Subsets` is the cluster's side
(external): which ports an Endpoints object has. `Backends` is the sequence of sections
that can serve requests: four of the template's own and one per entry, so that a service
with several ports, or services that share a label, have several of one name. `Hits`,
`Route` and `Serving` are haproxy's side (external): the `use_backend` lines whose acl
matches, the name in the first of them, and the sections of that name. Where there are
several, some versions of haproxy refuse the file (every sync then fails: a `refused`
service of `Router`) and others warn and use one; which one is left open, so `Serving`
is the set, and a host "leads to" a section only if that is the only one.

**Syslog** has the socket, the queue and the printing loop, and the life of the
process: `Exit`, `Restart` (the unit, external, `Restart=on-failure` with
`docker rm -f`), `Listen`, which is fatal when the socket's file exists.

**DefaultIndex** treats the data race as what a build does with it: a slice is a
pointer and a length, each word is read and written by itself. It is proved about
(section 4) and has no run.

## 3. Runs

| Run | Module, instance | Shows |
|---|---|---|
| `queue` | WorkQueue: 4 items, 3 workers | `QueueIsDirtyAndIdle`, `OneWorkerPerItem`, `NoLostWakeup`, `AddedIsHandedOut`; it implements `WorkSet` |
| `manager` | MCHAProxyManager: 3 configurations, one refused; 3 pids; 3 faults | `OnlyPidFileRuns`, `NeverPartial`, `OkMeansLoaded`, `KeepsServing`, `ReloadRevives` |
| `router` | Router: 2 keys, 2 store writes, 2 faults, 2 pids | `StaleIsAbandoned`, `SyncCatchesUp`, `EventuallyFresh` |
| `requeue_after_error` | Router: 1 key, no faults | violated: `RequeuedIsRetried` |
| `informer` | Informer: 2 keys, 4 changes, 2 deltas per key (one more by a relist) | `QueueMatchesItems`, `OnlyDeletionsAreMissed`, `LineInOrder`, `RelistCorrectsStore`, `StoreConverges`; it implements `Feed` |
| `watch_stream` | StreamWatcher: 3 watches, 2 events each | `ClosedExactlyOnce`, `NoEventLost`, `EndIsSeen` |
| `watch_leak` | StreamWatcher: 2 watches, 2 events each | violated: `StopClosesChannel` |
| `reload_rate` | MCReloadLimiter: the worker and 2 other callers, capacity 2, 7 ticks, the others symmetric | `SleepersAreTheDebt`, `RateIsBounded`, `TwoReloadsPerToken` |
| `reaper` | Reaper: 4 processes | `ZombiesAreAnnounced`, `NoZombieStays`, `CommandReturns` |
| `config` | MCConfig: all pairs of services over 5 labels and 4 ports | `HostReachesItsPods`, `NoForeignBackend`, `UnknownHostGetsDefault` |
| `config_named_port` | the same | violated: `NamedTargetPortIsResolved` |
| `syslog` | Syslog: queue and socket of 2, 8 messages, 2 exits | `PrintedInOrder`, `ReceiverNeverWaits`, `QueuedIsPrinted`, `ListensAgain` |

The runs `queue`, `manager`, `router` and `informer` check `TypeOK` too.
`CHECK_DEADLOCK FALSE` is set where the system may rest: all workers told to end; the
worker asleep with no change to come; all watches used up and the reflector idle; no
process left to start; the configuration written; every message printed. The manager's
caller can always call again, the reflector can always relist, and a bucket's observer can always open a new window.

**Bounds.** The bounds matter most for liveness: the safety properties
are proved for all of them (section 4). Two
keys are the least for which a sync caused by one key serves another; two store
writes allow a change in the middle of the sync that answers the other; two faults
allow a failure while recovering from one. Two pids are the least with which a
haproxy can replace another, the third leaves room for a stray one. Three workers and
four items make a signal reach a worker that finds the item gone. Four changes are
enough to create, delete and create an object again while the other key moves, and
two deltas to have some popped, one queued by the watch and one by a relist. Three
watches leave two stuck receivers behind the one in use. Three callers of a bucket of
two make a burst, a debt and one who arrives at it; the capacities of the code (10)
only repeat this. Four processes are a command and its daemon, twice: a reload. Two
services with two ports each can share a label, a port's name or a pod's number; of the
labels three are names of the template's (the controller's host and acl, the default
backend). A queue of two can be full, with one message in hand and one lost.

**Fairness.** Queue: a worker that can run does, and finishes what it got. Router:
both informers complete their first list and deliver the events they owe, and the
worker goes on unless it is blocked in `Get`: these are goroutines that the Go
scheduler runs, the rate limiter's wait is finite, and the manager's commands are
taken to return. No fairness on changes of the cluster, on faults or on `ShutDown`.
Informer: both goroutines run and the API server answers in the end. The strong
fairness of `WatchEnds` is the resync timer: `ListAndWatch` makes it once, it fires
after ten seconds and stays readable through any number of watches that close and
are opened again, so `watchHandler` comes to take it. Nothing is assumed of
`WatchEvent`: `StoreConverges` holds by relisting alone. StreamWatcher: the goroutines
run and `Decode` returns once the body is closed; an open stream may be silent for ever,
and the timer need not fire during a given watch. Reaper: goroutines run and signals
are delivered; children need not end. Syslog: the goroutines run and the unit
restarts the router; none on `Printf`, which waits for whoever reads standard output
(`QueuedIsPrinted` has this as its premise). The other modules state safety only.

**What the violated runs show.**

* `requeue_after_error`: on an error `worker` logs that it requeues the key and calls
  `queue.Add(key)` but not `queue.Done(key)`. The key stays in `processing`, so the
  `Add` only marks it dirty; it is never handed out again, and every later event for
  it is swallowed. The run allows no fault: its trace is `deferredSync`, for a key that
  arrives before both informers have listed; if the initial list is all there is,
  haproxy is not started. The other properties of Router therefore speak of `Abandoned`
  keys, and say how far the damage goes: an abandoned key is brought up to date
  whenever the sync of any other key succeeds (`SyncCatchesUp`), and stays stale
  otherwise.
* `watch_leak`: `Stop` is to close the watch's channel and to release its resources, says
  `watch.Interface`. Only `receive` closes the channel, and it sends on it without looking at
  `stopped`: if the resync timer or an error event ends `watchHandler` while one more
  event is in hand, the goroutine and the channel stay for ever. The router makes a
  watch at least every ten seconds, so such leftovers add up. The HTTP body
  is closed all the same (`ClosedExactlyOnce`), and later watches are not disturbed
  (`NoEventLost`, `EndIsSeen`).
* `config_named_port`: `getEndpoints` compares a named target port with the names of the
  endpoints' ports, which are those of the service's ports; the backend is empty
  unless the two names are equal. `HostReachesItsPods` is the property without these.

**What the passing properties leave open** is in the code, too:

* `OnlyDeletionsAreMissed`, `RelistCorrectsStore`: `Replace` looks for deleted objects in
  the store, not among the deltas. An object whose creation is still queued when a
  list without it arrives is put in the store afterwards, and served until the next
  relist; `StoreConverges` says that it does not stay.
* `slack` in `RateIsBounded`: a full bucket is not adjusted and its `availTick` is left
  behind, so the first take after an idle start can be paid back at once, one token
  over the capacity; once only.
* `TwoReloadsPerToken` counts no reload of a sync that fails or has no services: these
  take no token, and nothing bounds them.
* `CacheSettles` (proved only) excludes a failing read that overlaps another request's:
  there the slice may be left with a length and a nil pointer.
* `HostReachesItsPods` is about services with one port and a label that no other service
  has. For the rest `NoForeignBackend` says that haproxy, if it accepts several sections of
  one name, can only choose a section of one port of one service with that label: it
  serves that port's pods, and not those of the others.
* Labels that are names of the template's. A service labelled `deis` or `deis-controller`
  takes the controller's host over, one labelled `stats`, `deis-builder`, `default-backend`
  or like the controller's backend makes a second section of that name. Nothing in the
  code or its documents is against it. `Free` and `UnknownHostGetsDefault` say which of these
  labels each property is stated without; the other hosts are not harmed by them.

## 4. Proofs

All are checked by `tlapm`; they assume only the named `ASSUME`s of the modules
(`None` is no key, the sets of workers, of keys of an informer and of callers of a
bucket are finite, a bucket's capacity is not 0, bounds are natural numbers, a
truncated or left-over file is not a complete one, port
numbers are not 0 and target ports are numbers or names, as the API server validates),
which TLC evaluates in the runs; `CacheAlwaysSettles` has as a hypothesis that no request
is the nil pointer.

**WorkQueueProofs**, for any set of items and any finite set of workers. The
inductive invariant `QueueInv` adds to the properties that `processing` is exactly
what the workers hold, and that sleeping and woken workers hold nothing and are
disjoint (`HeldInv`). `NoLostWakeup` is a count: each append is matched by one more
woken worker, or nobody is asleep; each `Get` takes one item and at most one woken
worker. `QueueImplementsWorkSet` maps `GetItem` to `Take`, for which it needs that the
head of the queue is dirty and idle, that is `QueueIsDirtyAndIdle`.

**HAProxyManagerProofs**, for any configurations, any `Accepts` (also one that accepts
a truncated file), any pids and number of faults. `ManagerInv` adds `CallInv`: from
`Check` on the file holds the services of this call, and between `ReadPid` and the
command nobody replaces the process that was read. `TakeoverRunsAlone` is the lemma
the rest follows from, also that a reload after haproxy died starts one again
(`ReloadRevives`). That a dry run has no effect (`DryRunIsHarmless`) is proved only.

**RouterProofs**, for any set of keys and any bounds. It uses the two others through
`INSTANCE`, proving their assumptions. The router is not a well-behaved client of
the queue, so the invariant of `WorkQueueProofs` does not hold in it; the lemmas
about single operations do. The argument for `StaleIsAbandoned`:

1. `FreshInv`: a key that is neither pending (dirty, or its event handler still to
   run) nor in `processing` is served as the stores hold it.
2. That is not inductive: a reload replaces what is served under *every* key.
   `ViewIsCurrent` says that what sync has in hand for a key that is not pending
   (first the listed service and the endpoints yet to be read, then `httpSvc`, the
   argument of the manager, at last what haproxy has loaded) is what the stores hold.
   A store write breaks this for its own key only, and makes that key pending.
3. When the router is quiet the queue is empty, so by `QueueIsDirtyAndIdle` every dirty
   key is in `processing`, and the worker holds none: it was abandoned.

Two more theorems say what becomes of keys after an error. `FailedIsNeverRetried`: the
key of a sync that returned an error is abandoned, and no step of anybody ends that;
this is `requeue_after_error` for every router, not only for the trace TLC found.
`WorkerSleepsOnEmptyQueue`: the abandoned keys cost no wake-up of the others. It is what
`NoLostWakeup` is for the queue's well-behaved clients; `EveryQueueMove` lists what a
step of the router can be to the queue.

**InformerProofs**, for any finite set of keys and any bounds. `InformerInv` is the
properties with two more parts. `LogInv` is about the server: the object of a key is
the version of that key's last change. `LineInv` is about the line of a key, that is
the store followed by the deltas on their way to it: its versions are ones at which
the key changed and that the reflector has reached. From both, what a list or an
event appends is at least as new as what is in the line (`LineInOrder`), and a line can
differ from the server in a missed deletion only. `FeedRefinement` needs `LineInOrder`
(the store never goes back) and the part of `LineInv` about the time before
`HasSynced`, when every line is one listed object at most.

**TokenBucketProofs**, for any finite set of callers and any capacity. `BucketInv` adds
`FirstInv` (only a bucket that was never taken from is full without being adjusted)
and `WindowInv`: in a window, the tokens taken and the level now are bounded by
capacity, slack and ticks. `SleepersAreTheDebt` is inductive with these: a caller that
finds a debt of d sleeps for tick d + 1, a tick brings all of them nearer by one.
`WaitIsBounded`, which is proved only, follows by counting: a debt of d has d sleepers.

The same module has the reloads. Every step of the worker is a step of the bucket, so
all of the above holds under its syncs (`LimiterImplementsBucket`). `ReloadRateBounded`
is for a bucket whose only client is the worker, as the code makes it: `ReloadInv` counts
the reloads per token for a window that began anywhere in a sync, and all tokens but the
one the worker sleeps for have been paid for. With other clients `TwoReloadsPerToken` is
model-checked.

**StreamWatcherProofs**, for any set of watches and any number of events. `WatchInv` adds
to `NoEventLost` the types; `CloseInv`, from which `ClosedExactlyOnce` follows: `Close` was
called once if `stopped` is set and never otherwise, so that whoever calls `Stop` second
does nothing (lemma `StopCloses`), and `receive` is past its own `Stop` when it closes the
channel; `FreshInv`: a watch not opened yet has decoded nothing; and `HandlerInv`:
`watchHandler` has a watch from its call to its return.

**ConfigProofs**, for any services, labels, ports and pods. `LoopInv`: the list is, as a set,
the entries of the services visited so far, whatever the order, and two entries of one name
are of a service with several ports or of several services (`OneEach`). The theorems
then need three facts about one service or one host: what `getEndpoints` takes is what
was intended (`EndpointsAsIntended`, here enters that a named target is the service
port's own name); the rules that match a host are those of its entries, and for the
controller's host those of the controller's acl (`HitsOfHost`), of which the first names the
host's own section (`RouteOfHost`; that a non-empty set of numbers has a least element is
`LeastIsMember`, from the library's well-foundedness of < on the naturals); and the sections
of that name are those of the entries of that name (`ServingOfHost`, `SectionsOfHost`).
`NoForeignBackends` puts these together; `HostsReachTheirPods` adds by `OneEach` that there
is one section; `UnknownHostsGetDefault` is the case of a section of the template's own.
`NamedTargetFindsNoPod` is what `config_named_port` shows, for every service:
a target name that no port of the service has yields a backend without servers.

**HelperProofs**, for any set of processes, of messages and of requests, has three parts,
which share no state (their modules carry prefixed names such as `SyslogSpec` so that one
module can extend all three).
*Reaper*: `ZombiesAreAnnounced` is inductive with the types: a death raises the signal, a
signal handed on or dropped leaves the channel full, and the loop ends only when there
is no zombie. *Syslog*: `LineInv` says that the messages printed, in the printing loop's
hand, queued and in the socket are, in this order, increasing and none beyond the last
one sent; dropping some of them keeps that, and so does an exit. *DefaultIndex*: in
`CacheInv`, as long as no failing read has overlapped another request, a request that writes the
result of a failed read is alone, so what a writer has written of the two words is there
(`WrittenInv`, `WholeInv`): all concurrent writers write a whole page, and only one that is
halfway leaves the slice in pieces.

**Only model-checked:** the liveness properties (`AddedIsHandedOut`,
`EventuallyFresh`, `StoreConverges`, `EndIsSeen`, `NoZombieStays`, `CommandReturns`,
`ReceiverNeverWaits`, `QueuedIsPrinted`, `ListensAgain`), for TLAPS has no support for fairness; `TwoReloadsPerToken` for a bucket
with clients other than the worker; and the three violated ones, two of which the theorems
`FailedIsNeverRetried` and `NamedTargetFindsNoPod` explain. Every safety property of a
passing run is proved.

## 5. Not modelled

* What needs no model because it keeps no state: `/healthz` (it passes on what
  haproxy's stats page answers) and `/health-check`; flags; logging and metrics; the
  servers and settings of the fixed sections of the template; images, scripts and error pages.
* Hazards without a property: the labels, the reloads without a token and the
  overlapping reads that section 3 tells of, and two more. The process id in a
  left-over pid file may belong to an unrelated process (`haproxy.go:76`): this needs a model of the host's other
  processes, about which the code says nothing. `buildConf` never closes the file it
  creates (`haproxy.go:50`): descriptors are freed by Go's garbage collector, which no
  line of the repository schedules.
* Vendored code that the router does not run, or that is data to it: the API types
  with their generated conversions and deep copies, validation, YAML and JSON, the
  HTTP client, logging. It is nearly all of the tree by lines, and a model of it would
  say nothing about the router; of the vendored packages, the queue, the reflector, the
  DeltaFIFO, the informer's controller, the stream watcher, the token bucket and the
  syslog server are modelled because the router's behaviour rests on them.

Worth doing next: a composition of `Router` with two `Informer`s in place of the feed
(the refinement makes this a matter of confidence in the composition, not of new
behaviour); `TwoReloadsPerToken` for a bucket with other clients.
