# docktunnel in TLA+

docktunnel watches the containers of a Docker daemon, turns their labels into
the ingress rules of a Cloudflare tunnel and keeps the tunnel's configuration
and the DNS records of its host names in step with them. This directory holds
TLA+ specifications of the parts of it that carry state, TLC configurations
that check them on small instances, and TLAPS proofs of the results that hold
for every size. `PROJECT.json` maps every definition to the lines it models.

    tlc -workers 2 -config MCRoutes_rebuild.cfg MCRoutes    # one run
    tlapm DnsSyncProofs.tla                                 # one proof module

## 1. The system

### Parts, state, interaction

| Part | State it keeps | Operations | Module |
|---|---|---|---|
| Docker event listener (`docker/monitor.go`) | the stream, its back-off | subscribe, reconnect, `trySendEvent`, resync event | in `Routes` |
| Dispatcher and handlers (`controller/dispatcher.go`, `handlers.go`) | `ingressRules`, `containerRules` under `c.mu` | start, stop, healthy, unhealthy, resync | `Routes` |
| Desired state (`desired.go`, `reconciler.go`, `syncer.go:Sync`) | locals of one rebuild | scan, settle, merge, compare, apply | `Routes` |
| Retention and collection (`state/transition.go`, `state/manager.go`, `gc.go`) | `activeTunnels`, `pendingDeletes` under `sm.mu` | stop transition, restore, `RunGC` | `Routes` |
| Health tracker (`health.go`) | restarts and cooling per container | record a restart, is it cooling | in `Routes` |
| Sync worker (`sync_worker.go`) | `triggerCh`, held flushers, `lastErr` | `TriggerSync`, `FlushSync`, debounce, `runOnce` | `SyncWorker` |
| Compensation (`compensation.go`, `state/manager.go`) | the action queue | enqueue, poll, execute, settle, remove dead | `SyncWorker` |
| Shutdown (`cmd/docktunnel/main.go`) | signal, root context | clean up, cancel, save | `SyncWorker`, `Persistence` |
| Sync cycle (`syncer.go`, `cloudflareManager/tunnel.go`) | tunnel configuration and DNS zones (remote), ownership ledger | `performSync`, `syncDNSRecords`, list, upsert, delete | `DnsSync` |
| Persistence (`state/persistence.go`) | state file, backups, dirty flag | save, rotate, prune, load | `Persistence` |
| Labels, validators (`label/`, `controller/validator.go`) | none | decode, merge, build, validate | `Labels`; the results are constants of `Routes` |
| Instance lock (`instance/lock.go`) | an flock | acquire, close | `Manager` |
| Cloudflare manager (`cloudflareManager/tunnel.go`) | the tunnel, the zone cache | `callWithRetry`, `getOrCreateTunnel`, `getZoneIDForHostname` | `Manager` |
| Configuration, HTTP, metrics | see section 6 | | not modelled |

Docker events go through a bounded channel to one dispatcher goroutine. A
handler changes the two maps and triggers the worker through a channel of size
one. The worker debounces and runs one cycle at a time, which pushes the rules
as the tunnel's configuration and then repairs the DNS records. A failed cycle
leaves a compensation record, and a loop retries it through `FlushSync`. A
ticker goroutine runs the collector, the reconciler and the saver, and so meets
the dispatcher on `c.mu` and `sm.mu`. Before any of this a process takes the
instance lock and finds or creates its tunnel; every API call goes through
`callWithRetry`.

### What is hard

* Handlers and rebuilds take the two locks piecewise, so the dispatcher and the
  ticker interleave inside them; a rebuild may install what an event has
  overtaken.
* Events are dropped (full channel, broken stream, failed inspection) and
  duplicated (`die` and `stop`).
* A cycle is a row of API calls. Users edit the zones between a look-up and the
  batch that uses it, a call fails between two batches, the process dies
  between writing DNS and saving the ledger.
* The rules change while the worker is inside a cycle; triggers coalesce;
  `FlushSync` reads an error that a later cycle may have overwritten; shutdown
  flushes through a worker that it is about to stop.
* A save renames the good file away before the new one exists.
* Labels are parsed again at every rebuild, over Go maps in random order, and a
  start event and a rebuild apply different rules to the result.
* Creating a tunnel is not idempotent, but is retried like every other call; a
  zone may move while its ID is cached.

`PROJECT.json` lists these as 40 hazards, each at the line where it bites and
with the properties that would notice it.

## 2. Modules

### `DnsSync`: one sync cycle and the ledger

The remote side is `rec` (host -> CNAME content) and `config` (the live tunnel
configuration); the local side `rules`, `ledger` (`managedDNS`), `saved` (the
ledger on disk) and the locals of `syncDNSRecords`. Each call of a cycle is an
action: `StartCycle`, `UpdateConfiguration`, `ReadHostnames`, `ListZone` per
zone (which may fail half way), `Plan`, then per zone a check (`DeleteCheck`,
`UpsertCheck`) and its batches (`DeleteBatch`, `UpsertBatch`), the ledger
updates (`DeleteDone`, `UpsertDone`, `Adopt`) and `FailCycle`, a call that has
failed for good. Around it are `Persist`, `Restart` (possibly with a new tunnel,
possibly without the state file), and the users' `UserWrite` and `UserDelete`.

Rules change in two ways. Handlers, the collector and `Sync` change the map
(`ChangeRules`) and call `TriggerSync` some time later (`Trigger`; `owing` in
between). `Reconcile` installs its rules without a trigger (`ReconcileInstall`), then
asks for the live configuration and triggers if that differs (`ReconcileCompare`). If
`GetConfiguration` fails it returns, and the rules stay untold until a later run of
`Reconcile` gets an answer: no step happens then, so the failure is that
`ReconcileCompare` has not happened yet. `untold` marks these rules.

A CNAME target is a tunnel or `Foreign`, in one of three spellings, because the
code compares contents in three ways: `normalizeCNAMEContent` folds dot and
case (`PointsHere`), `sameTunnel` only the dot, and the upsert test nothing.
`round` and `missed` are history: whether anything has disturbed the current cycle, or
Reconcile's rules have split its two reads of the rules, and which records its
listings did not reach. A batch that Cloudflare has
carried out but whose answer is lost is the batch followed by `FailCycle`. That Cloudflare refuses a batch as a whole, and a POST
for a name that exists, are assumptions on the service.

### `Routes`: events, desired state, retention

`running` is Docker's truth, `queue` is `eventChan`. A service stands for its
parsed rule; a route is a (host, path) key. State entries are the services plus
`Anon`, the entries that `handleContainerStop` makes up from host names when
inspection fails (the code numbers them svc0, svc1, ...; the model names them by
host). Each handler is cut where it releases a lock:

| Code | Actions |
|---|---|
| `handleContainerStart` | `StartRestore`, `StartValidate`, `StartRegister`, `StartEntries` |
| `handleContainerStop` | `StopTransition`, `StopUnroute` |
| `handleHealthHealthy` | `HandleHealthy`, `HealthyValidate`, `HealthyRegister` |
| `handleHealthUnhealthy` | `HandleUnhealthy` |
| `handleResync`, `Sync` | `HandleResync`, `Scan`, `Settle`, `Merge`, `Apply` |
| `Reconcile` | `TickReconcile`, `Scan`, `Settle`, `Merge`, `Compare`, `Apply` |
| a scan that fails, or misses a container | `ScanFails`, `ScanPartly` |
| `RunGarbageCollection` | `TickGC`, `GCUnroute` |

`Settle` is parts 1 and 2 of `buildDesiredRules` and `Merge` parts 3 and 4,
each in one step though the code takes `sm.mu` per entry. `Accept` is the
uniqueness test of part 4 with its exception: a key in `retainedKeys` does not
disqualify a container, even if a running container has taken that key in the
meantime, so the later container is accepted in part. Time is abstracted:
`Expire` and `CoolingEnds` happen at some point. A start may or may not begin a
cooling period (`MayCool`). `sick` is Docker's truth about health; the code keeps no
health state, so only the properties read it.

### `SyncWorker`: triggers, cycles, compensation, shutdown

The rules are a version number. `trigger` is the channel of size one, which
holds nothing, a plain trigger or a flusher. The worker goes through `Receive`,
`Fire`, `ReadRules`, `SyncOK` or `SyncFail`, `OnErrorCheck`, `EnqueueAction`,
`CloseHeld`; `WorkerExit` is the cancelled context. `FlushSync` is `FlushSend`,
`FlushReturn`, `FlushTimeout`, called by the compensation loop (`Poll`,
`Settle`, `PollClean`) and by shutdown (`Cleanup`, `Cancel`, or `SkipCleanup`).
The queue starts with any number of dead records, those of the state file.

A failure that meets a record whose retry has just succeeded is not enqueued,
and the record is then deleted: that failure is not retried. The code has this
window; the model shows it by clearing `owed` in `OnErrorCheck`, and
`FailureIsRetried` promises nothing there. Nor does it once a retry has failed for
good or was the last, or when the queue is full.

### `RulePush`: what the worker promises

Newer rules go live now and then, never older ones, and a caller of `FlushSync`
is told "ok" only if the rules of its call, or newer ones, are live, unless the
worker has stopped. There is no channel, timer, cycle or error slot.
`ImplementsRulePush` instantiates it with `live <- pushed`, with the caller's view
of its call (`Seen`), and with `stopped <- worker = "gone"`; it is checked as a
property of `worker_cycle` and proved in `SyncWorkerProofs`.

### `Labels`: from labels to rules

A label set is a record per docktunnel service and per Traefik router, with one
value per class that the code tells apart (a port that is missing, usable, no
number, or out of range; a rule as a sequence of matcher clauses, quoted or
not). The stages of `Parse` are actions: `AdaptDockTunnel`, `DecodeTraefik`,
`MergeSpecs`, `BuildIngressRules`. The two consumers follow: `Start` is
`registerContainerRules` with the retention policies of its entries, `Rebuild` one
container of `buildDesiredRules`, and `Reconcile` parses the same labels again. The
random order of Go's maps is a choice where it matters: which of several
spellings of an access key stays, and which router `traefikByHostname` remembers
for a host name. A retention is a keyword, a number of days, which wraps at `Width`
bits, or a Go duration, which `time.ParseDuration` refuses when it does not fit. Left out are schemes (taken to
be supported ones) and the other originRequest values, which are converted one
by one.

### `Manager`: start-up, retries, zones

Several processes share a lock file. `Acquire` and `Verify` are main up to the
token check; then each attempt of each call of `getOrCreateTunnel` is a step:
`Get`, `List`, `Create`, or `Fail` for an attempt without effect, after which
`RetryOrGiveUp` computes the wait (`Backoff`, `Jitter`, Retry-After). `CreateLost`
creates a tunnel and loses the answer; `CatchUp` is a listing that lags;
`Crash` can happen anywhere. A running process looks up zones (`LookUp`, `Ask`)
while `Tick` lets time pass and `ChangeZone` moves zones. A candidate's look-up is
one step there, which answers or has given up: the retries inside are those of
start-up again. The answer and its entry in the cache are one step too; time that
passes between them is within the unit of slack that `ZoneIsRecent` has.

### `Persistence`: save and load

The state is a version number. A save is `Begin`, `Snapshot` (before `saveMu`),
`Lock`, `Rotate` (the rename to a backup), `Prune` for each backup that is removed,
`Pruned`, `Open`, `Write`, `Rename`, `Clear` (after `saveMu`), by the ticker or by
main. The temporary file `tmp` is on disk too, and shared: `Open` truncates it, so
that it does not decode until `Write` has filled it, and `Rename` promotes whatever is
in it. `RotateFails`, `PruneFails`, `SaveFails`, `Damage` and `Crash` can happen in
between; `Crash` restarts with what `Load` finds. A backup's name has a resolution
of one second, so `Rotate` may overwrite the newest backup. `keep` counts the backups
that pruning passes over: `backupCount`, and those it could not remove. `DefaultPath`
says whether saves go to the path that `LoadState` reads. The minimum interval
between saves is left out, since it only removes behaviours.

### `StateStore`: what persistence promises

A front copy and further ones. A save puts in front a state that the controller
was in during that save; the front copy may be set aside (`SetAside`), and older ones
dropped one by one (`Thin`), but not the one that was set aside last (`AsideIsKept`). A restart continues with the front copy,
or with a sound older one if that is damaged; if nothing is in front (the window of
`state_load`) it may start empty, and it never continues with what was not saved.
There is no lock, temporary file, file name or order of backups.
`ImplementsStateStore` instantiates it with `front <- file`, with the newest backup as
`aside`, the versions of all files as `copies`, and with a saver's snapshot between `Snapshot` and `Rename` as
`taken`; it is checked in `state_save` and proved in `PersistenceProofs`.

## 3. Runs

| Run | Instance | Shows |
|---|---|---|
| `dns_batches` | two hosts in one zone, a second zone, batches of one, users write foreign records | `Converged`, `NoForeignHarm`, `TypeOK` |
| `dns_tunnels` | one host, two tunnels, every spelling, Reconcile, fair | `Converged`, `DeletesOnlyRouted`, `NoForeignHarm`, `LiveDeleteIsResynced`, `SettlesDown` |
| `dns_claimed` | two hosts in two zones, users also point at the tunnel | violated: `DeletesOnlyClaimed` |
| `routes_rebuild` | three containers, four services that contend for one route | `RebuildIsExact`, `TypeOK` |
| `routes_settle` | two containers, two paths of one host, fair | `Settles`, `RetentionEnds`, `RebuildIsExact` |
| `routes_unhealthy` | one retained container | violated: `UnhealthyUnroutes` |
| `routes_noreconcile` | one container, `reconcileEnabled` off, fair | violated: `RetentionEnds` |
| `worker_cycle` | 3 versions, 2 failures, 2 retries, queue of two with dead records at the start, fair | `FlushIsTruthful`, `EveryChangeIsTried`, `FlushReturns`, `FailureIsRetried`, `ImplementsRulePush`, `TypeOK` |
| `state_save` | 3 mutations, 2 faults, 2 backups, 2 savers | `SomeCopySurvives`, `CopiesAreComplete`, `UndisturbedSaveIsExact`, `ImplementsStateStore`, `TypeOK` |
| `state_load` | 2 mutations, 1 backup, no faults | violated: `LoadRecovers` |
| `labels_parse` | two services of 9 kinds, two routers of 13 kinds, two networks, other containers' routes | `MergeIsExact`, `NotWider`, `RebuildAgrees`, `RetentionHonoured`, `TypeOK` |
| `manager_startup` | two processes, two tunnel IDs, 4 attempts per call, the apex of a zone and a host below it, fair | `OneTunnel`, `WaitInRange`, `ZoneIsRecent`, `StartEnds`, `TypeOK` |

Every property of a passing run is also checked against a mutant of the model,
an operator named `<definition>_<what is wrong>` just before the definition it
varies; none of them is part of any specification.

### Bounds, and why they are enough

* `DnsSync` has no counters, so its runs are complete for their constants. Two
  hosts in one zone with `MaxBatch` 1 put a failure, an edit or a crash between
  two batches; two tunnels give a ledger with entries of an older one. Hosts
  interact only through shared zones and batches, so a third adds no case; as the
  two hosts play the same part in `dns_batches`, they are symmetric there. Reconcile
  acts in `dns_tunnels`, where one host is enough for rules that change between the
  two reads of a cycle, or stay untold. All safety properties of the passing runs are proved for any hosts and zones.
  (This goes for the other modules too: section 4.)
* `Routes` bounds the outside world by `Budget`, the number of starts, stops,
  health changes, reconnects, restarts and failed scans; the goroutines
  themselves are not bounded. Two of these on top of any initial set of running
  containers reach the interleavings the hazards name (a stop during a rebuild,
  a restart after a lost event). `routes_rebuild` was also run with `Budget` 3
  (2.4 million states) without an error. A channel of 2 fills up. Three
  containers are the least for which the exception of `retainedKeys` matters:
  one retained, one that takes its route, one that is accepted in part.
* `SyncWorker`: three versions are the start-up rules, one change and the
  clean-up; with two failures and two retries a record dies. In a queue of two a
  failure is enqueued beside a dead record, and with two dead ones it is refused.
* `Persistence`: with three mutations and two savers the older snapshot can be
  written last. With two backups a rotation within the same second overwrites one
  and leaves the other, a load can walk past a damaged backup to a sound one, and two
  faults leave two backups too many. A crash while pruning counts as a fault, since
  each may add a backup; other crashes are not bounded. All five properties are
  proved for all bounds.
* `Labels`: two services and two routers are the least with a conflict between
  two of a kind and between the kinds; the kinds meet every branch of the code.
  With a day of 3 and 5 bits a retention of 9 days overflows, and a duration of 16
  is refused. Start, rebuild and
  Reconcile parse the labels as often as they like.
* `Manager`: two processes contend for the lock, and a crash lets the second meet
  what the first has left. With 4 bits, `RetryDelay` 2 and 4 attempts the doubled
  delay overflows. `TTL` 2 lets an entry age, expire and be renewed.

The cfgs turn deadlock checking off where the system may come to rest: after
shutdown (`worker_cycle`), with no ticker (`routes_noreconcile`) and between
cycles in `DnsSync`.

### Fairness

Weak fairness on a goroutine's next step says that it is scheduled and that the
call it is in returns; API calls are bounded in attempts (`callWithRetry`) and
time (contexts), but may fail. In `DnsSync` it is on `Cycle \/ FailCycle`, so
nothing forces a success; on `Trigger`, since a handler that has changed the rules
goes on to its trigger; and on `ReconcileCompare` and `Persist`, the work of main's
tickers, the first with the assumption that `GetConfiguration` does not fail for ever. Strong fairness is used twice: on the two cases of the
ticker's `select`, which are ready infinitely often but not all the time, and on
the blocked channel send of `FlushSync`, which the Go runtime serves in FIFO
order. No failure, event or user action has to happen. `FlushReturns` holds
without the deadlines of the contexts while the worker lives; once it is gone, a
call ends because its context is cancelled or expires, and there the fairness
is on `FlushTimeout`. `StartEnds` has weak fairness on the steps of a process: the
HTTP client has a time limit (30 s) and every wait between attempts is finite.

### Disagreements between code and documentation

1. `dns_claimed`: `RecordManagedDNS` also records hosts that the upsert left alone
   because somebody else owns the record. If the owner later points it at the
   tunnel, it is deleted, though README.md:24 says that only records written or
   adopted by the controller are.
2. `routes_unhealthy`: a container that starts again while its own rule is
   retained is refused as a duplicate of itself; `containerRules` does not know
   it, and an unhealthy event then removes nothing.
3. `routes_noreconcile`: with `reconcileEnabled: false` the ticker goroutine
   evaluates `reconcileTicker.C` on a nil ticker and ends; nothing is collected or
   periodically saved.
4. `state_load`: a crash or write error between rotation and rename leaves only
   backups, and `Load` tries backups only when the state file exists and does
   not decode.

Properties make room for the following, which the code does and no run reports:

* Untold rules. Reconcile installs rules first (reconciler.go:70) and returns without a
  trigger when `GetConfiguration` fails (78-83). Until a later run gets an answer,
  rules and live configuration differ and no cycle is wanted: `Converged` then speaks
  of the configuration (`untold`), and `SettlesDown` has the later run.
* Split cycles. A cycle reads the rules for the configuration (syncer.go:87) and again
  for DNS (142). If Reconcile installs rules in between and a later Reconcile puts the
  old ones back, configuration and rules agree, nothing is triggered, and the DNS
  records stay those of the rules in between until some rule changes ("split" in
  `round`). Reconcile also compares `desired.rules` after it has installed that map,
  without `c.mu`, while handlers edit it; what such a comparison may yield is covered
  (a trigger too many by `ChangeRules`, one too few as a failed comparison), a crash of
  the Go runtime on concurrent map access is not.
* Unhealthy containers. A health event takes the route away (handlers.go:271), but no
  health is kept, and the next rebuild gives the route back, although
  docs/superpowers/specs/2026-06-12-docker-reconnect-health-monitoring-design.md
  filters containers by health (line 50; line 123: "service only exposed when healthy"). `RebuildIsExact` and `Settles`
  count either as exact where an unhealthy container has a route at stake (`sick` in
  `Exact`), so they neither demand nor exclude the exposure.
* TCP middlewares. README.md:340 says that routers which reference middlewares are
  rejected; `populateTCP` ignores the field (traefik.go:386-398) and the router is
  published (`LosesMiddlewares` in `NotWider`).
* Surplus backups. A crash between the rename to a backup and its pruning
  (persistence.go:406, 437), or a backup that cannot be removed, leaves more than
  `backupCount`, until a later rotation prunes them (`TypeOK` of `Persistence`).
* Crowded host names. "On hostname conflict, docktunnel labels take priority"
  (parse.go:18), but `traefikByHostname` keeps one key per host name: if two routers
  have a host name that a docktunnel service wants, one of them, in map order,
  stays. `MergeIsExact` and `RebuildAgrees` except exactly these.
* Lost paths. `pathRegex` does not match an unquoted path or a clause with several
  paths, although `validateTraefikRule` accepts both, and the route then covers the
  whole host (`LosesPath` in `NotWider`).
* A service without a host name makes a start event refuse the container, while
  a rebuild sets only that service aside (`RebuildAgrees`).
* A partial listing counts as complete (tunnel.go:721) and is left to the next
  reconcile, which does not look at DNS: the records it missed stay until a rule
  changes (`missed` in `Converged`).
* A look-up takes the most specific candidate that is cached, so a zone that was
  created since below a cached one is not seen before the entry expires
  (`ZoneIsRecent` speaks of the zone of the candidate that was found).
* A creation whose answer is lost is repeated, and a listing may lag behind a
  creation: either can give a second tunnel of the name (`unsure` in `OneTunnel`).
  A configured tunnel ID that cannot be read, for whatever reason, falls back to
  a tunnel of the name, hence the condition on `tunnelID` there.

## 4. Proofs

Every safety property of every passing run is a theorem: invariants, action
properties and the two refinements. All are proved from the assumptions next to
the constants: `DnsAssumption` (hosts have zones, tunnels and `Foreign` differ),
`RoutesAssumption` (services have an owner and a route, and no container declares
a route twice, which the validators see to), `WorkerAssumption` and
`PersistenceAssumption` (bounds are natural numbers), `ManagerAssumption` and
`LabelsAssumption` (types, that lower case is lower case, that the arguments of a
Host clause are host names and those of a Path clause paths). No finiteness is
assumed.

* **`NumberLemmas`.** What several proofs need about numbers. `LeastNumber` takes the
  place of induction: it quantifies over sets instead of operators, so that the
  least counterexample can be named and refuted. `PowerIsCount` and `PowerDoubles`
  give the provers, which know no exponents, powers of 2 as numbers of subsets;
  `WrapFits` and `WrapRange` say what wrapping at a width does.
* **`DnsSyncProofs`.** `TypeCorrect`. The action properties are not consequences
  of the types, since they speak of what an earlier step of the cycle has found.
  Each rests on an inductive invariant of its own:
  `RoutedInv` (the ledger, its copy on disk and everything planned for deletion
  consist of hosts that have had a rule) gives `DeletesOnlyRoutedHolds`;
  `FreshInv` (a checked operation's record is still absent or ours, unless a user
  has touched it), with `PendingInv` (checked operations exist only in their own
  phase), gives `NoForeignHarmHolds`; `ResyncInv` (from its push on a cycle has pushed
  the present rules, read the host names it pushed, and deletes none of them, unless a
  cycle is wanted, owed or left to Reconcile, or the cycle is split) gives
  `LiveDeleteIsResyncedHolds`. `ConvergedHolds` needs `CycleInv`, which says phase by
  phase what an undisturbed cycle has established: the listing shows the records
  it reached, the plan covers every host that is not as it should be, deleted
  and upserted hosts are done, and the rest is still planned.
* **`RoutesProofs`.** `Accept` is a recursive function over the container numbers.
  That its equation has a solution (`SolutionExists`, `AcceptSolves`), what the solution
  contains (`SolutionBound`, `SolutionGrows`) and that it is therefore the set of
  services that the containers are entitled to (`AcceptFits`), which is unique
  (`FitsUnique`), all go by the least container for which it fails. `Entitled`, by which
  the property is stated without recursion, is thus what the code computes
  (`EntitledIsAccept`). `RebuildIsExactHolds` then rests on `QuietInv`, which follows an
  undisturbed rebuild: after the scan it knows what runs, after `Settle` only running
  containers have active entries, after `Merge` its rules are the ones due, and at the
  end they are in force and stay so. `TypeCorrect` covers all handlers.
* **`SyncWorkerProofs`.** `TypeCorrect` includes that a flusher in the channel or
  held is waiting and that the queue stays within its capacity; it needs
  `MainInv` (main flushes only at shutdown). `FlushIsTruthfulHolds` rests on
  `TruthInv`: a cycle with held flushers has read rules at least as new as they
  asked for (`ReadInv`), has pushed them if it ended without error (`EndInv`),
  and a closed flusher is still served when a later cycle overwrites `lastErr`,
  because versions only grow (`ClosedInv`). `ImplementsRulePushHolds` maps every
  action to a step of `RulePush` or a stutter; it needs `NewerInv` (a cycle about to
  push has read rules no older than the live ones), which makes a push a
  `Publish`, and `TruthInv`, which makes a return a `Return`.
* **`PersistenceProofs`.** `TypeCorrect` (mutual exclusion of the file operations
  and the limit on backups) and `SomeCopySurvivesHolds` from lemmas about rotation and
  removal (`RotateMoves`, `PruneRemoves` and those they rest on).
  `UndisturbedHolds` says what `saveMu` is for: the saver that renames finds its own
  complete snapshot in the temporary file, whatever was left there before. It gives
  `CopiesAreCompleteHolds` and, with `SoleInv`, which follows the undisturbed saver
  through its steps, `UndisturbedSaveIsExactHolds`. `ImplementsStateStoreHolds` maps
  every step of a saver, the file system or a restart to a step of `StateStore` or a
  stutter, with `RotateKeepsFront` (rotation keeps the file it sets aside and adds no
  version), `PruneRemoves` (a removal keeps the newest backup) and `FromBackupsFound` (the fall-back finds a sound backup if there is one).
* **`ManagerProofs`.** `TypeCorrect` includes mutual exclusion by the lock and the
  limit on attempts. `OneTunnelHolds` rests on `KnownInv`: while nothing is unsure, a
  process that is about to create has seen that there is no tunnel, and since it
  holds the lock there still is none. `ZoneIsRecentHolds` rests on `CacheInv`: a fresh
  entry is right, or its remaining time and the age of the change add up to at
  most the TTL. `WaitInRangeHolds` rests on `BackoffRange`: as long as the doubled delay
  fits into the width, the wrapped product is the product, positive, and cut at
  maxRetryDelay.
* **`LabelsProofs`.** `NotWiderHolds` from `OriginInv`, which traces every spec and
  rule that is not a docktunnel one to a router that was accepted, a host name of
  it and its path, and from `RouterNotWider` about one router. `MergeIsExactHolds`
  from `MergeInv`, which says stage by stage which specs the labels call for, and
  `MergeStep`, the merge itself. `TypeCorrect` and `RetentionHonouredHolds` from `TypeInv`,
  in which every key of a docktunnel rule names a service of the container and every
  entry's policy is that of its key, and from `RetentionPolicyRight` about one key.
  `RebuildAgreesHolds` from `AgreeInv`: labels that are not ambiguous determine what every
  stage yields, although the stages choose (`TeamChoice`, `RouterChoice`), so that all
  parses agree and the two consumers can be compared.

Only model-checked: liveness (`SettlesDown`, `Settles`, `RetentionEnds`,
`EveryChangeIsTried`, `FlushReturns`, `FailureIsRetried`, `StartEnds`), because TLAPS
handles neither fairness nor `ENABLED`.

## 5. Plan

Done: `DnsSync`, `Routes`, `SyncWorker` and `Persistence`, in the order of how much
of the system depends on them; `RulePush`, `StateStore` and the two refinements;
`Labels` and `Manager`; proofs of all safety properties. Next:

1. Compositions: `Routes` with `StateStore` (a restart that loads an older
   state instead of the last one) and `Routes` with `DnsSync` (a route of a running
   container has its record in the end).
2. `EventStream`: `ListenForEvents` with its back-off and its reset. `Health`: restart
   window, cooling, and their expiry. `Routes` has their effects as choices.

## 6. Not modelled

* The characters of labels: splitting keys, quoting, URL syntax, durations and
  flags of originRequest. `Labels` starts from what they mean to the code.
* The token bucket of the rate limiter, which only delays calls, and
  `DeleteTunnel`, which nothing calls.
* Configuration: defaults, environment and file are read once, before any state
  exists; the settings that matter are constants.
* `SaveJSON`, which nothing calls, and the fall-back to a .json file that
  nothing writes.
* The HTTP server, metrics, diagnostics, logging: they read copies of the state
  and change nothing.
