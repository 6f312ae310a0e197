# A verification of baaah in TLA+

baaah is a library for Kubernetes controllers in Go: a router calls the user's
handlers when objects change, calls them again when anything they have read
changes, and applies the objects they ask for. This directory holds TLA+ models
of its core, TLC configurations that check them, and TLAPS proofs.

Run a check with `tlc -workers 2 -config HandlerSet.cfg MCHandlerSet` (each run of
`PROJECT.json` names its module and its cfg) and a proof with
`tlapm HandlerSet_proofs.tla`.

## 1. Inventory

| part (source) | state | operations | what makes it hard |
|---|---|---|---|
| reconcile loop (`pkg/router/handler.go`, `handlers.go`) | watched kinds, rate limiters, sleeping replays, key locks | `onChange`, `handle`, `checkDelay`, `WatchGVK` | three forms of one key on one queue; keys dropped while a replay sleeps; errors that are requeued, swallowed or ignored |
| triggers (`trigger.go`, `matcher.go`) | matchers per target | `Register`, `Trigger`, `UnregisterAndTrigger`, `Match` | register, then read, while objects change; deletions unregister |
| request client (`client.go`) | none | reads and writes that register triggers | order of registration and read |
| controller (`pkg/runtime/controller.go`) | queue, keys kept for it, started flag, informer registration | `Start`, `run`, workers, `Enqueue*`, event handler | requests before there is a queue; a lock held while waiting; shutdown and restart |
| shared controllers, factory, backend (`sharedcontroller.go`, `sharedcontrollerfactory.go`, `sharedhandler.go`, `backend.go`) | controllers per kind, callbacks, four locks, started flags | `Watch`, `ForKind`, `RegisterHandler`, `Start` | nested locks; registration racing with the start; failures half way |
| router (`router.go`, `healthz.go`) | health flag | `startHandlers`, routes and filters | the flag's timing; selectors around finalizers |
| finalizers (`finalizer.go`) | none; the object's finalizer list | `FinalizerHandler.Handle` | stale copies, conflicts, lost answers, several finalizers |
| cached client (`cached.go`) | what the process wrote in the last ten seconds | `Get`, writes, purge | stores out of order; a stored pointer that the caller goes on to change |
| apply (`pkg/apply`) | labels and annotations on the objects | `Apply`: list, create, take over, patch, replace, prune | stale lists, one failing call of many, owners that share names, replacement in two steps |
| one run (`handler.go`, `handlers.go`, `save.go`, `response_wrapper.go`, `pkg/conditions`) | the object in memory, response attributes | `handle`, filters, `ErrorMiddleware`, `save` | objects changed in place, remembered by pointer, replaced by a route; several routes set one condition; terminal errors |
| handlers of a kind (`sharedhandler.go`, `transaction.go`) | a slice of handlers, registrations of a transaction | `Register`, removal, `OnChange`, `Commit`, `Rollback` | removal in place while the slice is iterated over |
| leader election (`pkg/leader`, `router.go`) | the lease, the health flag | `run`, callbacks, `startHandlers` | deadlines of a lease; callbacks in goroutines of their own |
| watcher (`pkg/watcher`) | revision reached | `bySelector`, `retryWatch`, `doWatch` | watches that end, are refused or forgotten |
| owner lookup (`desiredset_owner.go`, `pkg/handlers`) | none | `FindOwner`, `PurgeOrphan`, run by `GCOrphans` | an owner that comes back between the lookup and the deletion |
| channels | see the plan | | |
| multi-cluster clients, webhook, mapper, test harness, helpers | none, or pure data | | not modelled |

How they interact: an informer event puts a key on a controller's queue; a worker
calls `SharedHandler.OnChange`, which calls `HandlerSet.onChange` of every router
that watches the kind; that locks the key, reads the object through the cached
client and calls the routes. Their reads register triggers, which put *other*
keys on queues when the object changes. The objects they return go through
apply. Everything written comes back as an informer event.

What makes each part correct:

- loop: one run per object at a time; no change lost; no reader left with an
  answer that is out of date; convergence.
- controller: it is a set of due keys with a mutual exclusion (`KeyQueue`); it
  starts without deadlock and stops completely.
- start: nobody stuck on the nested locks; every registered callback is called.
- apply: owners keep their objects; convergence to what is wanted.
- finalizers: nothing is removed before its handler succeeded; finalizers of
  others stay; deleted objects go.
- cached client: what is remembered does not hide the truth for ever.
- one run: at rest, condition and objects are what the last run meant; a failed
  route loses no object; times of transitions are kept.
- handlers of a kind: nobody who is registered misses a change.
- leader election: one leader, soon a new one; who lost the lease goes.
- watcher: no change skipped or told twice; the call ends.

## 2. Modules

| module | models | composed of |
|---|---|---|
| `WorkQueue` | the client-go queue, from its use: dirty, processing, delayed, shut | |
| `ObjectLoop` | what the reconcile loop promises an object (abstract) | |
| `HandlerSet` | the reconcile loop, triggers, rate limiter and replays, workers | `WorkQueue`, `ObjectLoop` as a refinement |
| `KeyQueue` | what a controller promises (abstract) | |
| `Controller` | `controller.go` over its life, with a restart | `WorkQueue`, `KeyQueue` as a refinement |
| `Startup` | `startHandlers` down to `sharedController.Start`, for several routers | |
| `Apply` | `apply` and `process`, and `GCOrphans` while owners come and go | |
| `CacheClient` | `cacheClient` over one object, with the API server and other writers | |
| `Finalizer` | finalizing routes run by `onChange` | `CacheClient` |
| `Reconcile` | one run in detail: filters, routes, middleware, response, `ErrorHandler`, `save` | |
| `SharedHandler` | the slice of handlers, its array, transactions, `OnChange` | |
| `Leader` | `ElectionConfig.run`, its callbacks, `Router.Start`, the flag | |
| `Watcher` | `bySelector`, `retryWatch`, `doWatch` over a log of changes | |
| `HandlerSet_proofs`, `Controller_proofs`, `Leader_proofs`, `Watcher_proofs`, `Reconcile_proofs`, `SharedHandler_proofs`, `Startup_proofs`, `Finalizer_proofs` | theorems | the modules they name |
| `MC*` | instances for TLC | |

Definitions keep the source's names. `map` in `PROJECT.json` gives the lines each
one stands for.

**HandlerSet.** An object is a (gvk, key) pair; its value in the informer cache is
a version and one label. A worker's `pc` follows `processNextWorkItem`,
`syncHandler`, `onChange` (delay check, lock, get), the handlers (any number of
`Watch`, `Read` pairs), trigger, save, retry, unlock, finish. Each read of shared
state is a step of its own. What handlers write is part of the environment
(`Change`). The end of `handle`, with its `handleError(nil)`, is one step for every kind
(`RetryAfter`); kinds without handlers only pass over `save` and the delay. `reconciled`,
`asked` and `seen` are history variables: the state the handlers last ran with, and the
answers they got.

**ObjectLoop.** The same loop without keys, queues and workers: an object is owed a run,
is given to its handlers, is being saved. `HandlerSet` implements it for the objects
of kinds with handlers: `Owed` are those with a `PendingRun` in any form (an event, a
replay that sleeps, a key of any of the three forms, a worker before its get or about to
requeue), `Given` what the workers inside the handlers work on, `Saving` those between the
handlers and the return. Handlers may begin with an object that is out of date, but only
if the run stays owed. The first watch of a kind and every trigger are `Ask`.

**Controller.** `phase` follows `Start` and the goroutine `run`, `wpc` a worker
inside `wait.Until`. `current` is the field `c.workqueue`; workers and deferred
calls read it when the code does, which matters with a second `Start` (section 4).

**Startup.** A main and a handler thread per router; each lock is a set of its
holders. Objects are reduced to "some object of the kind is due".

**Apply.** An owner is the four annotations; its hash is their concatenation, as in
`objectSetHash`. An object has a content (fields, some of which cannot be
patched), the content last applied, the three annotations that steer apply, and a
deletion flag. A run lists, then works through its loops one API call at a time.
The compression and truncation of the applied annotation are abstracted: it holds
the content that was applied. `alive` and `heard` are the owners on the server and
in the informer cache. A deleted owner's run is `Absent`: `save` then applies with no
owner (`save.go:24`) and touches nothing, so that its objects are left to `GCOrphans`:
`FindOwner` is the lookup in the cache, `PurgeOrphan` the deletion by name, and in
between the owner may come back. `check` has the keys whose next run of `GCOrphans`
finds no owner; its other runs change nothing.

**CacheClient and Finalizer.** One object and one worker (its key is locked), with
other threads of the process, other processes and the informer around it.
`alias` says which of the worker's objects is the one `store` has kept a pointer
to, because the code goes on to change it. A call that writes may succeed, be
refused, fail, or take effect and fail.

**Reconcile.** `run.obj` is the object in memory that the routes share and `run.read`
the copy `save` compares with. `run.stored` says that the cached client remembers
`run.obj` itself, so that later changes to it change `recent`; `run.split` that a
route has replaced the object in its copy of the request, so that what later
routes change is not what is saved, and their filters look at what it asked for (`Shown`:
any of its labels, being deleted or not). An `Update` by a route (`RouteWrites`) changes the
spec, only the metadata, or nothing; its answer overwrites the object in memory each
time, and in the last case no event follows. `run.hidden` says that the object to be saved
does not show what the routes have found. A condition is its status, the route whose
error it tells, its generation, and whether its time is the server's. Applying is
one step with all outcomes (`Apply` has the rest), and the purge of the cached
client is left to `CacheClient`.

**SharedHandler.** `array` is the array behind the slice, `len` the slice's length,
`work[w].old` the array an iteration holds on to after `append` has made a new one.
`Move` overwrites one slot at a time, as the removal does with the lock held and
iterations going on. A slot that is read while it is written is the old or the new
entry. `shaken` is a history variable: the handlers an iteration may have passed
over.

**Leader.** The elector is client-go's and external: a record that is written by
compare and swap, deadlines by each replica's own clock, `OnNewLeader` in a
goroutine. Time is counted in quarters of the TTL, and a call of the API is
answered within the quarter it was made in. `exit 0` and `exit 1` are `os.Exit`;
a process that is over may be started again. Replicas have distinct host names.

**Watcher.** The server is a log; a revision is a place in it. `accepted` is a
history variable: the changes the callback was given and returned no error for.
Whether an event says Modified or Deleted is not told apart, nor does the code.

## 3. Runs

All runs take less than five minutes with two workers. Deadlock is not checked
where the bounds on inputs let the system come to rest.

| run | instance | shows |
|---|---|---|
| `HandlerSet` | one App, one Secret, two App workers (symmetric), one Secret worker, two versions, one error that is requeued or ignored, `RetryAfter`, a listing handler | `TypeOK`, `OneRunPerObject`, `NoLostChange`, `NoStaleDependent`, the refinement of `ObjectLoop` |
| `HandlerSetLive` | one worker per kind, `Get` by name, one error that is requeued or swallowed by an `ErrorHandler` | `NoLostChange`, `NoStaleDependent`, `Converges` |
| `Controller` | two keys, two workers, three inputs, one error, one run | the refinement of `KeyQueue`, and `TypeOK`, `DueIsServed`, `StartUnlocks`, `Stops` |
| `Startup` | two routers that handle one kind and read another, one failure of any sort | `TypeOK`, `HandlersCalled`, `NobodyStuck` |
| `StartupList` | the same with a failing list | violates `WatchedIsRegistered` |
| `Apply` | one App under two routers, where the second may take over; a stranger's Service whose type needs a replacement; a copy of the labels; fast and slow deletions; one input, which may be the owner's deletion | `TypeOK`, `OwnerKept`, `CopiesKept`, `Converges` |
| `Finalizer` | two finalizing routes, one behind a selector, a finalizer of others, an object that is new or was deleted while the process was away, two inputs | `TypeOK`, `CleanedFirst`, `ForeignKept`, `Finalized`, `Settles` |
| `Reconcile` | a wrapped route that asks for objects (its own included) and later runs; one without the middleware that also sees deleted objects and updates the one it is called for; a wrapped one behind a selector; one change of the spec, one faulty run; with and without an `ErrorHandler` | `TypeOK`, `ConditionTells`, `WantedIsThere`, `FailedKeepsObjects`, `TransitionKept` |
| `SharedHandler` | three handlers, one of them in a transaction, one key, one worker, two versions, one error | `TypeOK`, `NoMissedChange` |
| `Watcher` | two selected objects and another one, three changes, three faults | `TypeOK`, `NoGapNoRepeat`, `GoodEnds`, `CancelEnds` |
| `Leader` | two replicas, one crash or signal, TTL of four quarters | `TypeOK`, `OneLeader`, `SomeoneLeads`, `LeavesWhenOver` |
| `LeaderReady` | the same | violates `ReadyOnceStarted` |

**Why the bounds are enough.** The hazards are orders of few steps: a change while
a replay sleeps (two versions, one error); a request while `run` makes the queue
(one key, and a second for interference); a registration between the two halves
of a start (two routers). The two instances of `HandlerSet` share the outcomes of an error;
by name, the matchers of a deleted object are dropped (`trigger.go:119`), by kind they
stay. An object is not created again after its deletion, which takes a third version and
is in the theorems only. In `Apply` one input, added to the two initial wishes,
gives a change of mind, a drift, a failing call, a run without pruning or the
owner's deletion in every state of the two runs; the owner may come back, and
purges may fail, at any time. In `Finalizer` inputs are writes of others, deletions,
lost calls and failing handlers; the object that starts out deleted needs none of
them to have a history. `NoStaleDependent` also holds where both kinds have handlers and one
lists by label (`Queries <- QueriesSelector`, `Labels = {FALSE, TRUE}`, `Handled = {App, Secret}`,
`Workers = {w1, w3}`, `MaxRev = 3`, `MaxFails = 0`, `Outcomes = {"requeue"}`,
`Delays = {FALSE}`: 3.0 million states), and so do the safety properties of `Finalizer` with three
inputs (6.5 million states), outside the listed runs.
`SharedHandler` needs three handlers for one that stands before the one that is
removed and one behind it, and arrays of 1, 2 and 4 for an `append` with and without
room. In `Watcher` three changes give one before the list, one between two watches
and one of another object; three faults a closed watch, a refused one and a
conflict. In `Leader` the TTL is the smallest for which the three durations differ.
In `Reconcile` the route that updates the object stands between the two that set the
condition, the second of which need not be called: an update comes before, between and
after. A faulty run may have any number of failures; the next run is then
sound, or follows a conflict, which is none of the bounded faults.

**Exceptions in the properties.** `NoStaleDependent` is about the objects that trigger whoever
asked (`Triggers`): not those that a selector does not match any more, which
`ReadersAreTriggered` includes, nor those of handled kinds whose runs may end with
ErrIgnore. `NoMissedChange` excepts handlers that stood behind
one whose removal moved them while the key was handled: those really may be passed
over, until the next event. `ConditionTells` excepts runs in which a route returned
after one that had asked for the object itself: the replaced object is the one it
sets the condition of, and nobody saves it (`handlers.go:57`). It also excepts runs in
which a route made an `Update` that changed nothing after another one had set the condition,
unless one set it again: in them the condition is lost (section 4). `WantedIsThere` and
`ConditionTells` except errors an `ErrorHandler` took. `TransitionKept` excepts runs
that were handed, by the cached client, an object whose new status was never saved.

**What the violations say.** Both disagree with a line of the repository that
`findings` quotes: a list error that is reported as success (`StartupList`), and a
flag that is computed when the call is deferred (`LeaderReady`).

**Fairness.** Weak fairness of goroutines that can go on, of the queue's timers and
of the informer's delivery: the Go scheduler and client-go guarantee them. Strong
fairness where a thread needs a mutex others take again and again: Go's mutexes
hand over to a waiter that starves. Handlers return. Nobody has to start or
cancel anything, to change objects, or to purge the cached client (`Settles` holds
without the purge). In `Apply`, `ResyncSpec` adds the informer's resync, which
controller-runtime does every ten hours unless told otherwise and whose events
`controller.go` does not filter out; `EventSpec` is the same without it. A purge is
retried until it succeeds (strong fairness), since `GCOrphans` returns its error. In
`Finalizer` others remove their finalizers from deleted objects. In `Watcher` the
server sends what it has and a `select` does not pass over a done context for ever
(strong fairness, since Go picks among ready cases at random). In `Leader` clocks
tick, electors try in time, and processes that are over are started again, as a
Deployment does.

## 4. Disagreements that are not among the runs

Met while modelling, and reproduced by the configurations named here. Each is a
property of the modules and a listed instance with other constants.

- `Controller` with `MaxRuns = 2` violates `QueueReleased`: a second `Start` may replace
  the queue before the deferred `ShutDown` of the first run (`controller.go:152`)
  reads `c.workqueue`, so that the first queue is never shut down.
- `Startup` with `Failures = {"start"}` violates `ReadyWhenStarted`, for the reason of
  `LeaderReady` and because all routers file their flag under one name
  (`router.go:206`).
- `HandlerSet` with `Queries <- QueriesSelector` and `Labels = {FALSE, TRUE}` violates
  `ReadersAreTriggered`, which is `NoStaleDependent` without the condition `Triggers`: an
  object that is deleted or loses its labels does not match the selector
  (`matcher.go:47`) and triggers nobody who has listed it. `README.md` of the repository
  promises triggers for everything the client has read.
- `Apply` with `Owners <- AppsDef`, `Options <- AppOptions`, `Strangers = {}` violates `OwnerKept`: names of
  owners are hashed without separators (`desiredset_apply.go:186`), so that `a` in
  namespace `bc` and `ab` in `c` are one owner.
- `Apply` with `Owners <- AloneDef`, `Strangers <- OtherType`, `MaxInputs = 2` and
  `EventSpec` violates `Converges`: the deletion of a replaced object unregisters the
  matcher (`trigger.go:119`). If the owner now wants nothing, and its next run lists
  before the cache has heard of the new object, only the informer's resync makes
  it prune that object.
- `Leader`: `OnNewLeader` is called in a goroutine and may set the flag FALSE after
  `startHandlers` has set it TRUE (`router.go:196`). `ReadyOnceStarted` is violated by
  that too, on a longer trace than the one the run shows.
- `OwnerKept` fails for an object nobody owns that two owners want and may patch: both
  read it and both patch it, without a resource version (`desiredset_compare.go:236`).
  In the run such an object takes a replacement.
- `Finalizer` with `Refresh = {TRUE}` violates `ForeignKept`: `finalizer.go:66` takes the
  rest of the finalizers from the older copy and writes it with the newer version.

Seen in the code and modelled as it is, with no property about it:

- a condition is lost if a route, after another has set it, makes an `Update` that changes
  nothing: the answer puts the old status back into the object, `save` sees no change
  (`save.go:42`), and since the version stays no event brings another run;
- the `ErrorHandler` is called with nil at the end of a run even if it took an
  error of the same run before (`handler.go:342`), so that the error state it is to
  clear according to `types.go:24` is the one it has just set;
- a condition set by a route that comes after one that asked for the object itself
  is lost (`handlers.go:57`);
- objects of a route whose error the `ErrorHandler` took, and which asked for nothing,
  are pruned; only terminal errors of the middleware disable that;
- `RetryAfter(0)` of a later route takes back the delay an earlier one asked for
  (`handler.go:369`);
- ErrIgnore of one handler makes a run count as done without triggering
  (`sharedhandler.go:68`);
- two processes with one host name take each other's lease for their own
  (`router.go:181`).

Seen in the code and not modelled: `registration` is not reset when a controller
ends, so a second `Start` adds no event handler (`controller.go:191`); the first
error of `initController` is kept for good (`sharedcontroller.go:73`); a
`Backend.Watch` that fails after `RegisterHandler` registers the callback again
when it is repeated (`backend.go:131`).

## 5. Proofs

For all values of the constants, from the named assumptions on them (types only), and
where a theorem has a hypothesis of its own it is named here:

- `TypeCorrect`: the loop's types.
- `MutualExclusion`: from `Exclusive`, that busy workers have different items, all of
  them in processing, and that a worker inside the critical section owns the lock
  of its object.
- `ChangesAreNotLost`: `NoLostChange` is not inductive, since a worker that is about
  to run the handlers may hold an old object. `Shape` ties a worker's `pc` to the
  form of its key; `ParamFresh` says that an object `syncHandler` read is the cached
  one or a new event is behind it; `RunFresh` says that handlers that work on an
  object that is out of date will run again.
- `DependentsAreNotStale`: for queries by name, by kind and by selector. `Registered` adds
  that what a run has asked for, or is about to read, has a matcher and a watched kind, or
  the target is to run again. `AnnounceFresh` is what selectors need: a run that is to
  invoke the triggers with an object that is out of date by then, and may not match any
  more, has another one behind it that will invoke them with the new object (`AnnounceKept`).
- `LoopIsObjectLoop`: the refinement, from the invariant of `ChangesAreNotLost`. `LoopStep`
  names the steps that begin or end a part of an object's run. All others are `Quiet`
  (`QuietSteps`), and since pending work is kept (`PendingKept`) they amount to a `Change` or
  to an `Ask` for whatever is owed in addition. In a `LoopStep` the one worker that holds the
  object decides its part of the abstract state (`LoopStepState`) and leaves what is owed to
  others alone (`LoopStepOwed`); that handlers given an old object leave the run owed is
  `RunFresh` after the step.
- `ControllerIsKeyQueue`: under `StartedOnce`. `QueueInv` says that
  the queue of the run is the current one from its making on, that keys are kept
  for it only before, and when it is shut; `WorkInv` that the workers' keys are the
  ones in processing, each with one worker. `RefinementStep` maps every step to a step of
  `KeyQueue` or a stutter. `ControllerTypes` is the part about types.
- `LeaderTypes`, `NeverTwoLeaders`: for any replicas and any TTL of at least four units
  (`LeaderAssumption`). `Durations` says that the last attempt of a leader to renew is
  over before others may take the lease. `LeaseInv` says that a leader holds the
  record, and that whoever else has seen the record since is a candidate that has
  not watched it for longer than the leader has not renewed it.
- `WatcherTypes`, `NothingSkipped`: for any objects, changes and faults. `TypeOK` is split
  into `Numbers`, where revisions lie between the list's and the server's, and
  `Control`; `Before` says that nothing is accepted before there is a list;
  `ValueAtType` types the value of an object at a revision (`LargestOf`, `SmallestOf`: a
  set of numbers with a bound has an extreme element).
- `RunTypes`, `FailuresKeepObjects`: for any routes in any order, any bounds, with or
  without an `ErrorHandler`. `Links` ties pruning to the terminal errors of the routes
  (`setter.go:99`) and the cached client's pointer to the run's object; only `ApplyObjects`
  and `ApplyFails` take objects from the owner, and only what `Prunes` has (`LosesPruned`).
- `ConditionsTell`, `AskedForIsThere`, `TransitionTimes` of `Reconcile`, with routes that may
  update their object, to an effect or to none, from `Facts`: no copy
  of an object is newer than the server's, and one of the informer's with the same
  version is the same (`Versions`); a condition with the server's time has the server's
  status, and one with another time has another status unless the run was given it so
  (`Times`); a run since whose beginning nothing happened knows the object as it is, and
  its condition tells what the routes so far have returned, unless that is hidden from
  `save` (`Told`); the routes are called
  in order (`InOrder`), and what they asked for is made before the owner's status is
  written (`Made`).
- `SliceAndIterations`, `NobodyMissesAChange`: for any handlers, transactions, objects and
  workers. `SliceInv` says what the slice holds at every step of a removal: each handler
  that is not cancelled, once, apart from the slot that is to be overwritten; `WorkInv`
  that a worker finds handlers only in the part of the array that it reads. `OneWorker`
  gives a key to one worker; `Current` says that a worker has the last version of its
  object or the key is queued again; `MovedAreShaken` that a handler which a removal may
  hide from an iteration is in `shaken`, whose calls the property leaves out, or has seen
  the object; `SeenOrAhead` that any other has seen it or is ahead of the worker.
- `LocksAreHeld`, `OneAtATime`, `NobodyMissesAnObject`: for any routers, kinds and failures.
  `Locks` and `StartLocks` say in which sections a thread holds which lock, and that it is
  there alone (`Exclusion`). `Controllers`, `Unwatched` and `WatchedRuns` follow a kind from
  no controller to a running one; `CallsToCome` says that a callback of a running
  controller was called, or has an object queued or about to be.
- `OneRemembered`, `CleanedBeforeGone`, `OthersFinalizersStay`: the last two under
  `TRUE \notin Refresh`, that a handler does not read its object again into the pointer it was
  given; with one that does, `ForeignKept` is false (section 4). What carries them is
  `Covered`: a copy of the server's version, wherever the process keeps it, lacks none
  of the server's finalizers but those whose handlers have succeeded, so that a write
  from it removes only these, and one from an older copy is refused. `Aliases` says when
  the object the worker has in hand is the remembered one; `Turns` that a route that
  writes is the one of the next finalizer; `Versions` that no copy has a version that the
  server has not given out.

The proofs share lemmas about the queue's operators (`AddFacts`, `QueueFacts`,
`QueueOps`) and about which steps change which variables (`WorkerSteps`,
`HistorySteps`, `OthersKept`, `RequestSteps`), one case per action.

Only model-checked: everything about liveness (`Converges`, `DueIsServed`, `Stops`,
`StartUnlocks`, `NobodyStuck`, `Finalized`, `Settles`, `SomeoneLeads`, `LeavesWhenOver`,
`GoodEnds`, `CancelEnds`), which needs fairness and ENABLED, and all of `Apply`. Its
`OwnerKept` and `CopiesKept` are no theorems for all values of the constants: a patch has
no resource version, and which owners may meet at an object that nobody owns, or that
somebody gave copied labels, depends on `Options`, `Strangers` and `ValidOwnerChange`. What
the run checks of them is for the owners of `MCApply`.

## 6. Not modelled

- field selectors as distinct from label selectors, namespaces, owner references,
  several versions of one kind, `Ensure`;
- failures that leave a callback registered twice, `Preload`, the restart of a shared
  controller, cancellation in `Startup`;
- objects that the handlers of a deleted owner ask for, which `save.go:24` applies with
  no owner; routes for one name or namespace; routes that write a copy of the object they
  asked for, or write the status themselves;
- `GetOrCreate`, `WatchGVK` of kinds that `save` finds in a response, `multi`, `mapper`,
  `webhook`, `tester`, `yaml`, `merr`, `name`, `restconfig`: delegation, conversion and
  wiring, without state that outlives a call;
- wording, logging, timing: a rate limiter may admit or postpone, a timer may fire
  whenever it is set. Two comments disagree with constants nearby (`handler.go:203`
  "once every 15 seconds" for a limiter of one in five; `router.go:72` "TTL of 15
  seconds" for a minute in `leader.go:18`); nothing depends on them.

## 7. Plan

In order of importance:

1. done: `HandlerSet`, `Controller` with `KeyQueue`, `Startup`, `Apply`, `Finalizer` with
   `CacheClient`, and the proofs of the first two.
2. done: `Watcher`, `Leader` with the health callbacks, `SharedHandler` with
   transactions, `Reconcile` with the filters, conditions and `save`.
3. done: deleted owners and `PurgeOrphan` in `Apply`. To come: several versions of one
   kind, and objects that a deleted owner's handlers ask for.
4. `GetOrCreate`, and the channels of `pkg/typed` (`Debounce`, `Tee`).
5. done: theorems for every safety property that the passing runs check, but those of
   `Apply`; the refinements of `KeyQueue` and `ObjectLoop`.
