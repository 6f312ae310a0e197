------------------------------ MODULE Startup ------------------------------
(***************************************************************************)
(* How routers come up and how kinds come under watch: Router.startHandlers*)
(* with its health flag, HandlerSet.Start and WatchGVK, Backend.Start and  *)
(* Watch, sharedControllerFactory.Start and ForKind, sharedController's    *)
(* initController, RegisterHandler and Start, with the locks they nest.    *)
(*                                                                         *)
(* Several routers may share a backend.  A router has a main thread, that  *)
(* starts it, and a handler thread, that watches further kinds when the    *)
(* router's handlers are called.  Of the objects of a kind only this is    *)
(* kept: some object is due for a call of the handlers (due).  Contexts    *)
(* are not cancelled here; Controller.tla is about that.                   *)
(***************************************************************************)
EXTENDS Naturals

CONSTANTS
  Routers,
  Kinds,
  Handled,    \* [Routers -> SUBSET Kinds]: handlers.GVKs()
  Needs,      \* [Routers -> SUBSET Kinds]: what its handlers ask the client for
  Failures,   \* what may fail: "index", "new", "list", "start"
  MaxFails    \* bound: failures

ASSUME StartupAssumption ==
  /\ Handled \in [Routers -> SUBSET Kinds]
  /\ Needs \in [Routers -> SUBSET Kinds]
  /\ Failures \subseteq {"index", "new", "list", "start"}
  /\ MaxFails \in Nat

Main(r)    == <<r, "main">>
Handler(r) == <<r, "handler">>
Procs      == Routers \X {"main", "handler"}

VARIABLES
  pc,              \* where each thread is
  todo,            \* kinds it still has to watch, or to start
  kind,            \* the kind it works on, as a set
  errs,            \* threads whose WatchGVK has met an error
  watching,        \* HandlerSet.watching of each router
  watchingLock,    \* routers whose watchingLock is held
  startedLock,     \* Backend.startedLock, write locked by these routers
  backendStarted,  \* Backend.started
  controllerLock,  \* factory.controllerLock, write locked by these routers
  controllers,     \* factory.controllers: kinds with a sharedController
  startLock,       \* kinds whose sharedController.startLock is held
  inited,          \* kinds with sharedController.controller set
  broken,          \* kinds with sharedController.startError set
  started,         \* kinds with sharedController.started
  registered,      \* <<router, kind>>: callbacks in the SharedHandler
  informers,       \* kinds with an informer
  cacheRunning,    \* cache.Start has been called
  synced,          \* kinds whose informer has synced
  due,             \* kinds with an object on the work queue
  called,          \* <<router, kind>>: callbacks that have been called
  healthy,         \* healthz.healths[""], see StartHandlers
  fails            \* failures so far

threads == <<pc, todo, kind, errs>>
set     == <<watching, watchingLock>>
backend == <<startedLock, backendStarted>>
factory == <<controllerLock, controllers>>
shared  == <<startLock, inited, broken, started, registered>>
cache   == <<informers, cacheRunning, synced>>
calls   == <<due, called>>
vars    == <<threads, set, backend, factory, shared, cache, calls, healthy, fails>>

Init ==
  /\ pc = [p \in Procs |-> "idle"]
  /\ todo = [p \in Procs |-> {}] /\ kind = [p \in Procs |-> {}] /\ errs = {}
  /\ watching = [r \in Routers |-> {}] /\ watchingLock = {}
  /\ startedLock = {} /\ backendStarted = FALSE
  /\ controllerLock = {} /\ controllers = {}
  /\ startLock = {} /\ inited = {} /\ broken = {} /\ started = {} /\ registered = {}
  /\ informers = {} /\ cacheRunning = FALSE /\ synced = {}
  /\ due = {} /\ called = {}
  /\ healthy = TRUE
  /\ fails = 0

Goto(p, next) == pc' = [pc EXCEPT ![p] = next]

Failing(what) == what \in Failures /\ fails < MaxFails /\ fails' = fails + 1

---------------------------------------------------------------------------
(* The cache and the controllers that run.                                 *)

Sync(k) ==
  /\ cacheRunning /\ k \in informers \ synced
  /\ synced' = synced \cup {k}
  /\ UNCHANGED <<informers, cacheRunning, threads, set, backend, factory, shared, calls,
                 healthy, fails>>

\* A worker calls the callbacks that are registered with an object.
OnChange(k) ==
  /\ k \in started \cap due
  /\ due' = due \ {k}
  /\ called' = called \cup {c \in registered : c[2] = k}
  /\ UNCHANGED <<threads, set, backend, factory, shared, cache, healthy, fails>>

---------------------------------------------------------------------------
(* WatchGVK, by the main thread or by a handler.                           *)

\* startHandlers, HandlerSet.Start: not ready until everything is started.  The
\* flag is filed under the name of the router's own RouteBuilder, which is "" for
\* every router.
StartHandlers(r) ==
  LET p == Main(r) IN
  /\ pc[p] = "idle" /\ r \notin watchingLock
  /\ healthy' = FALSE
  /\ watchingLock' = watchingLock \cup {r}
  /\ todo' = [todo EXCEPT ![p] = Handled[r] \ watching[r]]
  /\ Goto(p, "watch")
  /\ UNCHANGED <<kind, errs, watching, backend, factory, shared, cache, calls, fails>>

\* triggers.Register in a call of the router's handlers.
WatchNeeds(r) ==
  LET p == Handler(r) IN
  /\ pc[p] = "idle" /\ r \notin watchingLock
  /\ \E k \in Handled[r] : <<r, k>> \in called
  /\ watchingLock' = watchingLock \cup {r}
  /\ todo' = [todo EXCEPT ![p] = Needs[r] \ watching[r]]
  /\ Goto(p, "watch")
  /\ UNCHANGED <<kind, errs, watching, backend, factory, shared, cache, calls, healthy,
                 fails>>

\* Backend.Watch begins: factory.ForKind.  A kind with field selectors is to get
\* indexers, for which its informer is needed.
ForKind(p, k) ==
  /\ pc[p] = "watch" /\ k \in todo[p] /\ controllerLock = {}
  /\ controllers' = controllers \cup {k}
  /\ kind' = [kind EXCEPT ![p] = {k}]
  /\ todo' = [todo EXCEPT ![p] = @ \ {k}]
  /\ \/ Goto(p, "init") /\ UNCHANGED informers
     \/ Goto(p, "index") /\ informers' = informers \cup {k}
  /\ UNCHANGED <<errs, set, backend, controllerLock, shared, cacheRunning, synced, calls,
                 healthy, fails>>

\* A running cache hands out an informer once it has synced.
AddIndexer(p, k) ==
  /\ pc[p] = "index" /\ (cacheRunning => k \in synced)
  /\ Goto(p, "init")
  /\ UNCHANGED <<todo, kind, errs, set, backend, factory, shared, cache, calls, healthy,
                 fails>>

\* The kind stays unwatched.
AddIndexerFails(p, k) ==
  /\ pc[p] = "index" /\ Failing("index")
  /\ errs' = errs \cup {p}
  /\ kind' = [kind EXCEPT ![p] = {}]
  /\ Goto(p, "watch")
  /\ UNCHANGED <<todo, set, backend, factory, shared, cache, calls, healthy>>

\* initController takes startLock; New asks the cache for the informer.
InitController(p, k) ==
  /\ pc[p] = "init" /\ k \notin startLock
  /\ IF k \in inited
     THEN Goto(p, "register") /\ UNCHANGED <<startLock, informers>>
     ELSE /\ Goto(p, "new")
          /\ startLock' = startLock \cup {k}
          /\ informers' = informers \cup {k}
  /\ UNCHANGED <<todo, kind, errs, set, backend, factory, inited, broken, started,
                 registered, cacheRunning, synced, calls, healthy, fails>>

\* Here, too, a running cache lets New wait for its informer to sync.
NewController(p, k) ==
  /\ pc[p] = "new" /\ (cacheRunning => k \in synced)
  /\ inited' = inited \cup {k}
  /\ startLock' = startLock \ {k}
  /\ Goto(p, "register")
  /\ UNCHANGED <<todo, kind, errs, set, backend, factory, broken, started, registered,
                 cache, calls, healthy, fails>>

\* New fails: an errorController takes its place, for good.
NewErrorController(p, k) ==
  /\ pc[p] = "new" /\ Failing("new")
  /\ inited' = inited \cup {k} /\ broken' = broken \cup {k}
  /\ startLock' = startLock \ {k}
  /\ Goto(p, "register")
  /\ UNCHANGED <<todo, kind, errs, set, backend, factory, started, registered, cache,
                 calls, healthy>>

\* RegisterHandler, first half: SharedHandler.Register.
RegisterHandler(p, k) ==
  /\ pc[p] = "register"
  /\ registered' = registered \cup {<<p[1], k>>}
  /\ Goto(p, "enqueue")
  /\ UNCHANGED <<todo, kind, errs, set, backend, factory, startLock, inited, broken,
                 started, cache, calls, healthy, fails>>

\* Mutant: a controller that runs already is not asked for its objects again.
EnqueueNothing(p, k) ==
  /\ pc[p] = "enqueue" /\ k \notin startLock
  /\ Goto(p, "check")
  /\ UNCHANGED <<todo, kind, errs, set, backend, factory, shared, cache, calls, healthy,
                 fails>>

\* Second half: when the controller runs already, its objects are enqueued.
EnqueueAll(p, k) ==
  /\ pc[p] = "enqueue" /\ k \notin startLock
  /\ due' = IF k \in started THEN due \cup {k} ELSE due
  /\ Goto(p, "check")
  /\ UNCHANGED <<todo, kind, errs, set, backend, factory, shared, cache, called, healthy,
                 fails>>

\* The List of the objects fails: the handler's context is cancelled, which
\* removes the handler, and RegisterHandler returns nil.
ListFails(p, k) ==
  /\ pc[p] = "enqueue" /\ k \notin startLock /\ k \in started /\ Failing("list")
  /\ registered' = registered \ {<<p[1], k>>}
  /\ Goto(p, "check")
  /\ UNCHANGED <<todo, kind, errs, set, backend, factory, startLock, inited, broken,
                 started, cache, calls, healthy>>

\* Backend.Watch returns without an error.
Watched(p, k) ==
  /\ watching' = [watching EXCEPT ![p[1]] = @ \cup {k}]
  /\ kind' = [kind EXCEPT ![p] = {}]
  /\ Goto(p, "watch")

\* hasStarted waits for a Start that is under way.
HasStarted(p, k) ==
  /\ pc[p] = "check" /\ startedLock = {}
  /\ IF backendStarted
     THEN Goto(p, "start") /\ UNCHANGED <<watching, kind>>
     ELSE Watched(p, k)
  /\ UNCHANGED <<todo, errs, watchingLock, backend, factory, shared, cache, calls,
                 healthy, fails>>

\* sharedController.Start, up to the wait for the informer with startLock held.
StartKind(p, k) ==
  /\ pc[p] = "start" /\ k \notin startLock
  /\ \/ /\ k \in broken
        /\ errs' = errs \cup {p}
        /\ kind' = [kind EXCEPT ![p] = {}]
        /\ Goto(p, "watch")
        /\ UNCHANGED <<watching, startLock>>
     \/ /\ k \in started \ broken
        /\ Watched(p, k)
        /\ UNCHANGED <<errs, startLock>>
     \/ /\ k \notin started \cup broken
        /\ startLock' = startLock \cup {k}
        /\ Goto(p, "sync")
        /\ UNCHANGED <<errs, kind, watching>>
  /\ UNCHANGED <<todo, watchingLock, backend, factory, inited, broken, started, registered,
                 cache, calls, healthy, fails>>

\* The informer has synced and the controller runs; it hears of every object.
KindStarted(p, k) ==
  /\ pc[p] = "sync" /\ k \in synced
  /\ started' = started \cup {k}
  /\ due' = due \cup {k}
  /\ startLock' = startLock \ {k}
  /\ Watched(p, k)
  /\ UNCHANGED <<todo, errs, watchingLock, backend, factory, inited, broken, registered,
                 cache, called, healthy, fails>>

\* WatchGVK returns.  A handler that got an error is called again; an error of
\* HandlerSet.Start is the end of startHandlers, see Return.
WatchReturns(p) ==
  /\ pc[p] = "watch" /\ todo[p] = {}
  /\ watchingLock' = watchingLock \ {p[1]}
  /\ errs' = errs \ {p}
  /\ IF p[2] = "main"
     THEN /\ Goto(p, IF p \in errs THEN "failed" ELSE "lock")
          /\ healthy' = (healthy \/ p \in errs)
     ELSE Goto(p, IF p \in errs THEN "idle" ELSE "done") /\ UNCHANGED healthy
  /\ UNCHANGED <<todo, kind, watching, backend, factory, shared, cache, calls, fails>>

---------------------------------------------------------------------------
(* Backend.Start, by the main thread.                                      *)

LockStarted(r) ==
  /\ pc[Main(r)] = "lock" /\ startedLock = {}
  /\ startedLock' = {r}
  /\ Goto(Main(r), "copy")
  /\ UNCHANGED <<todo, kind, errs, set, backendStarted, factory, shared, cache, calls,
                 healthy, fails>>

\* factory.Start: start the cache, copy the controllers, release controllerLock.
Copy(r) ==
  /\ pc[Main(r)] = "copy" /\ controllerLock = {}
  /\ cacheRunning' = TRUE
  /\ todo' = [todo EXCEPT ![Main(r)] = controllers]
  /\ Goto(Main(r), "wait")
  /\ UNCHANGED <<kind, errs, set, backend, factory, shared, informers, synced, calls,
                 healthy, fails>>

\* cache.WaitForCacheSync, then controllerLock again.
CacheSynced(r) ==
  /\ pc[Main(r)] = "wait" /\ informers \subseteq synced
  /\ controllerLock' = {r}
  /\ Goto(Main(r), "loop")
  /\ UNCHANGED <<todo, kind, errs, set, backend, controllers, shared, cache, calls,
                 healthy, fails>>

\* Backend.Start returns.  The flag of the deferred setHealthy was computed when
\* it was deferred: err was nil then.
Return(r, next) ==
  /\ startedLock' = {} /\ controllerLock' = {}
  /\ kind' = [kind EXCEPT ![Main(r)] = {}]
  /\ healthy' = TRUE
  /\ Goto(Main(r), next)

\* sharedController.Start for one of the copied controllers.
StartController(r, k) ==
  /\ pc[Main(r)] = "loop" /\ k \in todo[Main(r)] /\ k \notin startLock
  /\ todo' = [todo EXCEPT ![Main(r)] = @ \ {k}]
  /\ \/ /\ k \in broken
        /\ Return(r, "failed")
        /\ UNCHANGED startLock
     \/ /\ k \notin broken /\ (k \in started \/ k \notin inited)
        /\ UNCHANGED <<pc, kind, startLock, startedLock, controllerLock, healthy>>
     \/ /\ k \in inited \ (broken \cup started)
        /\ startLock' = startLock \cup {k}
        /\ kind' = [kind EXCEPT ![Main(r)] = {k}]
        /\ Goto(Main(r), "loopsync")
        /\ UNCHANGED <<startedLock, controllerLock, healthy>>
  /\ UNCHANGED <<errs, set, backendStarted, controllers, inited, broken, started,
                 registered, cache, calls, fails>>

ControllerStarted(r, k) ==
  /\ pc[Main(r)] = "loopsync" /\ k \in synced
  /\ started' = started \cup {k}
  /\ due' = due \cup {k}
  /\ startLock' = startLock \ {k}
  /\ kind' = [kind EXCEPT ![Main(r)] = {}]
  /\ Goto(Main(r), "loop")
  /\ UNCHANGED <<todo, errs, set, backend, factory, inited, broken, registered, cache,
                 called, healthy, fails>>

\* Mutant: the early return forgets to unlock startLock.
ControllerFailsLocked(r, k) ==
  /\ pc[Main(r)] = "loopsync" /\ Failing("start")
  /\ Return(r, "failed")
  /\ UNCHANGED <<todo, errs, set, backendStarted, controllers, shared, cache, calls>>

ControllerFails(r, k) ==
  /\ pc[Main(r)] = "loopsync" /\ Failing("start")
  /\ startLock' = startLock \ {k}
  /\ Return(r, "failed")
  /\ UNCHANGED <<todo, errs, set, backendStarted, controllers, inited, broken, started,
                 registered, cache, calls>>

FactoryStarted(r) ==
  /\ pc[Main(r)] = "loop" /\ todo[Main(r)] = {}
  /\ controllerLock' = {}
  /\ Goto(Main(r), "last")
  /\ UNCHANGED <<todo, kind, errs, set, backend, controllers, shared, cache, calls,
                 healthy, fails>>

\* The second WaitForCacheSync; the router is up.
BackendStarted(r) ==
  /\ pc[Main(r)] = "last" /\ informers \subseteq synced
  /\ backendStarted' = TRUE
  /\ Return(r, "done")
  /\ UNCHANGED <<todo, errs, set, controllers, shared, cache, calls, fails>>

---------------------------------------------------------------------------
WatchStep(p) ==
  \/ \E k \in Kinds : ForKind(p, k)
  \/ \E k \in kind[p] :
       \/ AddIndexer(p, k) \/ AddIndexerFails(p, k)
       \/ InitController(p, k) \/ NewController(p, k) \/ NewErrorController(p, k)
       \/ RegisterHandler(p, k) \/ EnqueueAll(p, k) \/ ListFails(p, k)
       \/ HasStarted(p, k) \/ StartKind(p, k) \/ KindStarted(p, k)
  \/ WatchReturns(p)

StartStep(r) ==
  \/ LockStarted(r) \/ Copy(r) \/ CacheSynced(r)
  \/ \E k \in Kinds : StartController(r, k)
  \/ \E k \in kind[Main(r)] : ControllerStarted(r, k) \/ ControllerFails(r, k)
  \/ FactoryStarted(r) \/ BackendStarted(r)

Next ==
  \/ \E k \in Kinds : Sync(k) \/ OnChange(k)
  \/ \E r \in Routers : StartHandlers(r) \/ WatchNeeds(r) \/ StartStep(r)
  \/ \E p \in Procs : WatchStep(p)

Spec == Init /\ [][Next]_vars

\* Informers sync and threads run; a mutex does not starve a thread for ever.
\* Routers need not be started, nor handlers be called.
Fairness ==
  /\ \A k \in Kinds : WF_vars(Sync(k)) /\ WF_vars(OnChange(k))
  /\ \A r \in Routers : SF_vars(StartStep(r))
  /\ \A p \in Procs : SF_vars(WatchStep(p))

FairSpec == Spec /\ Fairness

---------------------------------------------------------------------------
(* Properties.                                                             *)

Pc == {"idle", "watch", "index", "init", "new", "register", "enqueue", "check", "start", "sync",
       "lock", "copy", "wait", "loop", "loopsync", "last", "done", "failed"}

\* Types; and the holders of the locks are the threads that are in the sections
\* the locks protect.
TypeOK ==
  /\ pc \in [Procs -> Pc]
  /\ todo \in [Procs -> SUBSET Kinds] /\ kind \in [Procs -> SUBSET Kinds]
  /\ errs \subseteq Procs
  /\ watching \in [Routers -> SUBSET Kinds]
  /\ watchingLock = {p[1] : p \in {q \in Procs : pc[q] \in {"watch", "index", "init", "new",
                                                  "register", "enqueue", "check", "start", "sync"}}}
  /\ startedLock = {r \in Routers : pc[Main(r)] \in {"copy", "wait", "loop", "loopsync", "last"}}
  /\ controllerLock = {r \in Routers : pc[Main(r)] \in {"loop", "loopsync"}}
  /\ startLock = UNION {kind[p] : p \in {q \in Procs : pc[q] \in {"new", "sync", "loopsync"}}}
  /\ backendStarted \in BOOLEAN /\ cacheRunning \in BOOLEAN
  /\ broken \subseteq inited /\ started \subseteq inited \ broken
  /\ inited \subseteq controllers \cap informers
  /\ controllers \subseteq Kinds /\ informers \subseteq Kinds /\ synced \subseteq informers
  /\ registered \subseteq Routers \X Kinds /\ called \subseteq Routers \X Kinds
  /\ due \subseteq started
  /\ healthy \in BOOLEAN
  /\ fails \in 0 .. MaxFails

\* Nobody misses an object: once its router is up, the handlers that are
\* registered for a kind have been called, or the controller of the kind runs
\* and has an object for them, in whatever order routers started, handlers asked
\* for further kinds and informers synced.
HandlersCalled ==
  \A r \in Routers : pc[Main(r)] = "done" =>
    \A k \in watching[r] :
      <<r, k>> \in registered => <<r, k>> \in called \/ k \in started \cap due

\* "anytime the req.Client is used, baaah will also create triggers for those
\* objects" (README): a kind that WatchGVK takes for watched has the router's
\* callback registered.
WatchedIsRegistered ==
  \A r \in Routers : \A k \in watching[r] : <<r, k>> \in registered

\* Nobody waits for ever, although WatchGVK holds watchingLock while it waits for
\* startedLock and controllerLock, and Start holds these while it waits for the
\* startLock of a kind.
NobodyStuck == \A p \in Procs : []<>(pc[p] \in {"idle", "done", "failed"})

\* "not ready until the controller is started and caches are ready" (comment in
\* startHandlers): when the process reports itself healthy, every router that began
\* to start has its handled kinds started.
ReadyWhenStarted ==
  \A r \in Routers :
    healthy /\ pc[Main(r)] # "idle" => Handled[r] \subseteq started
=============================================================================
