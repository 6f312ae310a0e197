----------------------------- MODULE Controller -----------------------------
(***************************************************************************)
(* The life of one controller of pkg/runtime/controller.go: keys that      *)
(* arrive before there is a queue, Start waiting for the informer with     *)
(* startLock held, the goroutine run, its workers, and the way down when   *)
(* its context is done.  A run is one successful call of Start; the code   *)
(* resets "started", so a controller can be started again.                 *)
(*                                                                         *)
(* startLock is held across steps by Start alone (phase "waiting"); every  *)
(* other use of it is one step that needs it free.  Start of a controller  *)
(* that is started returns at once and is left out.                        *)
(***************************************************************************)
EXTENDS Naturals, WorkQueue

CONSTANTS
  Keys,        \* keys of the objects of the kind
  Workers,     \* worker goroutines of a run
  MaxRuns,     \* bound: calls of Start
  MaxInputs,   \* bound: requests and informer changes
  MaxFails     \* bound: errors of handlers

ASSUME ControllerAssumption ==
  MaxRuns \in Nat \ {0} /\ MaxInputs \in Nat /\ MaxFails \in Nat

Runs  == 1 .. MaxRuns
Procs == Runs \X Workers

VARIABLES
  known,         \* keys of the objects the informer holds
  events,        \* keys with an event the informer has not delivered
  synced,        \* informer.HasSynced
  cacheStarted,  \* somebody called cache.Start
  listening,     \* the informer has our event handler
  registered,    \* controller.registration is set
  started,       \* controller.started
  startKeys,     \* controller.startKeys: <<key, delayed>>
  current,       \* controller.workqueue: 0 is nil, r the queue run r made
  queues,        \* the queue of each run
  ctx,           \* "none", "live" or "done": the context given to Start
  phase,         \* where Start and then run are
  wpc,           \* where each worker is, see WorkerPc
  wqueue,        \* the queue it waits on, then the one it will call Done on
  wkey,          \* the key it works on, as a set
  inputs,        \* requests and changes so far
  fails          \* errors so far

informer  == <<known, events, synced, cacheStarted, listening>>
lifecycle == <<registered, started, ctx, phase>>
keys      == <<startKeys, current, queues>>
workers   == <<wpc, wqueue, wkey>>
vars      == <<informer, lifecycle, keys, workers, inputs, fails>>

LockFree == \A r \in Runs : phase[r] # "waiting"

Init ==
  /\ known = {} /\ events = {}
  /\ synced = FALSE /\ cacheStarted = FALSE /\ listening = FALSE
  /\ registered = FALSE /\ started = FALSE
  /\ startKeys = {}
  /\ current = 0
  /\ queues = [r \in Runs |-> EmptyQueue]
  /\ ctx = [r \in Runs |-> "none"]
  /\ phase = [r \in Runs |-> "none"]
  /\ wpc = [p \in Procs |-> "none"]
  /\ wqueue = [p \in Procs |-> 0]
  /\ wkey = [p \in Procs |-> {}]
  /\ inputs = 0 /\ fails = 0

---------------------------------------------------------------------------
(* The informer.                                                           *)

Sync ==
  /\ cacheStarted /\ ~synced
  /\ synced' = TRUE
  /\ UNCHANGED <<known, events, cacheStarted, listening, lifecycle, keys, workers,
                 inputs, fails>>

\* An object is added, updated or deleted.
Change(k) ==
  /\ inputs < MaxInputs
  /\ inputs' = inputs + 1
  /\ known' = known \cup {k}
  /\ events' = IF listening THEN events \cup {k} ELSE events
  /\ UNCHANGED <<synced, cacheStarted, listening, lifecycle, keys, workers, fails>>

---------------------------------------------------------------------------
(* Requests.  Without a queue a key is kept for the run to come.           *)

AddKey(k) ==
  /\ LockFree
  /\ IF current = 0
     THEN startKeys' = startKeys \cup {<<k, FALSE>>} /\ UNCHANGED queues
     ELSE queues' = [queues EXCEPT ![current] = Add(@, {k})] /\ UNCHANGED startKeys
  /\ UNCHANGED current

Input ==
  /\ inputs < MaxInputs
  /\ inputs' = inputs + 1
  /\ UNCHANGED <<informer, lifecycle, workers, fails>>

EnqueueKey(k) == Input /\ AddKey(k)

\* Enqueue: rate limited, except for a key kept for the run to come.
Enqueue(k) ==
  /\ Input
  /\ LockFree
  /\ IF current = 0
     THEN startKeys' = startKeys \cup {<<k, FALSE>>} /\ UNCHANGED queues
     ELSE queues' = [queues EXCEPT ![current] = AddAfter(@, {k})] /\ UNCHANGED startKeys
  /\ UNCHANGED current

EnqueueAfter(k) ==
  /\ Input
  /\ LockFree
  /\ IF current = 0
     THEN startKeys' = startKeys \cup {<<k, TRUE>>} /\ UNCHANGED queues
     ELSE queues' = [queues EXCEPT ![current] = AddAfter(@, {k})] /\ UNCHANGED startKeys
  /\ UNCHANGED current

\* handleObject, enqueue: the informer delivers an event.
HandleObject(k) ==
  /\ k \in events
  /\ events' = events \ {k}
  /\ AddKey(k)
  /\ UNCHANGED <<known, synced, cacheStarted, listening, lifecycle, workers, inputs,
                 fails>>

Timer(r, k) ==
  /\ k \in queues[r].delayed
  /\ queues' = [queues EXCEPT ![r] = Fire(@, k)]
  /\ UNCHANGED <<startKeys, current, informer, lifecycle, workers, inputs, fails>>

---------------------------------------------------------------------------
(* Start.                                                                  *)

\* Up to WaitForCacheSync: the event handler is added once and is told of every
\* object there is; the cache is started unless the informer has synced.
Start(r) ==
  /\ LockFree /\ ~started
  /\ ctx[r] = "none" /\ (r > 1 => ctx[r - 1] # "none")
  /\ ctx' = [ctx EXCEPT ![r] = "live"]
  /\ phase' = [phase EXCEPT ![r] = "waiting"]
  /\ registered' = TRUE
  /\ listening' = (listening \/ ~registered)
  /\ events' = IF registered THEN events ELSE events \cup known
  /\ cacheStarted' = (cacheStarted \/ ~synced)
  /\ UNCHANGED <<known, synced, started, keys, workers, inputs, fails>>

\* Mutant: Start waits until the event handler has been called for every object
\* (registration.HasSynced), which itself waits for startLock.
StartReturnsWhenDelivered(r) ==
  /\ phase[r] = "waiting" /\ synced /\ events = {}
  /\ phase' = [phase EXCEPT ![r] = "spawned"]
  /\ started' = TRUE
  /\ UNCHANGED <<registered, ctx, informer, keys, workers, inputs, fails>>

\* The informer has synced: go run.
StartReturns(r) ==
  /\ phase[r] = "waiting" /\ synced
  /\ phase' = [phase EXCEPT ![r] = "spawned"]
  /\ started' = TRUE
  /\ UNCHANGED <<registered, ctx, informer, keys, workers, inputs, fails>>

\* "failed to wait for caches to sync"
StartFails(r) ==
  /\ phase[r] = "waiting" /\ ctx[r] = "done"
  /\ phase' = [phase EXCEPT ![r] = "failed"]
  /\ UNCHANGED <<registered, started, ctx, informer, keys, workers, inputs, fails>>

\* The caller gives up.
Cancel(r) ==
  /\ ctx[r] = "live"
  /\ ctx' = [ctx EXCEPT ![r] = "done"]
  /\ UNCHANGED <<registered, started, phase, informer, keys, workers, inputs, fails>>

---------------------------------------------------------------------------
(* The goroutine run.                                                      *)

\* Mutant: startKeys is not cleared, and a second run would repeat it.
RunKeepsKeys(r) ==
  /\ phase[r] = "spawned" /\ LockFree
  /\ current' = r
  /\ queues' = [queues EXCEPT ![r] = Add(EmptyQueue, {s[1] : s \in startKeys})]
  /\ phase' = [phase EXCEPT ![r] = "running"]
  /\ wpc' = [p \in Procs |-> IF p[1] = r THEN "until" ELSE wpc[p]]
  /\ UNCHANGED <<startKeys, registered, started, ctx, informer, wqueue, wkey, inputs, fails>>

\* Mutant: a key kept for the run is forgotten when it is to be delayed.
RunWithoutDelayed(r) ==
  /\ phase[r] = "spawned" /\ LockFree
  /\ current' = r
  /\ queues' = [queues EXCEPT ![r] = Add(EmptyQueue, {s[1] : s \in {t \in startKeys : ~t[2]}})]
  /\ startKeys' = {}
  /\ phase' = [phase EXCEPT ![r] = "running"]
  /\ wpc' = [p \in Procs |-> IF p[1] = r THEN "until" ELSE wpc[p]]
  /\ UNCHANGED <<registered, started, ctx, informer, wqueue, wkey, inputs, fails>>

\* Make the queue, put the keys kept for it on it and start the workers.
Run(r) ==
  LET now   == {s[1] : s \in {t \in startKeys : ~t[2]}}
      later == {s[1] : s \in {t \in startKeys : t[2]}}
  IN
  /\ phase[r] = "spawned" /\ LockFree
  /\ current' = r
  /\ queues' = [queues EXCEPT ![r] = AddAfter(Add(EmptyQueue, now), later)]
  /\ startKeys' = {}
  /\ phase' = [phase EXCEPT ![r] = "running"]
  /\ wpc' = [p \in Procs |-> IF p[1] = r THEN "until" ELSE wpc[p]]
  /\ UNCHANGED <<registered, started, ctx, informer, wqueue, wkey, inputs, fails>>

\* <-ctx.Done()
RunStops(r) ==
  /\ phase[r] = "running" /\ ctx[r] = "done" /\ LockFree
  /\ phase' = [phase EXCEPT ![r] = "stopping"]
  /\ started' = FALSE
  /\ UNCHANGED <<registered, ctx, informer, keys, workers, inputs, fails>>

\* Mutant: the deferred ShutDown is missing.
RunLeaks(r) ==
  /\ phase[r] = "stopping"
  /\ phase' = [phase EXCEPT ![r] = "shut"]
  /\ UNCHANGED <<registered, started, ctx, informer, keys, workers, inputs, fails>>

\* The deferred ShutDown, of whatever c.workqueue is by now.
RunShutsDown(r) ==
  /\ phase[r] = "stopping"
  /\ queues' = [queues EXCEPT ![current] = ShutDown(@)]
  /\ phase' = [phase EXCEPT ![r] = "shut"]
  /\ UNCHANGED <<startKeys, current, registered, started, ctx, informer, workers,
                 inputs, fails>>

\* The deferred RemoveEventHandler: undelivered events are dropped.
RunEnds(r) ==
  /\ phase[r] = "shut"
  /\ listening' = FALSE
  /\ events' = {}
  /\ phase' = [phase EXCEPT ![r] = "ended"]
  /\ UNCHANGED <<known, synced, cacheStarted, registered, started, ctx, keys, workers,
                 inputs, fails>>

---------------------------------------------------------------------------
(* A worker: wait.Until around runWorker.                                  *)

\* wait.Until runs runWorker again and again until the context is done.
Until(p) ==
  /\ wpc[p] = "until"
  /\ wpc' = [wpc EXCEPT ![p] = IF ctx[p[1]] = "done" THEN "exited" ELSE "loop"]
  /\ UNCHANGED <<informer, lifecycle, keys, wqueue, wkey, inputs, fails>>

\* processNextWorkItem calls Get on the queue of the moment.
CallGet(p) ==
  /\ wpc[p] = "loop"
  /\ wpc' = [wpc EXCEPT ![p] = "get"]
  /\ wqueue' = [wqueue EXCEPT ![p] = current]
  /\ UNCHANGED <<informer, lifecycle, keys, wkey, inputs, fails>>

\* Get returns a key; the call of Done that is deferred takes c.workqueue.
Take(p, k) ==
  /\ wpc[p] = "get" /\ k \in Ready(queues[wqueue[p]])
  /\ queues' = [queues EXCEPT ![wqueue[p]] = Get(@, k)]
  /\ wpc' = [wpc EXCEPT ![p] = "busy"]
  /\ wqueue' = [wqueue EXCEPT ![p] = current]
  /\ wkey' = [wkey EXCEPT ![p] = {k}]
  /\ UNCHANGED <<startKeys, current, informer, lifecycle, inputs, fails>>

\* Get returns shutdown, and runWorker returns.
GetShutdown(p) ==
  /\ wpc[p] = "get"
  /\ LET q == queues[wqueue[p]] IN q.shut /\ Ready(q) = {}
  /\ wpc' = [wpc EXCEPT ![p] = "until"]
  /\ UNCHANGED <<informer, lifecycle, keys, wqueue, wkey, inputs, fails>>

\* Mutant: Done is forgotten when the handler fails, and the key stays locked.
HandlerReturnsEarly(p, err) ==
  /\ wpc[p] = "busy"
  /\ err => fails < MaxFails
  /\ fails' = IF err THEN fails + 1 ELSE fails
  /\ \E k \in wkey[p] :
       queues' = IF err THEN [queues EXCEPT ![current] = AddAfter(@, {k})]
                 ELSE [queues EXCEPT ![wqueue[p]] = Done(@, k)]
  /\ wpc' = [wpc EXCEPT ![p] = "loop"]
  /\ wkey' = [wkey EXCEPT ![p] = {}]
  /\ UNCHANGED <<startKeys, current, informer, lifecycle, wqueue, inputs>>

\* processSingleItem: the handler returns; an error requeues the key on the
\* queue of the moment; then Done.
HandlerReturns(p, err) ==
  /\ wpc[p] = "busy"
  /\ err => fails < MaxFails
  /\ fails' = IF err THEN fails + 1 ELSE fails
  /\ \E k \in wkey[p] :
       LET q == IF err THEN [queues EXCEPT ![current] = AddAfter(@, {k})] ELSE queues
       IN  queues' = [q EXCEPT ![wqueue[p]] = Done(@, k)]
  /\ wpc' = [wpc EXCEPT ![p] = "loop"]
  /\ wkey' = [wkey EXCEPT ![p] = {}]
  /\ UNCHANGED <<startKeys, current, informer, lifecycle, wqueue, inputs>>

---------------------------------------------------------------------------
Informer(k) == Change(k) \/ HandleObject(k)

Requests(k) == EnqueueKey(k) \/ Enqueue(k) \/ EnqueueAfter(k)

Life(r) ==
  \/ Start(r) \/ StartReturns(r) \/ StartFails(r) \/ Cancel(r)
  \/ Run(r) \/ RunStops(r) \/ RunShutsDown(r) \/ RunEnds(r)

Work(p) ==
  \/ Until(p) \/ CallGet(p) \/ GetShutdown(p)
  \/ \E k \in Keys : Take(p, k)
  \/ \E err \in BOOLEAN : HandlerReturns(p, err)

Next ==
  \/ Sync
  \/ \E k \in Keys : Informer(k) \/ Requests(k)
  \/ \E r \in Runs : Life(r) \/ \E k \in Keys : Timer(r, k)
  \/ \E p \in Procs : Work(p)

Spec == Init /\ [][Next]_vars

\* The cache syncs once started, events are delivered, timers fire, goroutines
\* run and handlers return.  Nobody has to start or to cancel the controller.
Fairness ==
  /\ WF_vars(Sync)
  /\ \A k \in Keys : SF_vars(HandleObject(k))
  /\ \A r \in Runs :
       /\ WF_vars(StartReturns(r)) /\ WF_vars(RunShutsDown(r)) /\ WF_vars(RunEnds(r))
       /\ SF_vars(Run(r)) /\ SF_vars(RunStops(r))
       /\ \A k \in Keys :
            /\ WF_vars(Timer(r, k))
            /\ SF_vars(\E p \in Procs : wqueue[p] = r /\ Take(p, k))
  /\ \A p \in Procs :
       /\ WF_vars(Until(p)) /\ WF_vars(CallGet(p)) /\ WF_vars(GetShutdown(p))
       /\ WF_vars(\E err \in BOOLEAN : HandlerReturns(p, err))

FairSpec == Spec /\ Fairness

---------------------------------------------------------------------------
(* Properties.                                                             *)

Phase == {"none", "waiting", "failed", "spawned", "running", "stopping", "shut", "ended"}
WorkerPc == {"none", "until", "loop", "get", "busy", "exited"}

\* Types; keys are kept for a run only while there is no queue, and a worker has
\* a key exactly while it is busy.
TypeOK ==
  /\ known \subseteq Keys /\ events \subseteq Keys
  /\ synced \in BOOLEAN /\ cacheStarted \in BOOLEAN /\ listening \in BOOLEAN
  /\ registered \in BOOLEAN /\ started \in BOOLEAN
  /\ startKeys \subseteq Keys \X BOOLEAN
  /\ current \in 0 .. MaxRuns
  /\ current # 0 => startKeys = {}
  /\ queues \in [Runs -> QueueOf(Keys)]
  /\ ctx \in [Runs -> {"none", "live", "done"}]
  /\ phase \in [Runs -> Phase]
  /\ wpc \in [Procs -> WorkerPc]
  /\ wqueue \in [Procs -> 0 .. MaxRuns]
  /\ wkey \in [Procs -> SUBSET Keys]
  /\ \A p \in Procs : wpc[p] = "busy" <=> wkey[p] # {}
  /\ inputs \in 0 .. MaxInputs /\ fails \in 0 .. MaxFails

\* The run that has ended has released its queue: "It we instantiate a workqueue
\* we must have a mechanism to Shutdown it down" (comment in run).  Not so if the
\* controller is started again in time (MaxRuns = 2).
QueueReleased ==
  \A r \in Runs : phase[r] \in {"shut", "ended"} => queues[r].shut

\* The keys that are due, and those being served, of a controller run once.
Due     == {s[1] : s \in startKeys} \cup UNION {queues[r].dirty \cup queues[r].delayed : r \in Runs}
Serving == UNION {wkey[p] : p \in Procs}
Closed  == \E r \in Runs : queues[r].shut

Abstract == INSTANCE KeyQueue WITH due <- Due, serving <- Serving, closed <- Closed

\* A controller that is started once keeps the promises of KeyQueue: no key that
\* was asked for is lost, before there is a queue or after, none is served
\* twice at the same time, and none is served that nobody asked for.
ImplementsKeyQueue == Abstract!Spec

\* A key that is due is served, unless the controller is never started or told to
\* stop.
DueIsServed ==
  \A k \in Keys :
    (k \in Due /\ started) ~> (k \in Serving \/ \E r \in Runs : ctx[r] = "done")

\* Start does not wait for ever with startLock held, although the informer's
\* event handler needs that lock while Start waits for the informer.
StartUnlocks == ~LockFree ~> LockFree

\* A controller that is told to stop does stop: its queue is shut down, its
\* workers exit and the informer no longer calls it.
Stops ==
  \A r \in Runs :
    (phase[r] = "running" /\ ctx[r] = "done") ~>
      (phase[r] = "ended" /\ ~listening /\ \A w \in Workers : wpc[<<r, w>>] = "exited")
=============================================================================
