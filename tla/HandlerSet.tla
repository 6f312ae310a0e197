----------------------------- MODULE HandlerSet -----------------------------
(***************************************************************************)
(* The reconcile loop of pkg/router: HandlerSet.onChange and handle, the   *)
(* triggers between objects, the per-key rate limiter with its replays and *)
(* the per-key lock, driven by the workers of pkg/runtime/controller.go    *)
(* over a client-go work queue.                                            *)
(*                                                                         *)
(* An object stands for a (gvk, key) pair.  The queues of the controllers  *)
(* of all kinds are one record, since their keys are disjoint; each kind   *)
(* has its own workers.  What user handlers write, and what save and apply *)
(* write for them, reaches this loop as changes of the informer cache and  *)
(* is part of the environment action Change.                               *)
(***************************************************************************)
EXTENDS Naturals, WorkQueue

CONSTANTS
  Objects,     \* (gvk, key) pairs
  Kinds,       \* gvks
  KindOf,      \* [Objects -> Kinds]
  Handled,     \* kinds with a handler: handlers.GVKs()
  Workers,     \* worker goroutines of all controllers
  Serves,      \* [Workers -> Kinds]: the controller a worker belongs to
  Queries,     \* what handlers may ask of the client, see Query
  Labels,      \* values the label of an object may take
  MaxRev,      \* bound: changes of the informer cache
  MaxFails,    \* bound: errors of handlers, reads and writes
  Outcomes,    \* what becomes of an error: "requeue", "swallow", "ignore"
  Delays       \* TRUE in Delays: handlers may ask for RetryAfter

\* A query names one object, or lists a kind (name = {}), perhaps by selector.
Query == [kind: Kinds, name: SUBSET Objects, selector: BOOLEAN]

\* A cached object: its resource version and the label selectors look at.
NotFound == [rev |-> 0, label |-> FALSE]
Value    == {NotFound} \cup [rev: 1 .. MaxRev, label: BOOLEAN]
Nothing  == [o \in Objects |-> NotFound]

ASSUME ConstantsAssumption ==
  /\ KindOf \in [Objects -> Kinds]
  /\ Handled \subseteq Kinds
  /\ Serves \in [Workers -> Kinds]
  /\ Queries \subseteq Query
  /\ \A d \in Queries : \A o \in d.name : KindOf[o] = d.kind
  /\ Labels \subseteq BOOLEAN
  /\ MaxRev \in Nat \ {0} /\ MaxFails \in Nat
  /\ Outcomes \subseteq {"requeue", "swallow", "ignore"}
  /\ Delays \subseteq BOOLEAN

VARIABLES
  cache,       \* informer cache: [Objects -> Value]
  rev,         \* last resource version given out
  events,      \* objects with an informer event not delivered yet
  queue,       \* work queue of Items, see WorkQueue
  watching,    \* HandlerSet.watching: kinds with a registered watch
  limiters,    \* HandlerSet.limiters: objects with a used rate limiter
  waiting,     \* HandlerSet.waiting: objects whose replay goroutine sleeps
  locked,      \* HandlerSet.locker: objects whose key is locked
  matchers,    \* triggers.matchers: set of <<target, query>>
  pc,          \* what each worker does next
  item,        \* the queue item each worker processes
  obj,         \* the object onChange works with: parameter, then Get's result
  query,       \* {d} when a handler has registered d and not yet read, or {}
  failed,      \* workers whose onChange returned an error
  fails,       \* errors so far
  reconciled,  \* history: value of each object its handlers last ran with
  asked,       \* history: queries the last run of each object read
  seen         \* history: the answers it got

informer == <<cache, rev, events>>
limits   == <<limiters, waiting>>
worker   == <<pc, item, obj, query, failed>>
history  == <<reconciled, asked, seen>>
vars     == <<informer, queue, watching, limits, locked, matchers, worker,
              fails, history>>

---------------------------------------------------------------------------
(* Keys.  The prefixes of a key decide how onChange treats it.             *)

Plain(o)   == <<"plain", o>>      \* "key"
Trigger(o) == <<"trigger", o>>    \* "_t key"
Replay(o)  == <<"replay", o>>     \* "_t _r key"
Items      == {"plain", "trigger", "replay"} \X Objects
NoItem     == <<"none", "none">>

Form(w)   == item[w][1]
Target(w) == item[w][2]
\* Mutant: a replayed key counts as a triggered one.
FromAnyPrefix(w) == Form(w) # "plain"
FromTrigger(w) == Form(w) = "trigger"

Exists(v) == v.rev > 0

---------------------------------------------------------------------------
(* Matchers and queries.                                                   *)

\* objectMatcher.Match: v is the object, NotFound for a nil one.
Match(d, o, v) ==
  /\ d.kind = KindOf[o]
  /\ IF d.name # {} THEN o \in d.name
     ELSE d.selector => (Exists(v) /\ v.label)

\* What a client Get or List answers for the query.
View(d) == [o \in Objects |-> IF Match(d, o, cache[o]) THEN cache[o] ELSE NotFound]

\* invokeTriggers: the targets, other than the object itself, with a match.
Dependents(o, v) ==
  {t \in Objects \ {o} : \E m \in matchers : m[1] = t /\ Match(m[2], o, v)}

---------------------------------------------------------------------------
Init ==
  /\ cache \in [Objects -> {NotFound} \cup {[rev |-> 1, label |-> b] : b \in Labels}]
  /\ rev = 1
  /\ events = {o \in Objects : Exists(cache[o]) /\ KindOf[o] \in Handled}
  /\ queue = EmptyQueue
  /\ watching = Handled
  /\ limiters = {} /\ waiting = {} /\ locked = {} /\ matchers = {}
  /\ pc = [w \in Workers |-> "idle"]
  /\ item = [w \in Workers |-> NoItem]
  /\ obj = [w \in Workers |-> NotFound]
  /\ query = [w \in Workers |-> {}]
  /\ failed = {}
  /\ fails = 0
  /\ reconciled = [o \in Objects |-> NotFound]
  /\ asked = [o \in Objects |-> {}]
  /\ seen = [o \in Objects |-> [d \in Queries |-> Nothing]]

---------------------------------------------------------------------------
(* The environment: the informer cache, its events and the queue's timers. *)

\* The informer stores a new state of an object, or removes it, and then
\* notifies the registered event handler.
Change(o) ==
  /\ rev < MaxRev
  /\ rev' = rev + 1
  /\ \E v \in {[rev |-> rev + 1, label |-> b] : b \in Labels} \cup {NotFound} :
       /\ v # cache[o]
       /\ cache' = [cache EXCEPT ![o] = v]
  /\ events' = IF KindOf[o] \in watching THEN events \cup {o} ELSE events
  /\ UNCHANGED <<queue, watching, limits, locked, matchers, worker, fails, history>>

\* handleObject, enqueue: the event of an object puts its key on the queue.
HandleObject(o) ==
  /\ o \in events
  /\ events' = events \ {o}
  /\ queue' = Add(queue, {Plain(o)})
  /\ UNCHANGED <<cache, rev, watching, limits, locked, matchers, worker, fails, history>>

\* The timer of AddAfter or AddRateLimited fires.
Timer(i) ==
  /\ i \in queue.delayed
  /\ queue' = Fire(queue, i)
  /\ UNCHANGED <<informer, watching, limits, locked, matchers, worker, fails, history>>

\* The goroutine of checkDelay wakes up and replays the key.
WakeUp(o) ==
  /\ o \in waiting
  /\ waiting' = waiting \ {o}
  /\ queue' = Add(queue, {Replay(o)})
  /\ UNCHANGED <<informer, watching, limiters, locked, matchers, worker, fails, history>>

---------------------------------------------------------------------------
(* A worker: processNextWorkItem down to onChange.                         *)

Goto(w, next) == pc' = [pc EXCEPT ![w] = next]

\* onChange returns to processSingleItem with or without an error.
Return(w, err) ==
  /\ Goto(w, "return")
  /\ failed' = IF err THEN failed \cup {w} ELSE failed

\* An error: handed to the queue again, swallowed by the ErrorHandler (the run
\* goes on at next), or an ErrIgnore, which SharedHandler.OnChange drops.
Fail(w, next) ==
  /\ fails < MaxFails
  /\ fails' = fails + 1
  /\ \/ "requeue" \in Outcomes /\ Return(w, TRUE)
     \/ "ignore" \in Outcomes /\ Return(w, FALSE)
     \/ "swallow" \in Outcomes /\ Goto(w, next) /\ UNCHANGED failed

\* processNextWorkItem, syncHandler: a special key has no object to look up.
Take(w, i) ==
  /\ pc[w] = "idle"
  /\ i \in Ready(queue)
  /\ KindOf[i[2]] = Serves[w]
  /\ queue' = Get(queue, i)
  /\ item' = [item EXCEPT ![w] = i]
  /\ Goto(w, IF i[1] = "plain" THEN "sync" ELSE "lock")
  /\ UNCHANGED <<informer, watching, limits, locked, matchers, obj, query, failed,
                 fails, history>>

\* syncHandler reads the object of a plain key from the informer cache.
SyncHandler(w) ==
  /\ pc[w] = "sync"
  /\ obj' = [obj EXCEPT ![w] = cache[Target(w)]]
  /\ Goto(w, "delay")
  /\ UNCHANGED <<informer, queue, watching, limits, locked, matchers, item, query,
                 failed, fails, history>>

\* Mutant: a key that is postponed is not recorded, hence never replayed.
CheckDelayForgets(w) ==
  LET o == Target(w) IN
  /\ pc[w] = "delay"
  /\ \/ limiters' = limiters \cup {o} /\ Goto(w, "lock")
     \/ o \in limiters /\ Goto(w, "done") /\ UNCHANGED limiters
  /\ UNCHANGED <<informer, queue, watching, waiting, locked, matchers, item, obj, query,
                 failed, fails, history>>

\* checkDelay: the key is dropped while its replay is pending; a limiter that
\* was just created admits the key, a used one admits or postpones it.
CheckDelay(w) ==
  LET o == Target(w) IN
  /\ pc[w] = "delay"
  /\ \/ /\ o \in waiting
        /\ Goto(w, "done")
        /\ UNCHANGED limits
     \/ /\ o \notin waiting
        /\ limiters' = limiters \cup {o}
        /\ Goto(w, "lock")
        /\ UNCHANGED waiting
     \/ /\ o \notin waiting /\ o \in limiters
        /\ waiting' = waiting \cup {o}
        /\ Goto(w, "done")
        /\ UNCHANGED limiters
  /\ UNCHANGED <<informer, queue, watching, locked, matchers, item, obj, query,
                 failed, fails, history>>

\* Mutant: the key is not locked against the other forms of the same key.
LockNothing(w) ==
  /\ pc[w] = "lock"
  /\ Goto(w, "get")
  /\ UNCHANGED <<informer, queue, watching, limits, locked, matchers, item, obj, query,
                 failed, fails, history>>

\* locker.Lock
Lock(w) ==
  /\ pc[w] = "lock"
  /\ Target(w) \notin locked
  /\ locked' = locked \cup {Target(w)}
  /\ Goto(w, "get")
  /\ UNCHANGED <<informer, queue, watching, limits, matchers, item, obj, query,
                 failed, fails, history>>

\* backend.Get: a found object replaces the parameter, NotFound keeps it; a nil
\* object forgets the limiter.  Then handle, which runs the handlers of the kind.
GetObject(w) ==
  LET o == Target(w)
      v == IF Exists(cache[o]) THEN cache[o] ELSE obj[w]
  IN
  /\ pc[w] = "get"
  /\ obj' = [obj EXCEPT ![w] = v]
  /\ limiters' = IF Exists(v) THEN limiters ELSE limiters \ {o}
  /\ IF KindOf[o] \in Handled
     THEN /\ Goto(w, "handle")
          /\ asked' = [asked EXCEPT ![o] = {}]
          /\ seen' = [seen EXCEPT ![o] = [d \in Queries |-> Nothing]]
     ELSE Goto(w, "trigger") /\ UNCHANGED <<asked, seen>>
  /\ UNCHANGED <<informer, queue, watching, waiting, locked, matchers, item, query,
                 failed, fails, reconciled>>

\* The read of syncHandler or of onChange fails with another error.
ReadFails(w) ==
  /\ fails < MaxFails
  /\ fails' = fails + 1
  /\ \/ pc[w] = "sync" /\ Goto(w, "done") /\ failed' = failed \cup {w}
     \/ pc[w] = "get" /\ Return(w, TRUE)
  /\ UNCHANGED <<informer, queue, watching, limits, locked, matchers, item, obj,
                 query, history>>

---------------------------------------------------------------------------
(* The user handlers of the object, through req.Client and resp.Objects.   *)

\* Mutant: the watched kinds are replaced, not extended.
WatchOnly(w, d) ==
  /\ pc[w] = "handle" /\ query[w] = {} /\ d \notin asked[Target(w)]
  /\ matchers' = matchers \cup {<<Target(w), d>>}
  /\ watching' = {d.kind}
  /\ query' = [query EXCEPT ![w] = {d}]
  /\ UNCHANGED <<informer, queue, limits, locked, pc, item, obj, failed, fails, history>>

\* triggerRegistry.Watch: register the matcher, then watch the kind.  A first
\* watch of a kind delivers every object the cache holds.  (A call for an uncached
\* object registers and watches nothing, and is no query; a failing lookup of the kind
\* changes nothing either, and is an error of the handler, HandlerFails.)
Watch(w, d) ==
  /\ pc[w] = "handle" /\ query[w] = {} /\ d \notin asked[Target(w)]
  /\ matchers' = matchers \cup {<<Target(w), d>>}
  /\ watching' = watching \cup {d.kind}
  /\ events' = IF d.kind \in watching THEN events
               ELSE events \cup {o \in Objects : KindOf[o] = d.kind /\ Exists(cache[o])}
  /\ query' = [query EXCEPT ![w] = {d}]
  /\ UNCHANGED <<cache, rev, queue, limits, locked, pc, item, obj, failed, fails,
                 history>>

\* WatchGVK fails after register: the matcher stays, the kind is not watched.
WatchFails(w, d) ==
  /\ pc[w] = "handle" /\ query[w] = {} /\ d.kind \notin watching
  /\ fails < MaxFails
  /\ fails' = fails + 1
  /\ matchers' = matchers \cup {<<Target(w), d>>}
  /\ UNCHANGED <<informer, queue, watching, limits, locked, worker, history>>

\* The call itself, after its Watch.
Read(w) ==
  \E d \in query[w] :
    /\ pc[w] = "handle"
    /\ asked' = [asked EXCEPT ![Target(w)] = @ \cup {d}]
    /\ seen' = [seen EXCEPT ![Target(w)] = [@ EXCEPT ![d] = View(d)]]
    /\ query' = [query EXCEPT ![w] = {}]
    /\ UNCHANGED <<informer, queue, watching, limits, locked, matchers, pc, item, obj,
                   failed, fails, reconciled>>

\* handlers.Handle returns without an error.
HandlerReturns(w) ==
  /\ pc[w] = "handle" /\ query[w] = {}
  /\ reconciled' = [reconciled EXCEPT ![Target(w)] = obj[w]]
  /\ Goto(w, "trigger")
  /\ UNCHANGED <<informer, queue, watching, limits, locked, matchers, item, obj,
                 query, failed, fails, asked, seen>>

\* handlers.Handle returns an error, perhaps because a Watch or a read failed.
HandlerFails(w) ==
  /\ pc[w] = "handle"
  /\ Fail(w, "trigger")
  /\ query' = [query EXCEPT ![w] = {}]
  /\ reconciled' = IF w \in failed' THEN reconciled
                   ELSE [reconciled EXCEPT ![Target(w)] = obj[w]]
  /\ UNCHANGED <<informer, queue, watching, limits, locked, matchers, item, obj,
                 asked, seen>>

---------------------------------------------------------------------------
(* The rest of handle.                                                     *)

\* What follows the triggers: save when the kind has handlers, else the end of handle.
AfterTrigger(w) ==
  Goto(w, IF KindOf[Target(w)] \in Handled THEN "save" ELSE "retry") /\ UNCHANGED failed

\* triggers.Trigger: a run that a trigger caused does not trigger others.
InvokeTriggers(w) ==
  /\ pc[w] = "trigger" /\ Exists(obj[w])
  /\ queue' = IF FromTrigger(w) THEN queue
              ELSE Add(queue, {Trigger(t) : t \in Dependents(Target(w), obj[w])})
  /\ AfterTrigger(w)
  /\ UNCHANGED <<informer, watching, limits, locked, matchers, item, obj, query,
                 fails, history>>

\* Mutant: what names the deleted object is dropped before it is triggered.
UnregisterFirst(w) ==
  LET o    == Target(w)
      left == {m \in matchers : m[1] # o /\ o \notin m[2].name}
  IN
  /\ pc[w] = "trigger" /\ ~Exists(obj[w])
  /\ matchers' = left
  /\ queue' = Add(queue, {Trigger(m[1]) : m \in {n \in left : Match(n[2], o, NotFound)}})
  /\ AfterTrigger(w)
  /\ asked' = [asked EXCEPT ![o] = {}]
  /\ seen' = [seen EXCEPT ![o] = [d \in Queries |-> Nothing]]
  /\ UNCHANGED <<informer, watching, limits, locked, item, obj, query, fails,
                 reconciled>>

\* triggers.UnregisterAndTrigger: drop what the deleted object asked for and
\* what names it, and trigger the other targets that match.
UnregisterAndTrigger(w) ==
  LET o == Target(w) IN
  /\ pc[w] = "trigger" /\ ~Exists(obj[w])
  /\ matchers' = {m \in matchers : m[1] # o /\ o \notin m[2].name}
  /\ queue' = Add(queue, {Trigger(t) : t \in Dependents(o, NotFound)})
  /\ AfterTrigger(w)
  /\ asked' = [asked EXCEPT ![o] = {}]
  /\ seen' = [seen EXCEPT ![o] = [d \in Queries |-> Nothing]]
  /\ UNCHANGED <<informer, watching, limits, locked, item, obj, query, fails,
                 reconciled>>

\* save.save applies the response; what it writes comes back through Change.
Save(w) ==
  /\ pc[w] = "save"
  /\ Goto(w, "retry")
  /\ UNCHANGED <<informer, queue, watching, limits, locked, matchers, item, obj,
                 query, failed, fails, history>>

SaveFails(w) ==
  /\ pc[w] = "save"
  /\ Fail(w, "retry")
  /\ UNCHANGED <<informer, queue, watching, limits, locked, matchers, item, obj,
                 query, history>>

\* The end of handle: the delayed key of RetryAfter, if the kind has handlers to ask for
\* one; then, for every kind, handleError with a nil error, which an ErrorHandler may
\* still turn into an error of its own.
RetryAfter(w) ==
  /\ pc[w] = "retry"
  /\ \E delay \in Delays :
       queue' = IF delay /\ KindOf[Target(w)] \in Handled
                THEN AddAfter(queue, {Plain(Target(w))}) ELSE queue
  /\ \/ Return(w, FALSE) /\ UNCHANGED fails
     \/ "swallow" \in Outcomes /\ fails < MaxFails /\ fails' = fails + 1 /\ Return(w, TRUE)
  /\ UNCHANGED <<informer, watching, limits, locked, matchers, item, obj, query,
                 history>>

\* onChange returns: the deferred locker.Unlock.
Unlock(w) ==
  /\ pc[w] = "return"
  /\ locked' = locked \ {Target(w)}
  /\ Goto(w, "done")
  /\ UNCHANGED <<informer, queue, watching, limits, matchers, item, obj, query,
                 failed, fails, history>>

\* Mutant: an error is logged and the key is not requeued.
FinishAnyway(w) ==
  /\ pc[w] = "done"
  /\ queue' = Done(queue, item[w])
  /\ Goto(w, "idle")
  /\ item' = [item EXCEPT ![w] = NoItem]
  /\ obj' = [obj EXCEPT ![w] = NotFound]
  /\ failed' = failed \ {w}
  /\ UNCHANGED <<informer, watching, limits, locked, matchers, query, fails, history>>

\* processSingleItem: an error puts the key back rate limited; then Done.
Finish(w) ==
  /\ pc[w] = "done"
  /\ queue' = Done(IF w \in failed THEN AddAfter(queue, {item[w]}) ELSE queue, item[w])
  /\ Goto(w, "idle")
  /\ item' = [item EXCEPT ![w] = NoItem]
  /\ obj' = [obj EXCEPT ![w] = NotFound]
  /\ failed' = failed \ {w}
  /\ UNCHANGED <<informer, watching, limits, locked, matchers, query, fails, history>>

---------------------------------------------------------------------------
Sync(w) == SyncHandler(w) \/ CheckDelay(w) \/ Lock(w) \/ GetObject(w) \/ ReadFails(w)

Handle(w) ==
  \/ \E d \in Queries : Watch(w, d) \/ WatchFails(w, d)
  \/ Read(w) \/ HandlerReturns(w) \/ HandlerFails(w)

Conclude(w) ==
  \/ InvokeTriggers(w) \/ UnregisterAndTrigger(w)
  \/ Save(w) \/ SaveFails(w) \/ RetryAfter(w) \/ Unlock(w) \/ Finish(w)

Step(w) == Sync(w) \/ Handle(w) \/ Conclude(w)

Next ==
  \/ \E o \in Objects : Change(o) \/ HandleObject(o) \/ WakeUp(o)
  \/ \E i \in Items : Timer(i)
  \/ \E w \in Workers : Step(w) \/ \E i \in Items : Take(w, i)

Spec == Init /\ [][Next]_vars

\* Informer events are delivered, timers fire, sleeping goroutines wake up and
\* a worker goes on with its item; handlers return.  The queue is first in
\* first out and a mutex does not starve a waiter, hence strong fairness.
Fairness ==
  /\ \A o \in Objects : WF_vars(HandleObject(o)) /\ WF_vars(WakeUp(o))
  /\ \A i \in Items : WF_vars(Timer(i)) /\ SF_vars(\E w \in Workers : Take(w, i))
  /\ \A w \in Workers :
       /\ WF_vars(SyncHandler(w) \/ CheckDelay(w) \/ GetObject(w))
       /\ WF_vars(Read(w) \/ HandlerReturns(w))
       /\ WF_vars(Conclude(w))
       /\ SF_vars(Lock(w))

FairSpec == Spec /\ Fairness

---------------------------------------------------------------------------
(* What is still to happen.                                                *)

BeforeGet     == {"sync", "delay", "lock", "get"}
BeforeTrigger == {"sync", "delay", "lock", "get", "handle", "trigger"}
Pc            == {"idle", "sync", "delay", "lock", "get", "handle", "trigger", "save",
                  "retry", "return", "done"}
Locking       == {"get", "handle", "trigger", "save", "retry", "return"}

\* The worker's run will be repeated: it ended in an error.
WillRequeue(w) == pc[w] \in {"return", "done"} /\ w \in failed

\* A run of t's handlers that has not yet read anything is on its way.
PendingRun(t) ==
  \/ t \in events \cup waiting
  \/ \E i \in queue.dirty \cup queue.delayed : i[2] = t
  \/ \E w \in Workers : Target(w) = t /\ (pc[w] \in BeforeGet \/ WillRequeue(w))

\* A run of o that will tell its dependents is on its way.
PendingAnnounce(o) ==
  \/ o \in events \cup waiting
  \/ \E i \in queue.dirty \cup queue.delayed : i[2] = o /\ i[1] # "trigger"
  \/ \E w \in Workers : Target(w) = o /\ ~FromTrigger(w)
                         /\ (pc[w] \in BeforeTrigger \/ WillRequeue(w))

Stale(t, d, o) == d \in asked[t] /\ seen[t][d][o] # View(d)[o]

---------------------------------------------------------------------------
(* Properties.                                                             *)

\* Types; the handled kinds stay watched whatever else WatchGVK adds, and a busy
\* worker has an item.
TypeOK ==
  /\ cache \in [Objects -> Value] /\ rev \in 1 .. MaxRev
  /\ events \subseteq Objects
  /\ queue \in QueueOf(Items) /\ ~queue.shut
  /\ watching \subseteq Kinds /\ Handled \subseteq watching
  /\ limiters \subseteq Objects /\ waiting \subseteq Objects /\ locked \subseteq Objects
  /\ matchers \subseteq Objects \X Queries
  /\ pc \in [Workers -> Pc]
  /\ item \in [Workers -> Items \cup {NoItem}]
  /\ \A w \in Workers : pc[w] # "idle" => item[w] \in Items
  /\ obj \in [Workers -> Value]
  /\ query \in [Workers -> SUBSET Queries]
  /\ failed \subseteq Workers
  /\ fails \in 0 .. MaxFails
  /\ reconciled \in [Objects -> Value]
  /\ asked \in [Objects -> SUBSET Queries]
  /\ seen \in [Objects -> [Queries -> [Objects -> Value]]]

\* The handlers of one object never run twice at the same time, although its
\* plain, triggered and replayed keys are different items for the queue:
\* onChange's per-key lock.
OneRunPerObject ==
  \A w1, w2 \in Workers :
    w1 # w2 /\ pc[w1] \in Locking /\ pc[w2] \in Locking => Target(w1) # Target(w2)

\* A change is never lost: if the handlers of an object last ran with another
\* state than the cached one, a further run is pending, whatever was dropped by
\* checkDelay, merged by the queue, read stale by syncHandler or failed.
NoLostChange ==
  \A o \in Objects :
    KindOf[o] \in Handled /\ reconciled[o] # cache[o] =>
      \/ PendingRun(o)
      \/ \E w \in Workers : Target(w) = o /\ pc[w] = "handle"

\* The objects that trigger whoever has asked d: those it names, those of its kind, or,
\* if it has a selector, those that are selected now; and only objects whose own runs
\* get as far as the triggers, which one that ends with ErrIgnore does not.
Triggers(d, o) ==
  /\ Match(d, o, NotFound) \/ Match(d, o, cache[o])
  /\ KindOf[o] \in Handled => "ignore" \notin Outcomes

\* A dependent is never left with a stale answer: if what a handler read from
\* req.Client has changed, the reading object is about to run again or the
\* changed object is about to trigger it.
NoStaleDependent ==
  \A t \in Objects, d \in Queries, o \in Objects :
    Stale(t, d, o) /\ Triggers(d, o) => PendingRun(t) \/ (o # t /\ PendingAnnounce(o))

\* What the README promises of req.Client: whoever has read an object runs again when it
\* changes, selected or not.  An object that is deleted or loses its labels matches no
\* selector, hence triggers nobody who has listed it (matcher.go).
ReadersAreTriggered ==
  \A t \in Objects, d \in Queries, o \in Objects :
    Stale(t, d, o) => PendingRun(t) \/ (o # t /\ PendingAnnounce(o))

\* The loop of the objects that have handlers, as ObjectLoop sees it.
Mine          == {o \in Objects : KindOf[o] \in Handled}
Running(o)    == {w \in Workers : Target(w) = o /\ pc[w] = "handle"}
Concluding(o) == {w \in Workers : Target(w) = o /\ pc[w] \in {"trigger", "save", "retry"}}

Cached == [o \in Mine |-> cache[o]]
Owed   == {o \in Mine : PendingRun(o)}
Given  == [o \in Mine |-> {obj[w] : w \in Running(o)}]
Saving == {o \in Mine : Concluding(o) # {}}
Ran    == [o \in Mine |-> reconciled[o]]

Loop == INSTANCE ObjectLoop WITH
  Objects <- Mine, Values <- Value, Missing <- NotFound, state <- Cached, owed <- Owed,
  given <- Given, saving <- Saving, reconciled <- Ran

\* Keys of three forms, whatever is dropped, merged, postponed, replayed, read stale or
\* fails, amount to a loop that owes an object a run until its handlers begin with the
\* object as it is by then, one run at a time until it is saved.
ImplementsObjectLoop == Loop!Spec

\* Once changes and errors stop, every handler has run with the latest state of
\* its object and none of the answers it got is out of date, for good.
Converges ==
  <>[] /\ \A o \in Objects : KindOf[o] \in Handled => reconciled[o] = cache[o]
       /\ \A t \in Objects, d \in Queries, o \in Objects : ~Stale(t, d, o)

=============================================================================
