-------------------------- MODULE Controller_proofs --------------------------
(***************************************************************************)
(* A controller that is started once implements KeyQueue, for any keys,    *)
(* workers and number of requests.                                         *)
(***************************************************************************)
EXTENDS Controller, TLAPS

StartedOnce == MaxRuns = 1

---------------------------------------------------------------------------
(* The one queue and who works on it.                                      *)

Q == queues[1]

\* There is a queue once run has begun, and it is shut down at its end.
QueueInv ==
  /\ ctx[1] = "none" <=> phase[1] = "none"
  /\ current = 0 => /\ Q = EmptyQueue
                    /\ phase[1] \in {"none", "waiting", "failed", "spawned"}
                    /\ \A p \in Procs : wpc[p] = "none"
  /\ current = 1 => /\ phase[1] \in {"running", "stopping", "shut", "ended"}
                    /\ Q.shut <=> phase[1] \in {"shut", "ended"}
  /\ Q.shut => Q.delayed = {}

\* The keys being processed are those of the busy workers, one each.
WorkInv ==
  /\ \A p \in Procs : wpc[p] \in {"get", "busy"} => wqueue[p] = 1
  /\ \A p \in Procs : wkey[p] = {} \/ \E k \in Keys : wkey[p] = {k}
  /\ \A p1, p2 \in Procs : p1 # p2 => wkey[p1] \cap wkey[p2] = {}
  /\ Q.processing = Serving

Inv == TypeOK /\ QueueInv /\ WorkInv

\* With one run there is one queue.
LEMMA OneRun ==
  ASSUME StartedOnce
  PROVE  /\ Runs = {1} /\ 0 .. MaxRuns = {0, 1}
         /\ \A p \in Procs : p[1] = 1
<1>1. Runs = {1} /\ 0 .. MaxRuns = {0, 1}
  BY DEF StartedOnce, Runs
<1>2. \A p \in Procs : p[1] = 1
  BY <1>1 DEF Procs
<1> QED
  BY <1>1, <1>2

\* The four fields of a queue.
Fields(q, dirty, processing, delayed, shut) ==
  /\ q \in QueueOf(Keys)
  /\ q.dirty = dirty /\ q.processing = processing /\ q.delayed = delayed /\ q.shut = shut

\* What the operations of the work queue do to a queue.
LEMMA QueueOps ==
  ASSUME NEW q \in QueueOf(Keys), NEW k \in Keys
  PROVE  /\ Fields(Add(q, {k}), IF q.shut THEN q.dirty ELSE q.dirty \cup {k},
                   q.processing, q.delayed, q.shut)
         /\ Fields(AddAfter(q, {k}), q.dirty, q.processing,
                   IF q.shut THEN q.delayed ELSE q.delayed \cup {k}, q.shut)
         /\ Fields(Fire(q, k), IF q.shut THEN q.dirty ELSE q.dirty \cup {k}, q.processing,
                   q.delayed \ {k}, q.shut)
         /\ Fields(Get(q, k), q.dirty \ {k}, q.processing \cup {k}, q.delayed, q.shut)
         /\ Fields(Done(q, k), q.dirty, q.processing \ {k}, q.delayed, q.shut)
         /\ Fields(ShutDown(q), q.dirty, q.processing, {}, TRUE)
<1> USE DEF Fields, QueueOf
<1>1. Fields(Add(q, {k}), IF q.shut THEN q.dirty ELSE q.dirty \cup {k},
             q.processing, q.delayed, q.shut)
  BY DEF Add
<1>2. Fields(AddAfter(q, {k}), q.dirty, q.processing,
             IF q.shut THEN q.delayed ELSE q.delayed \cup {k}, q.shut)
  BY DEF AddAfter
<1>3. Fields(Fire(q, k), IF q.shut THEN q.dirty ELSE q.dirty \cup {k}, q.processing,
             q.delayed \ {k}, q.shut)
  BY DEF Fire, Add
<1>4. Fields(Get(q, k), q.dirty \ {k}, q.processing \cup {k}, q.delayed, q.shut)
  BY DEF Get
<1>5. Fields(Done(q, k), q.dirty, q.processing \ {k}, q.delayed, q.shut)
  BY DEF Done
<1>6. Fields(ShutDown(q), q.dirty, q.processing, {}, TRUE)
  BY DEF ShutDown
<1> QED
  BY <1>1, <1>2, <1>3, <1>4, <1>5, <1>6

\* The queue that run makes.
NewQueue(now, later) == [dirty |-> now, processing |-> {}, delayed |-> later, shut |-> FALSE]

\* It holds the keys kept for it.
LEMMA NewQueueFacts ==
  ASSUME NEW now, NEW later
  PROVE  AddAfter(Add(EmptyQueue, now), later) = NewQueue(now, later)
BY DEF Add, AddAfter, EmptyQueue, NewQueue

\* The keys kept for the run are keys.
LEMMA StartKeysType ==
  ASSUME TypeOK
  PROVE  /\ {s[1] : s \in {t \in startKeys : ~t[2]}} \in SUBSET Keys
         /\ {s[1] : s \in {t \in startKeys : t[2]}} \in SUBSET Keys
         /\ {s[1] : s \in startKeys} = {s[1] : s \in {t \in startKeys : ~t[2]}}
                                       \cup {s[1] : s \in {t \in startKeys : t[2]}}
BY DEF TypeOK

\* The one queue is a queue.
LEMMA QType ==
  ASSUME TypeOK, StartedOnce
  PROVE  /\ Q \in QueueOf(Keys) /\ current \in {0, 1}
         /\ \A q \in QueueOf(Keys) : [queues EXCEPT ![1] = q] \in [Runs -> QueueOf(Keys)]
         /\ \A q : [queues EXCEPT ![1] = q][1] = q
BY OneRun DEF TypeOK, Q

\* The operations on the one queue.
LEMMA QOps ==
  ASSUME TypeOK, StartedOnce, NEW k \in Keys
  PROVE  /\ Fields(Add(Q, {k}), IF Q.shut THEN Q.dirty ELSE Q.dirty \cup {k},
                   Q.processing, Q.delayed, Q.shut)
         /\ Fields(AddAfter(Q, {k}), Q.dirty, Q.processing,
                   IF Q.shut THEN Q.delayed ELSE Q.delayed \cup {k}, Q.shut)
         /\ Fields(Fire(Q, k), IF Q.shut THEN Q.dirty ELSE Q.dirty \cup {k}, Q.processing,
                   Q.delayed \ {k}, Q.shut)
         /\ Fields(Get(Q, k), Q.dirty \ {k}, Q.processing \cup {k}, Q.delayed, Q.shut)
BY QType, QueueOps

\* A request is kept for the run, put on its queue, or dropped by a queue that
\* is shut down.
LEMMA RequestSteps ==
  ASSUME TypeOK, StartedOnce, NEW k \in Keys, HandleObject(k) \/ Requests(k)
  PROVE  /\ UNCHANGED <<current, registered, started, ctx, phase, wpc, wqueue, wkey>>
         /\ current = 0 =>
              queues' = queues /\ \E b \in BOOLEAN : startKeys' = startKeys \cup {<<k, b>>}
         /\ current = 1 =>
              /\ startKeys' = startKeys
              /\ queues' \in [Runs -> QueueOf(Keys)]
              /\ Q'.processing = Q.processing /\ Q'.shut = Q.shut
              /\ Q.shut => Q'.dirty = Q.dirty /\ Q'.delayed = Q.delayed
              /\ ~Q.shut => Q'.dirty \cup Q'.delayed = Q.dirty \cup Q.delayed \cup {k}
<1>1. UNCHANGED <<current, registered, started, ctx, phase, wpc, wqueue, wkey>>
  BY DEF HandleObject, Requests, EnqueueKey, Enqueue, EnqueueAfter, Input, AddKey, lifecycle,
         workers
<1>2. ASSUME current = 0
      PROVE  queues' = queues /\ \E b \in BOOLEAN : startKeys' = startKeys \cup {<<k, b>>}
  <2>1. /\ queues' = queues
        /\ \/ startKeys' = startKeys \cup {<<k, FALSE>>}
           \/ startKeys' = startKeys \cup {<<k, TRUE>>}
    BY <1>2 DEF HandleObject, Requests, EnqueueKey, Enqueue, EnqueueAfter, AddKey
  <2> QED
    BY <2>1
<1>3. ASSUME current = 1
      PROVE  /\ startKeys' = startKeys
             /\ queues' \in [Runs -> QueueOf(Keys)]
             /\ Q' = Add(Q, {k}) \/ Q' = AddAfter(Q, {k})
  <2>1. /\ startKeys' = startKeys
        /\ \/ queues' = [queues EXCEPT ![1] = Add(Q, {k})]
           \/ queues' = [queues EXCEPT ![1] = AddAfter(Q, {k})]
    BY <1>3 DEF HandleObject, Requests, EnqueueKey, Enqueue, EnqueueAfter, AddKey, Q
  <2>2. Add(Q, {k}) \in QueueOf(Keys) /\ AddAfter(Q, {k}) \in QueueOf(Keys)
    BY QType, QueueOps DEF Fields
  <2>3. queues' \in [Runs -> QueueOf(Keys)]
    BY <2>1, <2>2, QType
  <2>4. Q' = Add(Q, {k}) \/ Q' = AddAfter(Q, {k})
    BY <2>1, QType DEF Q
  <2> QED
    BY <2>1, <2>3, <2>4
<1>4. ASSUME Q' = Add(Q, {k}) \/ Q' = AddAfter(Q, {k})
      PROVE  /\ Q'.processing = Q.processing /\ Q'.shut = Q.shut
             /\ Q.shut => Q'.dirty = Q.dirty /\ Q'.delayed = Q.delayed
             /\ ~Q.shut => Q'.dirty \cup Q'.delayed = Q.dirty \cup Q.delayed \cup {k}
  <2>1. CASE Q' = Add(Q, {k})
    BY <2>1, QOps DEF Fields
  <2>2. CASE Q' = AddAfter(Q, {k})
    BY <2>2, QOps DEF Fields
  <2> QED
    BY <1>4, <2>1, <2>2
<1> QED
  BY <1>1, <1>2, <1>3, <1>4

\* What a worker does to the queue when the handler returns.
LEMMA ReturnSteps ==
  ASSUME Inv, StartedOnce, NEW p \in Procs, NEW err \in BOOLEAN, HandlerReturns(p, err)
  PROVE  /\ current = 1
         /\ queues' \in [Runs -> QueueOf(Keys)]
         /\ \E k \in Keys :
              /\ wkey[p] = {k}
              /\ Q'.processing = Q.processing \ {k} /\ Q'.dirty = Q.dirty /\ Q'.shut = Q.shut
              /\ Q'.delayed = Q.delayed \/ (~Q.shut /\ Q'.delayed = Q.delayed \cup {k})
<1> USE DEF Inv
<1>1. current = 1 /\ wqueue[p] = 1 /\ wpc[p] = "busy"
  BY QType DEF HandlerReturns, QueueInv, WorkInv
<1>2. PICK k \in Keys : wkey[p] = {k}
  BY <1>1 DEF TypeOK, WorkInv
<1> DEFINE q == IF err THEN AddAfter(Q, {k}) ELSE Q
<1>3. q \in QueueOf(Keys) /\ q.dirty = Q.dirty /\ q.processing = Q.processing /\ q.shut = Q.shut
      /\ (q.delayed = Q.delayed \/ (~Q.shut /\ q.delayed = Q.delayed \cup {k}))
  BY QType, QOps DEF Fields
<1>4. queues' = [queues EXCEPT ![1] = Done(q, k)]
  <2>1. CASE ~err
    BY <1>1, <1>2, <2>1 DEF HandlerReturns, Q
  <2>2. CASE err
    <3>1. queues' = [[queues EXCEPT ![1] = AddAfter(Q, {k})] EXCEPT ![1] = Done(@, k)]
      BY <1>1, <1>2, <2>2 DEF HandlerReturns, Q
    <3> QED
      BY <2>2, <3>1, OneRun DEF TypeOK
  <2> QED
    BY <2>1, <2>2
<1> HIDE DEF q
<1>5. Fields(Done(q, k), q.dirty, q.processing \ {k}, q.delayed, q.shut)
  BY <1>3, QueueOps
<1>6. queues' \in [Runs -> QueueOf(Keys)] /\ Q' = Done(q, k)
  BY <1>4, <1>5, QType DEF Fields, Q
<1> QED
  BY <1>1, <1>2, <1>3, <1>5, <1>6 DEF Fields

\* Types hold throughout the life of a controller.
LEMMA TypeStep ==
  ASSUME Inv, StartedOnce, [Next]_vars
  PROVE  TypeOK'
<1> USE DEF Inv
<1>o. Runs = {1} /\ 0 .. MaxRuns = {0, 1} /\ \A p \in Procs : p[1] = 1
  BY OneRun
<1>1. CASE Sync
  BY <1>1 DEF Sync, TypeOK, lifecycle, keys, workers
<1>2. ASSUME NEW k \in Keys, Change(k) PROVE TypeOK'
  BY <1>2, ControllerAssumption DEF Change, TypeOK, lifecycle, keys, workers
<1>3. ASSUME NEW k \in Keys, HandleObject(k) \/ Requests(k) PROVE TypeOK'
  <2>1. /\ events' \subseteq Keys /\ inputs' \in 0 .. MaxInputs
        /\ UNCHANGED <<known, synced, cacheStarted, listening, fails>>
    <3>1. CASE HandleObject(k)
      BY <3>1 DEF HandleObject, TypeOK
    <3>2. CASE Requests(k)
      <4>1. Input
        BY <3>2 DEF Requests, EnqueueKey, Enqueue, EnqueueAfter
      <4> QED
        BY <4>1, ControllerAssumption DEF Input, TypeOK, informer
    <3> QED
      BY <1>3, <3>1, <3>2
  <2>2. /\ queues' \in [Runs -> QueueOf(Keys)] /\ startKeys' \subseteq Keys \X BOOLEAN
        /\ current # 0 => startKeys' = {}
    <3>1. CASE current = 0
      <4>1. queues' = queues /\ \E b \in BOOLEAN : startKeys' = startKeys \cup {<<k, b>>}
        BY <1>3, <3>1, RequestSteps
      <4> QED
        BY <3>1, <4>1 DEF TypeOK
    <3>2. CASE current = 1
      <4>1. startKeys' = startKeys /\ queues' \in [Runs -> QueueOf(Keys)]
        BY <1>3, <3>2, RequestSteps
      <4> QED
        BY <3>2, <4>1 DEF TypeOK
    <3> QED
      BY <3>1, <3>2, QType
  <2> QED
    BY <1>3, <2>1, <2>2, RequestSteps DEF TypeOK
<1>5. ASSUME NEW r \in Runs, NEW k \in Keys, Timer(r, k) PROVE TypeOK'
  <2>1. queues' = [queues EXCEPT ![1] = Fire(Q, k)]
    BY <1>5, <1>o DEF Timer, Q
  <2>2. queues' \in [Runs -> QueueOf(Keys)]
    BY <2>1, QType, QueueOps DEF Fields
  <2> QED
    BY <1>5, <2>2 DEF Timer, TypeOK, informer, lifecycle, workers
<1>6. ASSUME NEW r \in Runs, Start(r) \/ StartReturns(r) \/ StartFails(r) \/ Cancel(r)
      PROVE  TypeOK'
  BY <1>6 DEF Start, StartReturns, StartFails, Cancel, TypeOK, Phase, informer, keys, workers
<1>7. ASSUME NEW r \in Runs, Run(r) PROVE TypeOK'
  <2> DEFINE now == {s[1] : s \in {t \in startKeys : ~t[2]}}
             later == {s[1] : s \in {t \in startKeys : t[2]}}
  <2>1. NewQueue(now, later) \in QueueOf(Keys)
    BY StartKeysType DEF QueueOf, NewQueue
  <2>2. queues' \in [Runs -> QueueOf(Keys)]
    BY <1>7, <2>1, NewQueueFacts DEF Run, TypeOK
  <2>3. wpc' \in [Procs -> WorkerPc] /\ \A p \in Procs : wkey[p] = {} /\ wpc'[p] # "busy"
    BY <1>7, <1>o DEF Run, TypeOK, WorkerPc, QueueInv
  <2> QED
    BY <1>7, <1>o, <2>2, <2>3 DEF Run, TypeOK, Phase, informer
<1>8. ASSUME NEW r \in Runs, RunStops(r) \/ RunEnds(r) PROVE TypeOK'
  BY <1>8 DEF RunStops, RunEnds, TypeOK, Phase, informer, keys, workers
<1>9. ASSUME NEW r \in Runs, RunShutsDown(r) PROVE TypeOK'
  <2>1. current = 1
    BY <1>9, <1>o, QType DEF RunShutsDown, QueueInv
  <2>2. queues' = [queues EXCEPT ![1] = ShutDown(Q)]
    BY <1>9, <2>1 DEF RunShutsDown, Q
  <2>3. ShutDown(Q) \in QueueOf(Keys)
    BY QType DEF QueueOf, ShutDown
  <2>4. queues' \in [Runs -> QueueOf(Keys)]
    BY <2>2, <2>3, QType
  <2> QED
    BY <1>9, <2>4 DEF RunShutsDown, TypeOK, Phase, informer, workers
<1>10. ASSUME NEW p \in Procs, Until(p) \/ CallGet(p) \/ GetShutdown(p) PROVE TypeOK'
  BY <1>10 DEF Until, CallGet, GetShutdown, TypeOK, WorkerPc, informer, lifecycle, keys
<1>11. ASSUME NEW p \in Procs, NEW k \in Keys, Take(p, k) PROVE TypeOK'
  <2>1. wqueue[p] = 1
    BY <1>11 DEF Take, WorkInv
  <2>2. queues' = [queues EXCEPT ![1] = Get(Q, k)]
    BY <1>11, <2>1 DEF Take, Q
  <2>3. queues' \in [Runs -> QueueOf(Keys)]
    BY <2>2, QType, QueueOps DEF Fields
  <2> QED
    BY <1>11, <2>3 DEF Take, TypeOK, WorkerPc, informer, lifecycle
<1>12. ASSUME NEW p \in Procs, NEW err \in BOOLEAN, HandlerReturns(p, err) PROVE TypeOK'
  <2>1. fails' \in 0 .. MaxFails
    BY <1>12, ControllerAssumption DEF HandlerReturns, TypeOK
  <2>2. queues' \in [Runs -> QueueOf(Keys)]
    BY <1>12, ReturnSteps
  <2> QED
    BY <1>12, <2>1, <2>2 DEF HandlerReturns, TypeOK, WorkerPc, informer, lifecycle
<1>13. CASE UNCHANGED vars
  BY <1>13 DEF vars, informer, lifecycle, keys, workers, TypeOK
<1> QED
  BY <1>1, <1>2, <1>3, <1>5, <1>6, <1>7, <1>8, <1>9, <1>10, <1>11, <1>12, <1>13
  DEF Next, Informer, Life, Work

---------------------------------------------------------------------------
(* The invariant is inductive.                                             *)

\* Q is the queue before the step and Q' the one after it.
LEMMA InvStep ==
  ASSUME Inv, StartedOnce, [Next]_vars
  PROVE  QueueInv' /\ WorkInv'
<1> USE DEF Inv
<1>o. Runs = {1} /\ \A p \in Procs : p[1] = 1
  BY OneRun
<1> DEFINE Goal == QueueInv' /\ WorkInv'
<1>1. ASSUME Q' = Q, UNCHANGED <<current, ctx, phase, wkey>>,
             \A p \in Procs : wpc'[p] \in {"get", "busy"} => wqueue'[p] = 1,
             current = 0 => wpc' = wpc
      PROVE  Goal
  BY <1>1 DEF QueueInv, WorkInv, Serving
<1>2. CASE Sync \/ UNCHANGED vars \/ \E k \in Keys : Change(k)
  <2>1. UNCHANGED <<keys, workers, ctx, phase>>
    BY <1>2 DEF Sync, Change, vars, lifecycle
  <2> QED
    BY <1>1, <2>1 DEF keys, workers, Q, WorkInv
<1>3. ASSUME NEW k \in Keys, HandleObject(k) \/ Requests(k) PROVE Goal
  <2>1. UNCHANGED <<current, ctx, phase, wpc, wqueue, wkey>>
    BY <1>3, RequestSteps
  <2>2. CASE current = 0
    <3>1. Q' = Q
      BY <1>3, <2>2, RequestSteps DEF Q
    <3> QED
      BY <1>1, <2>1, <3>1 DEF WorkInv
  <2>3. CASE current = 1
    <3>1. /\ Q'.processing = Q.processing /\ Q'.shut = Q.shut
          /\ Q.shut => Q'.delayed = Q.delayed
      BY <1>3, <2>3, RequestSteps
    <3> QED
      BY <2>1, <2>3, <3>1 DEF QueueInv, WorkInv, Serving
  <2> QED
    BY <2>2, <2>3, QType
<1>4. ASSUME NEW r \in Runs, NEW k \in Keys, Timer(r, k) PROVE Goal
  <2>1. Q' = Fire(Q, k)
    BY <1>4, <1>o, QType DEF Timer, Q
  <2>2. ~Q.shut /\ current = 1 /\ UNCHANGED <<current, ctx, phase, workers>>
    BY <1>4, <1>o, QType DEF Timer, Q, lifecycle, QueueInv, EmptyQueue
  <2>3. Q'.processing = Q.processing /\ Q'.shut = Q.shut
    BY <1>4, <2>1, QOps DEF Fields
  <2> QED
    BY <2>2, <2>3 DEF QueueInv, WorkInv, Serving, workers
<1>5. ASSUME NEW r \in Runs, Start(r) \/ StartReturns(r) \/ StartFails(r) \/ Cancel(r)
      PROVE  Goal
  <2>1. UNCHANGED <<keys, workers>>
    BY <1>5 DEF Start, StartReturns, StartFails, Cancel
  <2>2. CASE Cancel(r)
    <3>1. phase' = phase /\ (ctx'[1] = "none" <=> ctx[1] = "none")
      BY <2>2, <1>o DEF Cancel, TypeOK
    <3> QED
      BY <2>1, <3>1 DEF QueueInv, WorkInv, Serving, keys, workers, Q
  <2>3. CASE ~Cancel(r)
    <3>1. phase[1] \in {"none", "waiting"}
      BY <1>5, <2>3, <1>o DEF Start, StartReturns, StartFails, QueueInv
    <3>2. current = 0
      BY <3>1, QType DEF QueueInv
    <3>3. phase'[1] \in {"waiting", "spawned", "failed"} /\ ctx'[1] # "none"
      BY <1>5, <2>3, <1>o DEF Start, StartReturns, StartFails, QueueInv, TypeOK
    <3> QED
      BY <2>1, <3>2, <3>3 DEF QueueInv, WorkInv, Serving, keys, workers, Q
  <2> QED
    BY <2>2, <2>3
<1>6. ASSUME NEW r \in Runs, Run(r) PROVE Goal
  <2>1. phase[1] = "spawned" /\ current = 0
    BY <1>6, <1>o, QType DEF Run, QueueInv
  <2> DEFINE now == {s[1] : s \in {t \in startKeys : ~t[2]}}
             later == {s[1] : s \in {t \in startKeys : t[2]}}
  <2>2. queues' = [queues EXCEPT ![1] = NewQueue(now, later)]
    BY <1>6, <1>o, NewQueueFacts DEF Run
  <2>3. Q' = NewQueue(now, later)
    BY <2>2, QType DEF Q
  <2>4. Q'.processing = {} /\ Q'.shut = FALSE
    BY <2>3 DEF NewQueue
  <2>5. \A p \in Procs : wkey[p] = {} /\ wkey'[p] = {} /\ wpc'[p] = "until"
    BY <1>6, <1>o, <2>1 DEF Run, QueueInv, TypeOK
  <2>6. current' = 1 /\ phase'[1] = "running" /\ ctx' = ctx
    BY <1>6, <1>o DEF Run, TypeOK
  <2> QED
    BY <2>1, <2>4, <2>5, <2>6 DEF QueueInv, WorkInv, Serving
<1>7. ASSUME NEW r \in Runs, RunStops(r) \/ RunEnds(r) PROVE Goal
  <2>1. /\ UNCHANGED <<keys, workers, ctx>> /\ current = 1
        /\ phase'[1] \in {"stopping", "ended"} /\ (phase'[1] = "ended" <=> phase[1] = "shut")
        /\ phase[1] \in {"running", "shut"}
    BY <1>7, <1>o, QType DEF RunStops, RunEnds, TypeOK, QueueInv
  <2> QED
    BY <2>1 DEF QueueInv, WorkInv, Serving, keys, workers, Q
<1>8. ASSUME NEW r \in Runs, RunShutsDown(r) PROVE Goal
  <2>1. /\ current = 1 /\ UNCHANGED <<current, workers, ctx>>
        /\ phase[1] = "stopping" /\ phase'[1] = "shut"
    BY <1>8, <1>o, QType DEF RunShutsDown, QueueInv, TypeOK
  <2>2. Q' = ShutDown(Q)
    BY <1>8, <2>1, QType DEF RunShutsDown, Q
  <2>3. Q'.shut = TRUE /\ Q'.delayed = {} /\ Q'.processing = Q.processing
    BY <2>2, QType DEF ShutDown, QueueOf
  <2> QED
    BY <2>1, <2>3 DEF QueueInv, WorkInv, Serving, workers
<1>9. ASSUME NEW p \in Procs, Until(p) \/ CallGet(p) \/ GetShutdown(p) PROVE Goal
  <2>1. current = 1 /\ UNCHANGED <<keys, wkey, ctx, phase>>
    BY <1>9, QType DEF Until, CallGet, GetShutdown, lifecycle, QueueInv
  <2>2. \A x \in Procs : wpc'[x] \in {"get", "busy"} => wqueue'[x] = 1
    BY <1>9, <2>1 DEF Until, CallGet, GetShutdown, WorkInv, TypeOK
  <2> QED
    BY <1>1, <2>1, <2>2 DEF keys, Q
<1>10. ASSUME NEW p \in Procs, NEW k \in Keys, Take(p, k) PROVE Goal
  <2>1. wqueue[p] = 1 /\ current = 1 /\ wkey[p] = {}
    BY <1>10, QType DEF Take, WorkInv, QueueInv, TypeOK
  <2>2. Q' = Get(Q, k) /\ k \in Q.dirty \ Q.processing
    BY <1>10, <2>1, QType DEF Take, Q, Ready
  <2>3. Q'.processing = Q.processing \cup {k} /\ Q'.delayed = Q.delayed /\ Q'.shut = Q.shut
    BY <1>10, <2>2, QOps DEF Fields
  <2>4. UNCHANGED <<current, ctx, phase>> /\ wkey' = [wkey EXCEPT ![p] = {k}]
        /\ \A x \in Procs : wpc'[x] \in {"get", "busy"} => wqueue'[x] = 1
    BY <1>10, <2>1 DEF Take, lifecycle, WorkInv, TypeOK
  <2>5. \A x \in Procs : wkey'[x] = IF x = p THEN {k} ELSE wkey[x]
    BY <2>4 DEF TypeOK
  <2>6. Serving' = Serving \cup {k} /\ k \notin Serving
    <3>1. Serving' = Serving \cup {k}
      BY <2>1, <2>5 DEF Serving
    <3> QED
      BY <2>2, <3>1 DEF WorkInv
  <2>7. \A x \in Procs : k \notin wkey[x]
    BY <2>6 DEF Serving
  <2>8. WorkInv'
    BY <2>3, <2>4, <2>5, <2>6, <2>7 DEF WorkInv
  <2> QED
    BY <2>1, <2>3, <2>4, <2>8 DEF QueueInv
<1>11. ASSUME NEW p \in Procs, NEW err \in BOOLEAN, HandlerReturns(p, err) PROVE Goal
  <2>1. PICK k \in Keys :
          /\ wkey[p] = {k}
          /\ Q'.processing = Q.processing \ {k} /\ Q'.dirty = Q.dirty /\ Q'.shut = Q.shut
          /\ Q'.delayed = Q.delayed \/ (~Q.shut /\ Q'.delayed = Q.delayed \cup {k})
    BY <1>11, ReturnSteps
  <2>3. current = 1 /\ UNCHANGED <<current, ctx, phase, wqueue>> /\ wkey' = [wkey EXCEPT ![p] = {}]
        /\ \A x \in Procs : wpc'[x] \in {"get", "busy"} => wpc[x] = wpc'[x]
    BY <1>11, ReturnSteps DEF HandlerReturns, lifecycle, TypeOK
  <2>4. \A x \in Procs : wkey'[x] = IF x = p THEN {} ELSE wkey[x]
    BY <2>3 DEF TypeOK
  <2>5. \A x \in Procs : x # p => k \notin wkey[x]
    BY <2>1 DEF WorkInv
  <2>6. Serving' = Serving \ {k}
    BY <2>1, <2>4, <2>5 DEF Serving
  <2>7. WorkInv'
    BY <2>1, <2>3, <2>4, <2>6 DEF WorkInv
  <2> QED
    BY <2>1, <2>3, <2>7 DEF QueueInv
<1> QED
  BY <1>2, <1>3, <1>4, <1>5, <1>6, <1>7, <1>8, <1>9, <1>10, <1>11
  DEF Next, Informer, Life, Work

---------------------------------------------------------------------------
(* The refinement.                                                         *)

Kept == {s[1] : s \in startKeys}

\* What KeyQueue sees of a controller that is run once.
LEMMA Mapping ==
  ASSUME StartedOnce, TypeOK
  PROVE  /\ Due = Kept \cup Q.dirty \cup Q.delayed
         /\ Closed = Q.shut
<1>1. UNION {queues[r].dirty \cup queues[r].delayed : r \in Runs} = Q.dirty \cup Q.delayed
  BY OneRun DEF Q
<1>2. Closed <=> Q.shut
  BY OneRun DEF Closed, Q
<1>3. Closed \in BOOLEAN /\ Q.shut \in BOOLEAN
  BY QType DEF Closed, QueueOf
<1> QED
  BY <1>1, <1>2, <1>3 DEF Due, Kept

\* The same, after a step.
LEMMA MappingPrime ==
  ASSUME StartedOnce, TypeOK'
  PROVE  /\ Due' = Kept' \cup Q'.dirty \cup Q'.delayed
         /\ Closed' = Q'.shut
<1>1. UNION {queues'[r].dirty \cup queues'[r].delayed : r \in Runs} = Q'.dirty \cup Q'.delayed
  BY OneRun DEF Q
<1>2. Closed' <=> Q'.shut
  BY OneRun DEF Closed, Q
<1>3. Closed' \in BOOLEAN /\ Q'.shut \in BOOLEAN
  BY OneRun DEF Closed, QueueOf, Q, TypeOK
<1> QED
  BY <1>1, <1>2, <1>3 DEF Due, Kept

\* Every step of the controller is a step of KeyQueue or changes nothing it sees.
LEMMA RefinementStep ==
  ASSUME Inv, StartedOnce, [Next]_vars
  PROVE  [Abstract!Next]_(Abstract!vars)
<1> USE DEF Inv
<1> DEFINE Same == Due' = Due /\ Serving' = Serving /\ Closed' = Closed
           Goal == Same \/ Abstract!Next
<1>o. Runs = {1} /\ \A p \in Procs : p[1] = 1
  BY OneRun
<1>m. /\ Due = Kept \cup Q.dirty \cup Q.delayed /\ Closed = Q.shut
      /\ Due' = Kept' \cup Q'.dirty \cup Q'.delayed /\ Closed' = Q'.shut
  BY TypeStep, Mapping, MappingPrime
<1>1. ASSUME Kept' = Kept, Q' = Q, wkey' = wkey PROVE Same
  BY <1>1, <1>m DEF Serving
<1>2. ASSUME Sync \/ UNCHANGED vars \/ \E k \in Keys : Change(k) PROVE Goal
  <2>1. UNCHANGED <<keys, workers>>
    BY <1>2 DEF Sync, Change, vars
  <2> QED
    BY <1>1, <2>1 DEF keys, workers, Q, Kept
<1>3. ASSUME NEW k \in Keys, HandleObject(k) \/ Requests(k) PROVE Goal
  <2>1. Serving' = Serving
    BY <1>3, RequestSteps DEF Serving
  <2>2. CASE current = 0
    <3>1. Q' = Q /\ ~Q.shut
      BY <1>3, <2>2, RequestSteps DEF Q, QueueInv, EmptyQueue
    <3>2. Kept' = Kept \cup {k}
      <4>1. PICK b \in BOOLEAN : startKeys' = startKeys \cup {<<k, b>>}
        BY <1>3, <2>2, RequestSteps
      <4>2. {s[1] : s \in startKeys \cup {<<k, b>>}} = {s[1] : s \in startKeys} \cup {k}
        <5>1. <<k, b>>[1] = k
          OBVIOUS
        <5> QED
          BY <5>1
      <4> QED
        BY <4>1, <4>2 DEF Kept
    <3>3. Abstract!Request(k)
      BY <2>1, <3>1, <3>2, <1>m DEF Abstract!Request
    <3> QED
      BY <3>3 DEF Abstract!Next
  <2>3. CASE current = 1 /\ Q.shut
    <3>1. Q'.dirty = Q.dirty /\ Q'.delayed = Q.delayed /\ Q'.shut = Q.shut /\ Kept' = Kept
      BY <1>3, <2>3, RequestSteps DEF Kept
    <3> QED
      BY <2>1, <3>1, <1>m
  <2>4. CASE current = 1 /\ ~Q.shut
    <3>1. /\ Q'.dirty \cup Q'.delayed = Q.dirty \cup Q.delayed \cup {k}
          /\ Q'.shut = Q.shut /\ Kept' = Kept
      BY <1>3, <2>4, RequestSteps DEF Kept
    <3>2. Abstract!Request(k)
      BY <2>1, <2>4, <3>1, <1>m DEF Abstract!Request
    <3> QED
      BY <3>2 DEF Abstract!Next
  <2> QED
    BY <2>2, <2>3, <2>4, QType
<1>4. ASSUME NEW r \in Runs, NEW k \in Keys, Timer(r, k) PROVE Goal
  <2>1. Q' = Fire(Q, k) /\ k \in Q.delayed /\ ~Q.shut /\ Kept' = Kept /\ wkey' = wkey
    BY <1>4, <1>o, QType DEF Timer, Q, QueueInv, Kept, workers
  <2>2. Q'.dirty = Q.dirty \cup {k} /\ Q'.delayed = Q.delayed \ {k} /\ Q'.shut = Q.shut
    BY <1>4, <2>1, QOps DEF Fields
  <2> QED
    BY <2>1, <2>2, <1>m DEF Serving
<1>5. ASSUME NEW r \in Runs, Start(r) \/ StartReturns(r) \/ StartFails(r) \/ Cancel(r)
                             \/ RunStops(r) \/ RunEnds(r)
      PROVE  Goal
  <2>1. UNCHANGED <<keys, workers>>
    BY <1>5 DEF Start, StartReturns, StartFails, Cancel, RunStops, RunEnds
  <2> QED
    BY <1>1, <2>1 DEF keys, workers, Q, Kept
<1>6. ASSUME NEW r \in Runs, Run(r) PROVE Goal
  <2> DEFINE now == {s[1] : s \in {t \in startKeys : ~t[2]}}
             later == {s[1] : s \in {t \in startKeys : t[2]}}
  <2>1. queues' = [queues EXCEPT ![1] = NewQueue(now, later)]
    BY <1>6, <1>o, NewQueueFacts DEF Run
  <2>2. Q' = NewQueue(now, later)
    BY <2>1, QType DEF Q
  <2>3. Q = EmptyQueue /\ Kept' = {} /\ wkey' = wkey
    BY <1>6, <1>o, QType DEF Run, QueueInv, Kept
  <2>4. Kept = now \cup later
    BY StartKeysType DEF Kept
  <2>5. Due' = Due /\ Closed' = Closed
    BY <2>2, <2>3, <2>4, <1>m DEF NewQueue, EmptyQueue
  <2> QED
    BY <2>3, <2>5 DEF Serving
<1>7. ASSUME NEW r \in Runs, RunShutsDown(r) PROVE Goal
  <2>1. /\ current = 1 /\ UNCHANGED <<startKeys, wkey>>
        /\ ~Q.shut
    BY <1>7, <1>o, QType DEF RunShutsDown, QueueInv, workers
  <2>2. Q' = ShutDown(Q)
    BY <1>7, <2>1, QType DEF RunShutsDown, Q
  <2>3. Q'.shut = TRUE /\ Q'.delayed = {} /\ Q'.dirty = Q.dirty
    BY <2>2, QType DEF ShutDown, QueueOf
  <2>4. Due' \subseteq Due /\ Serving' = Serving /\ ~Closed /\ Closed'
    BY <2>1, <2>3, <1>m DEF Kept, Serving
  <2>5. Abstract!Close
    BY <2>4 DEF Abstract!Close, Closed
  <2> QED
    BY <2>5 DEF Abstract!Next
<1>8. ASSUME NEW p \in Procs, Until(p) \/ CallGet(p) \/ GetShutdown(p) PROVE Goal
  BY <1>1, <1>8 DEF Until, CallGet, GetShutdown, keys, Q, Kept
<1>9. ASSUME NEW p \in Procs, NEW k \in Keys, Take(p, k) PROVE Goal
  <2>1. wqueue[p] = 1 /\ current = 1 /\ wkey[p] = {} /\ Kept = {} /\ Kept' = {}
    BY <1>9, QType DEF Take, WorkInv, QueueInv, TypeOK, Kept
  <2>2. Q' = Get(Q, k) /\ k \in Q.dirty \ Q.processing
    BY <1>9, <2>1, QType DEF Take, Q, Ready
  <2>3. Q'.dirty = Q.dirty \ {k} /\ Q'.delayed = Q.delayed /\ Q'.shut = Q.shut
    BY <1>9, <2>2, QOps DEF Fields
  <2>4. \A x \in Procs : wkey'[x] = IF x = p THEN {k} ELSE wkey[x]
    BY <1>9 DEF Take, TypeOK
  <2>5. Serving' = Serving \cup {k}
    BY <2>1, <2>4 DEF Serving
  <2>6. k \in Due \ Serving
    BY <2>2, <1>m DEF WorkInv
  <2>7. Closed' = Closed /\ (Due' = Due \/ Due' = Due \ {k})
    <3>1. CASE k \in Q.delayed
      BY <2>1, <2>2, <2>3, <3>1, <1>m
    <3>2. CASE k \notin Q.delayed
      BY <2>1, <2>2, <2>3, <3>2, <1>m
    <3> QED
      BY <3>1, <3>2
  <2>8. Abstract!Serve(k)
    BY <2>5, <2>6, <2>7 DEF Abstract!Serve
  <2> QED
    BY <2>8 DEF Abstract!Next
<1>10. ASSUME NEW p \in Procs, NEW err \in BOOLEAN, HandlerReturns(p, err) PROVE Goal
  <2>1. PICK k \in Keys :
          /\ wkey[p] = {k}
          /\ Q'.processing = Q.processing \ {k} /\ Q'.dirty = Q.dirty /\ Q'.shut = Q.shut
          /\ Q'.delayed = Q.delayed \/ (~Q.shut /\ Q'.delayed = Q.delayed \cup {k})
    BY <1>10, ReturnSteps
  <2>2. Kept' = Kept /\ \A x \in Procs : wkey'[x] = IF x = p THEN {} ELSE wkey[x]
    BY <1>10 DEF HandlerReturns, TypeOK, Kept
  <2>3. \A x \in Procs : x # p => k \notin wkey[x]
    BY <2>1 DEF WorkInv
  <2>4. Serving' = Serving \ {k} /\ k \in Serving
    BY <2>1, <2>2, <2>3 DEF Serving
  <2>5. Closed' = Closed /\ (Due' = Due \/ (~Closed /\ Due' = Due \cup {k}))
    BY <2>1, <2>2, <1>m
  <2>6. Abstract!Finish(k)
    BY <2>4, <2>5 DEF Abstract!Finish
  <2> QED
    BY <2>6 DEF Abstract!Next
<1>11. Goal
  <2> HIDE DEF Goal
  <2>1. ASSUME NEW k \in Keys, Informer(k) \/ Requests(k) PROVE Goal
    BY <1>2, <1>3, <2>1 DEF Informer
  <2>2. ASSUME NEW r \in Runs, Life(r) PROVE Goal
    BY <1>5, <1>6, <1>7, <2>2 DEF Life
  <2>3. ASSUME NEW p \in Procs, Work(p) PROVE Goal
    BY <1>8, <1>9, <1>10, <2>3 DEF Work
  <2>4. ASSUME Sync \/ UNCHANGED vars PROVE Goal
    BY <1>2, <2>4
  <2> QED
    BY <1>4, <2>1, <2>2, <2>3, <2>4 DEF Next
<1> QED
  BY <1>11 DEF Abstract!vars

\* The invariant holds throughout the life of a controller started once.
LEMMA ControllerInvariant ==
  ASSUME StartedOnce
  PROVE  Spec => []Inv
<1>1. Init => Inv
  <2> SUFFICES ASSUME Init PROVE Inv
    OBVIOUS
  <2> USE DEF Init
  <2>1. TypeOK
    <3>1. queues \in [Runs -> QueueOf(Keys)]
      BY DEF EmptyQueue, QueueOf
    <3>2. phase \in [Runs -> Phase] /\ wpc \in [Procs -> WorkerPc]
      BY DEF Phase, WorkerPc
    <3>3. /\ current \in 0 .. MaxRuns /\ inputs \in 0 .. MaxInputs /\ fails \in 0 .. MaxFails
          /\ wqueue \in [Procs -> 0 .. MaxRuns]
      BY ControllerAssumption
    <3> QED
      BY <3>1, <3>2, <3>3 DEF TypeOK
  <2>2. QueueInv
    BY OneRun DEF QueueInv, Q, EmptyQueue
  <2>3. WorkInv
    BY OneRun DEF WorkInv, Q, EmptyQueue, Serving
  <2> QED
    BY <2>1, <2>2, <2>3 DEF Inv
<1>2. Inv /\ [Next]_vars => Inv'
  BY TypeStep, InvStep DEF Inv
<1> QED
  BY <1>1, <1>2, PTL DEF Spec

\* A controller that is started once is a KeyQueue: requests are merged and never
\* lost, keys are served one worker at a time, failed keys are due again.
THEOREM ControllerIsKeyQueue ==
  ASSUME StartedOnce
  PROVE  Spec => ImplementsKeyQueue
<1>1. Init => Abstract!Init
  <2> SUFFICES ASSUME Init PROVE Abstract!Init
    OBVIOUS
  <2>1. Q = EmptyQueue /\ Serving = {} /\ startKeys = {}
    BY OneRun DEF Init, Q, Serving
  <2>2. Due = {}
    BY OneRun, <2>1 DEF Init, Due, EmptyQueue
  <2>3. Closed = FALSE
    BY OneRun, <2>1 DEF Closed, Q, EmptyQueue
  <2> QED
    BY <2>1, <2>2, <2>3 DEF Abstract!Init
<1>2. Inv /\ [Next]_vars => [Abstract!Next]_(Abstract!vars)
  BY RefinementStep
<1> QED
  BY <1>1, <1>2, ControllerInvariant, PTL DEF Spec, ImplementsKeyQueue, Abstract!Spec

\* The state of a controller that is started once is well typed, and its workers have
\* keys only while they are busy.
THEOREM ControllerTypes ==
  ASSUME StartedOnce
  PROVE  Spec => []TypeOK
<1>1. Inv => TypeOK
  BY DEF Inv
<1> QED
  BY <1>1, ControllerInvariant, PTL
=============================================================================
