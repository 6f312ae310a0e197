-------------------------- MODULE HandlerSet_proofs --------------------------
(* Theorems about HandlerSet, for every value of its constants. *)
EXTENDS HandlerSet, TLAPS

---------------------------------------------------------------------------
(* Typing.                                                                 *)

\* The values of objects.
LEMMA ValueFacts ==
  /\ NotFound \in Value /\ ~Exists(NotFound)
  /\ \A v \in Value : ~Exists(v) => v = NotFound
  /\ Nothing \in [Objects -> Value]
BY DEF Value, NotFound, Exists, Nothing

\* What the queue operations do to a queue that is not shut down.
OpenQueue == {q \in QueueOf(Items) : ~q.shut}

\* What Add does to the queue: keys become dirty, nothing else changes.
LEMMA AddFacts ==
  ASSUME NEW q \in OpenQueue, NEW S \in SUBSET Items
  PROVE  /\ Add(q, S) \in OpenQueue
         /\ Add(q, S).dirty = q.dirty \cup S
         /\ Add(q, S).processing = q.processing
         /\ Add(q, S).delayed = q.delayed
BY DEF OpenQueue, QueueOf, Add

\* What AddAfter does: keys become delayed, nothing else changes.
LEMMA AddAfterFacts ==
  ASSUME NEW q \in OpenQueue, NEW S \in SUBSET Items
  PROVE  /\ AddAfter(q, S) \in OpenQueue
         /\ AddAfter(q, S).dirty = q.dirty
         /\ AddAfter(q, S).processing = q.processing
         /\ AddAfter(q, S).delayed = q.delayed \cup S
BY DEF OpenQueue, QueueOf, AddAfter

\* What Fire, Get and Done do to the queue.
LEMMA QueueFacts ==
  ASSUME NEW q \in OpenQueue, NEW i \in Items
  PROVE  /\ Fire(q, i) \in OpenQueue
         /\ Fire(q, i).dirty = q.dirty \cup {i}
         /\ Fire(q, i).processing = q.processing
         /\ Fire(q, i).delayed = q.delayed \ {i}
         /\ Get(q, i) \in OpenQueue
         /\ Get(q, i).dirty = q.dirty \ {i}
         /\ Get(q, i).processing = q.processing \cup {i}
         /\ Get(q, i).delayed = q.delayed
         /\ Done(q, i) \in OpenQueue
         /\ Done(q, i).dirty = q.dirty
         /\ Done(q, i).processing = q.processing \ {i}
         /\ Done(q, i).delayed = q.delayed
BY DEF OpenQueue, QueueOf, Add, Fire, Get, Done

\* The three forms of key of an object, and which object a key is of.
LEMMA ItemFacts ==
  /\ \A o \in Objects :
       /\ Plain(o) \in Items /\ Plain(o)[1] = "plain" /\ Plain(o)[2] = o
       /\ Trigger(o) \in Items /\ Trigger(o)[1] = "trigger" /\ Trigger(o)[2] = o
       /\ Replay(o) \in Items /\ Replay(o)[1] = "replay" /\ Replay(o)[2] = o
       /\ {Plain(o)} \in SUBSET Items /\ {Replay(o)} \in SUBSET Items
  /\ \A i \in Items : /\ i[2] \in Objects /\ {i} \in SUBSET Items
                      /\ i[1] = "plain" => i = Plain(i[2])
BY DEF Items, Plain, Trigger, Replay

\* The item of a busy worker.
LEMMA TargetType ==
  ASSUME TypeOK, NEW w \in Workers, pc[w] # "idle"
  PROVE  item[w] \in Items /\ Target(w) \in Objects
BY ItemFacts DEF TypeOK, Target

\* invokeTriggers only enqueues keys of objects.
LEMMA DependentsType ==
  ASSUME NEW o, NEW v
  PROVE  /\ Dependents(o, v) \subseteq Objects
         /\ {Trigger(t) : t \in Dependents(o, v)} \in SUBSET Items
BY ItemFacts DEF Dependents

\* A client answers a query with objects or with NotFound.
LEMMA ViewType ==
  ASSUME TypeOK, NEW d \in Queries
  PROVE  View(d) \in [Objects -> Value]
BY ValueFacts DEF TypeOK, View

\* Finish: the key goes back rate limited after an error, and is given back.
LEMMA FinishFacts ==
  ASSUME TypeOK, NEW w \in Workers, Finish(w)
  PROVE  /\ queue' \in OpenQueue
         /\ queue'.dirty = queue.dirty /\ queue.delayed \subseteq queue'.delayed
         /\ w \in failed => item[w] \in queue'.delayed
         /\ queue'.processing = queue.processing \ {item[w]}
<1> DEFINE q == IF w \in failed THEN AddAfter(queue, {item[w]}) ELSE queue
<1>1. item[w] \in Items /\ {item[w]} \in SUBSET Items
  BY TargetType, ItemFacts DEF Finish
<1>2. /\ q \in OpenQueue /\ q.dirty = queue.dirty /\ q.processing = queue.processing
      /\ queue.delayed \subseteq q.delayed
      /\ w \in failed => item[w] \in q.delayed
  <2>1. queue \in OpenQueue
    BY DEF TypeOK, OpenQueue
  <2>2. CASE w \in failed
    <3>1. q = AddAfter(queue, {item[w]})
      BY <2>2
    <3> HIDE DEF q
    <3> QED
      BY <1>1, <2>1, <3>1, AddAfterFacts
  <2>3. CASE w \notin failed
    BY <2>1, <2>3
  <2> QED
    BY <2>2, <2>3
<1>3. queue' = Done(q, item[w])
  BY DEF Finish
<1> HIDE DEF q
<1>4. /\ Done(q, item[w]) \in OpenQueue /\ Done(q, item[w]).dirty = q.dirty
      /\ Done(q, item[w]).processing = q.processing \ {item[w]}
      /\ Done(q, item[w]).delayed = q.delayed
  BY <1>1, <1>2, QueueFacts
<1> QED
  BY <1>2, <1>3, <1>4

\* The type invariant: every operation of HandlerSet keeps the state well typed.
THEOREM TypeCorrect == Spec => []TypeOK
<1>1. Init => TypeOK
  BY ConstantsAssumption, ValueFacts DEF Init, TypeOK, EmptyQueue, QueueOf, Value, Pc
<1>2. TypeOK /\ [Next]_vars => TypeOK'
  <2> SUFFICES ASSUME TypeOK, [Next]_vars PROVE TypeOK'
    OBVIOUS
  <2>0. \A w \in Workers : pc[w] # "idle" => item[w] \in Items /\ Target(w) \in Objects
    BY TargetType
  <2>q. queue \in OpenQueue
    BY DEF TypeOK, OpenQueue
  <2>a. \A d \in Queries : View(d) \in [Objects -> Value]
    BY ViewType
  <2> USE DEF TypeOK, Goto, Return, Pc, informer, limits, worker, history
  <2>1. ASSUME NEW o \in Objects, Change(o) PROVE TypeOK'
    BY <2>1, ConstantsAssumption DEF Change, Value, NotFound
  <2>2. ASSUME NEW o \in Objects, HandleObject(o) PROVE TypeOK'
    <3>1. queue' \in OpenQueue
      BY <2>2, <2>q, AddFacts, ItemFacts DEF HandleObject
    <3> QED
      BY <2>2, <3>1 DEF HandleObject, OpenQueue
  <2>3. ASSUME NEW o \in Objects, WakeUp(o) PROVE TypeOK'
    <3>1. queue' \in OpenQueue
      BY <2>3, <2>q, AddFacts, ItemFacts DEF WakeUp
    <3> QED
      BY <2>3, <3>1 DEF WakeUp, OpenQueue
  <2>4. ASSUME NEW i \in Items, Timer(i) PROVE TypeOK'
    <3>1. queue' \in OpenQueue
      BY <2>4, <2>q, QueueFacts DEF Timer
    <3> QED
      BY <2>4, <2>q, QueueFacts, <3>1 DEF Timer, OpenQueue
  <2>5. ASSUME NEW w \in Workers, NEW i \in Items, Take(w, i) PROVE TypeOK'
    <3>1. queue' \in OpenQueue
      BY <2>5, <2>0, <2>q, QueueFacts DEF Take
    <3> QED
      BY <2>5, <2>0, <2>q, QueueFacts, <3>1 DEF Take, OpenQueue
  <2>6. ASSUME NEW w \in Workers, SyncHandler(w) PROVE TypeOK'
    BY <2>6, <2>0 DEF SyncHandler
  <2>7. ASSUME NEW w \in Workers, CheckDelay(w) PROVE TypeOK'
    BY <2>7, <2>0 DEF CheckDelay
  <2>8. ASSUME NEW w \in Workers, Lock(w) PROVE TypeOK'
    BY <2>8, <2>0 DEF Lock
  <2>9. ASSUME NEW w \in Workers, GetObject(w) PROVE TypeOK'
    <3>1. obj' \in [Workers -> Value] /\ limiters' \subseteq Objects
      BY <2>9, <2>0 DEF GetObject
    <3>2. /\ asked' \in [Objects -> SUBSET Queries]
          /\ seen' \in [Objects -> [Queries -> [Objects -> Value]]]
      <4>1. [d \in Queries |-> Nothing] \in [Queries -> [Objects -> Value]]
        BY ValueFacts
      <4> QED
        BY <2>9, <2>0, <4>1 DEF GetObject
    <3> QED
      BY <2>9, <2>0, <3>1, <3>2 DEF GetObject
  <2>10. ASSUME NEW w \in Workers, ReadFails(w) PROVE TypeOK'
    <3>1. fails' \in 0 .. MaxFails
      BY <2>10, ConstantsAssumption DEF ReadFails
    <3>2. /\ pc' \in [Workers -> Pc] /\ failed' \subseteq Workers
          /\ \A x \in Workers : pc'[x] # "idle" => pc[x] # "idle"
      BY <2>10 DEF ReadFails
    <3> QED
      BY <2>10, <3>1, <3>2 DEF ReadFails
  <2>11. ASSUME NEW w \in Workers, NEW d \in Queries, Watch(w, d) PROVE TypeOK'
    BY <2>11, <2>0, ConstantsAssumption DEF Watch, Query
  <2>12. ASSUME NEW w \in Workers, NEW d \in Queries, WatchFails(w, d) PROVE TypeOK'
    BY <2>12, <2>0, ConstantsAssumption DEF WatchFails
  <2>13. ASSUME NEW w \in Workers, Read(w) PROVE TypeOK'
    BY <2>13, <2>0, <2>a DEF Read
  <2>14. ASSUME NEW w \in Workers, HandlerReturns(w) PROVE TypeOK'
    BY <2>14, <2>0 DEF HandlerReturns
  <2>15. ASSUME NEW w \in Workers, HandlerFails(w) PROVE TypeOK'
    <3>1. fails' \in 0 .. MaxFails
      BY <2>15, ConstantsAssumption DEF HandlerFails, Fail
    <3>2. /\ pc' \in [Workers -> Pc] /\ failed' \subseteq Workers
          /\ \A x \in Workers : pc'[x] # "idle" => pc[x] # "idle"
      BY <2>15 DEF HandlerFails, Fail
    <3>3. reconciled' \in [Objects -> Value] /\ query' \in [Workers -> SUBSET Queries]
      BY <2>15, <2>0 DEF HandlerFails
    <3> QED
      BY <2>15, <3>1, <3>2, <3>3 DEF HandlerFails
  <2>16. ASSUME NEW w \in Workers, InvokeTriggers(w) PROVE TypeOK'
    <3>1. queue' \in OpenQueue
      BY <2>16, <2>0, <2>q, AddFacts, DependentsType DEF InvokeTriggers, AfterTrigger
    <3> QED
      BY <2>16, <2>0, <2>q, AddFacts, DependentsType, <3>1 DEF InvokeTriggers, AfterTrigger, OpenQueue
  <2>17. ASSUME NEW w \in Workers, UnregisterAndTrigger(w) PROVE TypeOK'
    <3>1. queue' \in OpenQueue
      BY <2>17, <2>0, <2>q, AddFacts, ValueFacts, DependentsType DEF UnregisterAndTrigger, AfterTrigger
    <3> QED
      BY <2>17, <2>0, <2>q, AddFacts, ValueFacts, DependentsType, <3>1 DEF UnregisterAndTrigger, AfterTrigger, OpenQueue
  <2>18. ASSUME NEW w \in Workers, Save(w) PROVE TypeOK'
    BY <2>18, <2>0 DEF Save
  <2>19. ASSUME NEW w \in Workers, SaveFails(w) PROVE TypeOK'
    BY <2>19, <2>0, ConstantsAssumption DEF SaveFails, Fail
  <2>20. ASSUME NEW w \in Workers, RetryAfter(w) PROVE TypeOK'
    <3>1. queue' \in OpenQueue
      BY <2>20, <2>0, <2>q, AddAfterFacts, ItemFacts DEF RetryAfter
    <3>2. fails' \in 0 .. MaxFails
      BY <2>20, ConstantsAssumption DEF RetryAfter
    <3>3. /\ pc' \in [Workers -> Pc] /\ failed' \subseteq Workers
          /\ \A x \in Workers : pc'[x] # "idle" => pc[x] # "idle"
      BY <2>20 DEF RetryAfter
    <3> QED
      BY <2>20, <3>1, <3>2, <3>3 DEF RetryAfter, OpenQueue
  <2>21. ASSUME NEW w \in Workers, Unlock(w) PROVE TypeOK'
    BY <2>21, <2>0 DEF Unlock
  <2>22. ASSUME NEW w \in Workers, Finish(w) PROVE TypeOK'
    <3>1. queue' \in OpenQueue
      BY <2>22, FinishFacts
    <3> QED
      BY <2>22, <2>0, <3>1, ValueFacts DEF Finish, OpenQueue
  <2>23. CASE UNCHANGED vars
    BY <2>23 DEF vars
  <2> QED
    BY <2>1, <2>2, <2>3, <2>4, <2>5, <2>6, <2>7, <2>8, <2>9, <2>10, <2>11, <2>12,
       <2>13, <2>14, <2>15, <2>16, <2>17, <2>18, <2>19, <2>20, <2>21, <2>22, <2>23
    DEF Next, Step, Sync, Handle, Conclude
<1> QED
  BY <1>1, <1>2, PTL DEF Spec

---------------------------------------------------------------------------
(* The inductive invariants.                                               *)

\* A busy worker processes an item nobody else does, and a worker inside the
\* critical section owns the lock of its object.
Exclusive ==
  /\ \A w \in Workers : pc[w] # "idle" => item[w] \in queue.processing
  /\ \A w \in Workers : pc[w] \in Locking => Target(w) \in locked
  /\ \A x, y \in Workers : x # y /\ pc[x] # "idle" /\ pc[y] # "idle" => item[x] # item[y]
  /\ OneRunPerObject

\* Only a plain key is looked up, so only its run may start from an old object;
\* and only objects of a handled kind get as far as their handlers.
WorkerShape(w) ==
  /\ pc[w] \in {"sync", "delay"} => Form(w) = "plain"
  /\ pc[w] \in {"idle", "lock", "get"} /\ Form(w) # "plain" => obj[w] = NotFound
  /\ pc[w] = "idle" => item[w] = NoItem
  /\ pc[w] \in {"handle", "save"} => KindOf[Target(w)] \in Handled
  /\ query[w] # {} => pc[w] = "handle"
  /\ w \in failed => pc[w] \in {"return", "done"}

Shape ==
  /\ \A w \in Workers : WorkerShape(w)
  /\ \A t \in Objects : asked[t] # {} => KindOf[t] \in Handled

\* An object syncHandler read that is out of date has a new event behind it.
ParamFresh ==
  \A w \in Workers :
    /\ pc[w] \in {"delay", "lock", "get"}
    /\ Form(w) = "plain"
    /\ KindOf[Target(w)] \in Handled
    /\ obj[w] # cache[Target(w)]
    => Target(w) \in events \/ Plain(Target(w)) \in queue.dirty

\* A handler working on an object that is out of date will run again.
RunFresh ==
  \A w \in Workers :
    pc[w] = "handle" /\ obj[w] # cache[Target(w)] => PendingRun(Target(w))

ChangeInv == TypeOK /\ Exclusive /\ Shape /\ ParamFresh /\ RunFresh /\ NoLostChange

\* The objects a query is about.
Addresses(d, o) == d.kind = KindOf[o] /\ (d.name # {} => o \in d.name)

\* A run of o that will tell its dependents is on its way, and has not read o yet.
AnnouncedAgain(o) ==
  \/ o \in events \cup waiting
  \/ \E i \in queue.dirty \cup queue.delayed : i[2] = o /\ i[1] # "trigger"
  \/ \E w \in Workers : Target(w) = o /\ ~FromTrigger(w)
                         /\ (pc[w] \in BeforeGet \/ WillRequeue(w))

\* A run that is to tell the dependents of an object that is there, but was read when it
\* was another, is followed by one more.
AnnounceFresh ==
  \A w \in Workers :
    /\ pc[w] \in {"handle", "trigger"} /\ ~FromTrigger(w)
    /\ KindOf[Target(w)] \in watching
    /\ Exists(cache[Target(w)]) /\ obj[w] # cache[Target(w)]
    => AnnouncedAgain(Target(w))

\* An answer is about objects the query addresses, of a watched kind, and the
\* trigger it needs is registered unless its reader runs again anyway.
Registered ==
  /\ \A t \in Objects, d \in Queries :
       d \in asked[t] => d.kind \in watching /\ (<<t, d>> \in matchers \/ PendingRun(t))
  /\ \A w \in Workers, d \in Queries :
       d \in query[w] => /\ d.kind \in watching
                         /\ <<Target(w), d>> \in matchers \/ PendingRun(Target(w))
  /\ \A t \in Objects, d \in Queries, o \in Objects :
       ~Addresses(d, o) => seen[t][d][o] = NotFound

---------------------------------------------------------------------------
(* What each step does to the work that is pending.                        *)

\* Pending work stays pending until the run it stands for gets the object, or
\* (for a run that announces) until it has invoked the triggers.
LEMMA PendingKept ==
  ASSUME TypeOK, TypeOK', Shape, [Next]_vars, NEW t \in Objects
  PROVE  /\ PendingRun(t) => \/ PendingRun(t)'
                             \/ \E w \in Workers : Target(w) = t /\ GetObject(w)
         /\ AnnouncedAgain(t) => \/ AnnouncedAgain(t)'
                                 \/ \E w \in Workers : Target(w) = t /\ GetObject(w)
         /\ (KindOf[t] \in Handled => "ignore" \notin Outcomes) /\ PendingAnnounce(t) =>
              \/ PendingAnnounce(t)'
              \/ \E w \in Workers : /\ Target(w) = t /\ ~FromTrigger(w)
                                    /\ InvokeTriggers(w) \/ UnregisterAndTrigger(w)
<1> DEFINE Kept == /\ PendingRun(t) => PendingRun(t)'
                   /\ AnnouncedAgain(t) => AnnouncedAgain(t)'
                   /\ PendingAnnounce(t) => PendingAnnounce(t)'
<1>q. queue \in OpenQueue
  BY DEF TypeOK, OpenQueue
<1>i. \A w \in Workers : pc[w] # "idle" => item[w] \in Items /\ Target(w) \in Objects
  BY TargetType
<1> USE DEF PendingRun, AnnouncedAgain, PendingAnnounce, WillRequeue, BeforeGet, BeforeTrigger, Goto, Return,
            informer, limits, worker, history, Target, FromTrigger, Form
<1>1. ASSUME NEW o \in Objects, Change(o) PROVE Kept
  BY <1>1 DEF Change, TypeOK
<1>2. ASSUME NEW o \in Objects, HandleObject(o) PROVE Kept
  <2>1. queue'.dirty = queue.dirty \cup {Plain(o)} /\ queue'.delayed = queue.delayed
    BY <1>2, <1>q, AddFacts, ItemFacts DEF HandleObject
  <2>2. Plain(o)[1] # "trigger" /\ Plain(o)[2] = o
    BY ItemFacts
  <2> QED
    BY <1>2, <2>1, <2>2 DEF HandleObject
<1>3. ASSUME NEW o \in Objects, WakeUp(o) PROVE Kept
  <2>1. queue'.dirty = queue.dirty \cup {Replay(o)} /\ queue'.delayed = queue.delayed
    BY <1>3, <1>q, AddFacts, ItemFacts DEF WakeUp
  <2>2. Replay(o)[1] # "trigger" /\ Replay(o)[2] = o
    BY ItemFacts
  <2> QED
    BY <1>3, <2>1, <2>2 DEF WakeUp
<1>4. ASSUME NEW i \in Items, Timer(i) PROVE Kept
  <2>1. queue'.dirty = queue.dirty \cup {i} /\ queue'.delayed = queue.delayed \ {i}
    BY <1>4, <1>q, QueueFacts DEF Timer
  <2> QED
    BY <1>4, <2>1 DEF Timer
<1>5. ASSUME NEW w \in Workers, NEW i \in Items, Take(w, i) PROVE Kept
  <2>1. queue'.dirty = queue.dirty \ {i} /\ queue'.delayed = queue.delayed
    BY <1>5, <1>q, QueueFacts DEF Take
  <2>2. pc'[w] \in {"sync", "lock"} /\ item'[w] = i
    BY <1>5 DEF Take, TypeOK
  <2>3. \A x \in Workers : x # w => pc'[x] = pc[x] /\ item'[x] = item[x]
    BY <1>5 DEF Take, TypeOK
  <2> QED
    BY <1>5, <2>1, <2>2, <2>3 DEF Take
<1>6. ASSUME NEW w \in Workers, SyncHandler(w) PROVE Kept
  BY <1>6 DEF SyncHandler, TypeOK
<1>7. ASSUME NEW w \in Workers, CheckDelay(w) PROVE Kept
  BY <1>7 DEF CheckDelay, Shape, TypeOK
<1>8. ASSUME NEW w \in Workers, Lock(w) PROVE Kept
  BY <1>8 DEF Lock, TypeOK
<1>10. ASSUME NEW w \in Workers, ReadFails(w) PROVE Kept
  BY <1>10 DEF ReadFails, TypeOK
<1>11. ASSUME NEW w \in Workers, NEW d \in Queries, Watch(w, d) PROVE Kept
  BY <1>11 DEF Watch, TypeOK
<1>12. ASSUME NEW w \in Workers, NEW d \in Queries, WatchFails(w, d) PROVE Kept
  BY <1>12 DEF WatchFails, TypeOK
<1>13. ASSUME NEW w \in Workers, Read(w) PROVE Kept
  BY <1>13 DEF Read, TypeOK
<1>14. ASSUME NEW w \in Workers, HandlerReturns(w) PROVE Kept
  BY <1>14 DEF HandlerReturns, TypeOK
<1>18. ASSUME NEW w \in Workers, Save(w) PROVE Kept
  BY <1>18 DEF Save, TypeOK
<1>19. ASSUME NEW w \in Workers, SaveFails(w) PROVE Kept
  BY <1>19 DEF SaveFails, Fail, TypeOK
<1>20. ASSUME NEW w \in Workers, RetryAfter(w) PROVE Kept
  <2>1. queue'.dirty = queue.dirty /\ queue.delayed \subseteq queue'.delayed
    BY <1>20, <1>q, <1>i, AddAfterFacts, ItemFacts DEF RetryAfter
  <2> QED
    BY <1>20, <2>1 DEF RetryAfter, TypeOK
<1>21. ASSUME NEW w \in Workers, Unlock(w) PROVE Kept
  BY <1>21 DEF Unlock, TypeOK
<1>22. ASSUME NEW w \in Workers, Finish(w) PROVE Kept
  <2>1. /\ queue'.dirty = queue.dirty /\ queue.delayed \subseteq queue'.delayed
        /\ w \in failed => item[w] \in queue'.delayed
    BY <1>22, FinishFacts
  <2>2. \A x \in Workers : x # w =>
          /\ pc'[x] = pc[x] /\ item'[x] = item[x]
          /\ x \in failed' <=> x \in failed
    BY <1>22 DEF Finish, TypeOK
  <2> QED
    BY <1>22, <2>1, <2>2 DEF Finish
<1>9. ASSUME NEW w \in Workers, GetObject(w)
      PROVE  /\ PendingRun(t) => PendingRun(t)' \/ Target(w) = t
             /\ AnnouncedAgain(t) => AnnouncedAgain(t)' \/ Target(w) = t
             /\ PendingAnnounce(t) => PendingAnnounce(t)'
  BY <1>9 DEF GetObject, TypeOK
<1>15. ASSUME NEW w \in Workers, HandlerFails(w)
       PROVE  /\ PendingRun(t) => PendingRun(t)'
              /\ AnnouncedAgain(t) => AnnouncedAgain(t)'
              /\ (KindOf[t] \in Handled => "ignore" \notin Outcomes) /\ PendingAnnounce(t)
                   => PendingAnnounce(t)'
  <2>1. KindOf[Target(w)] \in Handled
    BY <1>15 DEF HandlerFails, Shape, WorkerShape
  <2> QED
    BY <1>15, <2>1 DEF HandlerFails, Fail, TypeOK
<1>16. ASSUME NEW w \in Workers, InvokeTriggers(w) \/ UnregisterAndTrigger(w)
       PROVE  /\ PendingRun(t) => PendingRun(t)'
              /\ AnnouncedAgain(t) => AnnouncedAgain(t)'
              /\ PendingAnnounce(t) =>
                   \/ PendingAnnounce(t)'
                   \/ Target(w) = t /\ ~FromTrigger(w)
  <2>1. queue.dirty \subseteq queue'.dirty /\ queue'.delayed = queue.delayed
    BY <1>16, <1>q, AddFacts, DependentsType DEF InvokeTriggers, UnregisterAndTrigger
  <2> QED
    BY <1>16, <2>1 DEF InvokeTriggers, UnregisterAndTrigger, AfterTrigger, TypeOK
<1>23. CASE UNCHANGED vars
  BY <1>23 DEF vars
<1> HIDE DEF Kept
<1> QED
  BY <1>1, <1>2, <1>3, <1>4, <1>5, <1>6, <1>7, <1>8, <1>9, <1>10, <1>11, <1>12, <1>13,
     <1>14, <1>15, <1>16, <1>18, <1>19, <1>20, <1>21, <1>22, <1>23
  DEF Next, Step, Sync, Handle, Conclude, Kept

---------------------------------------------------------------------------
(* The per-key lock: two workers never run the handlers of one object.     *)

\* Most steps leave the locks, the items and the busy workers as they are.
SameHolders ==
  /\ UNCHANGED <<locked, item>> /\ queue'.processing = queue.processing
  /\ \A w \in Workers : /\ pc'[w] \in Locking => pc[w] \in Locking
                        /\ pc'[w] = "idle" <=> pc[w] = "idle"

\* Only four operations touch the locks, the items and the keys processed.
LEMMA HolderSteps ==
  ASSUME TypeOK, TypeOK', [Next]_vars
  PROVE  \/ SameHolders
         \/ \E w \in Workers : Lock(w) \/ Unlock(w) \/ Finish(w) \/ \E i \in Items : Take(w, i)
<1>q. queue \in OpenQueue
  BY DEF TypeOK, OpenQueue
<1>i. \A w \in Workers : pc[w] # "idle" => item[w] \in Items /\ Target(w) \in Objects
  BY TargetType
<1> USE DEF SameHolders, informer, limits, worker, history, Goto, Return, Locking, TypeOK
<1>1. ASSUME NEW o \in Objects, Change(o) \/ HandleObject(o) \/ WakeUp(o) PROVE SameHolders
  <2>1. queue'.processing = queue.processing
    <3>1. /\ Add(queue, {Plain(o)}).processing = queue.processing
          /\ Add(queue, {Replay(o)}).processing = queue.processing
      BY <1>q, AddFacts, ItemFacts
    <3> QED
      BY <1>1, <3>1 DEF Change, HandleObject, WakeUp
  <2> QED
    BY <1>1, <2>1 DEF Change, HandleObject, WakeUp
<1>2. ASSUME NEW i \in Items, Timer(i) PROVE SameHolders
  BY <1>2, <1>q, QueueFacts DEF Timer
<1>3. ASSUME NEW w \in Workers, SyncHandler(w) \/ CheckDelay(w) PROVE SameHolders
  BY <1>3 DEF SyncHandler, CheckDelay
<1>4. ASSUME NEW w \in Workers, GetObject(w) \/ ReadFails(w) PROVE SameHolders
  BY <1>4 DEF GetObject, ReadFails
<1>5. ASSUME NEW w \in Workers, Handle(w) PROVE SameHolders
  <2>1. CASE HandlerFails(w)
    BY <2>1 DEF HandlerFails, Fail
  <2>2. CASE ~HandlerFails(w)
    BY <1>5, <2>2 DEF Handle, Watch, WatchFails, Read, HandlerReturns
  <2> QED
    BY <2>1, <2>2
<1>6. ASSUME NEW w \in Workers, InvokeTriggers(w) \/ UnregisterAndTrigger(w) PROVE SameHolders
  <2>1. queue'.processing = queue.processing
    BY <1>6, <1>q, AddFacts, DependentsType DEF InvokeTriggers, UnregisterAndTrigger
  <2> QED
    BY <1>6, <2>1 DEF InvokeTriggers, UnregisterAndTrigger, AfterTrigger
<1>7. ASSUME NEW w \in Workers, Save(w) \/ SaveFails(w) PROVE SameHolders
  BY <1>7 DEF Save, SaveFails, Fail
<1>8. ASSUME NEW w \in Workers, RetryAfter(w) PROVE SameHolders
  <2>1. queue'.processing = queue.processing
    BY <1>8, <1>q, <1>i, AddAfterFacts, ItemFacts DEF RetryAfter
  <2> QED
    BY <1>8, <2>1 DEF RetryAfter
<1>9. CASE UNCHANGED vars
  BY <1>9 DEF vars
<1> HIDE DEF SameHolders
<1> QED
  BY <1>1, <1>2, <1>3, <1>4, <1>5, <1>6, <1>7, <1>8, <1>9 DEF Next, Step, Sync, Conclude

\* Every step keeps the locks with the workers that hold them.
LEMMA ExclusiveStep ==
  ASSUME TypeOK, TypeOK', Exclusive, [Next]_vars
  PROVE  Exclusive'
<1>q. queue \in OpenQueue
  BY DEF TypeOK, OpenQueue
<1> USE DEF Exclusive, OneRunPerObject, Target, Locking
<1>1. CASE SameHolders
  BY <1>1 DEF SameHolders
<1>2. ASSUME NEW w \in Workers, Lock(w) PROVE Exclusive'
  BY <1>2 DEF Lock, Goto, TypeOK
<1>3. ASSUME NEW w \in Workers, Unlock(w) PROVE Exclusive'
  BY <1>3 DEF Unlock, Goto, TypeOK
<1>4. ASSUME NEW w \in Workers, Finish(w) PROVE Exclusive'
  <2>1. queue'.processing = queue.processing \ {item[w]}
    BY <1>4, FinishFacts
  <2>2. pc'[w] = "idle" /\ locked' = locked /\ pc[w] = "done"
    BY <1>4 DEF Finish, Goto, TypeOK
  <2>3. \A x \in Workers : x # w => pc'[x] = pc[x] /\ item'[x] = item[x]
    BY <1>4 DEF Finish, Goto, TypeOK
  <2> QED
    BY <2>1, <2>2, <2>3
<1>5. ASSUME NEW w \in Workers, NEW i \in Items, Take(w, i) PROVE Exclusive'
  <2>1. queue'.processing = queue.processing \cup {i} /\ i \notin queue.processing
    BY <1>5, <1>q, QueueFacts DEF Take, Ready
  <2> QED
    BY <1>5, <2>1 DEF Take, Goto, TypeOK
<1> QED
  BY <1>1, <1>2, <1>3, <1>4, <1>5, HolderSteps

\* The handlers of an object never run twice at the same time.
THEOREM MutualExclusion == Spec => []OneRunPerObject
<1>1. Init => Exclusive
  BY DEF Init, Exclusive, OneRunPerObject, Locking
<1>2. TypeOK /\ TypeOK' /\ Exclusive /\ [Next]_vars => Exclusive'
  BY ExclusiveStep
<1>3. Exclusive => OneRunPerObject
  BY DEF Exclusive
<1> QED
  BY <1>1, <1>2, <1>3, TypeCorrect, PTL DEF Spec

---------------------------------------------------------------------------
(* No change is lost.                                                      *)

\* How a worker gets into and out of the phases that work on the object.
LEMMA WorkerSteps ==
  ASSUME TypeOK, [Next]_vars, NEW w \in Workers
  PROVE  /\ pc'[w] = "handle" =>
              \/ GetObject(w)
              \/ pc[w] = "handle" /\ item'[w] = item[w] /\ obj'[w] = obj[w]
         /\ pc[w] = "handle" =>
              \/ HandlerReturns(w) \/ HandlerFails(w)
              \/ pc'[w] = "handle" /\ item'[w] = item[w]
         /\ pc'[w] \in {"delay", "lock", "get"} =>
              \/ SyncHandler(w) \/ \E i \in Items : Take(w, i)
              \/ /\ pc[w] \in {"delay", "lock", "get"}
                 /\ item'[w] = item[w] /\ obj'[w] = obj[w]
<1> DEFINE Goal == /\ pc'[w] = "handle" =>
                        \/ GetObject(w)
                        \/ pc[w] = "handle" /\ item'[w] = item[w] /\ obj'[w] = obj[w]
                   /\ pc[w] = "handle" =>
                        \/ HandlerReturns(w) \/ HandlerFails(w)
                        \/ pc'[w] = "handle" /\ item'[w] = item[w]
                   /\ pc'[w] \in {"delay", "lock", "get"} =>
                        \/ SyncHandler(w) \/ \E i \in Items : Take(w, i)
                        \/ /\ pc[w] \in {"delay", "lock", "get"}
                           /\ item'[w] = item[w] /\ obj'[w] = obj[w]
<1> USE DEF worker, Goto, Return, TypeOK
<1>1. CASE UNCHANGED worker
  BY <1>1
<1>2. ASSUME NEW x \in Workers, NEW i \in Items, Take(x, i) PROVE Goal
  BY <1>2 DEF Take
<1>3. ASSUME NEW x \in Workers, SyncHandler(x) PROVE Goal
  BY <1>3 DEF SyncHandler
<1>4. ASSUME NEW x \in Workers, CheckDelay(x) \/ Lock(x) PROVE Goal
  BY <1>4 DEF CheckDelay, Lock
<1>5. ASSUME NEW x \in Workers, GetObject(x) PROVE Goal
  BY <1>5 DEF GetObject
<1>6. ASSUME NEW x \in Workers, ReadFails(x) PROVE Goal
  BY <1>6 DEF ReadFails
<1>7. ASSUME NEW x \in Workers, NEW d \in Queries, Watch(x, d) \/ WatchFails(x, d) PROVE Goal
  BY <1>7 DEF Watch, WatchFails
<1>8. ASSUME NEW x \in Workers, Read(x) \/ HandlerReturns(x) PROVE Goal
  BY <1>8 DEF Read, HandlerReturns
<1>9. ASSUME NEW x \in Workers, HandlerFails(x) PROVE Goal
  BY <1>9 DEF HandlerFails, Fail
<1>10. ASSUME NEW x \in Workers, InvokeTriggers(x) \/ UnregisterAndTrigger(x) PROVE Goal
  BY <1>10 DEF InvokeTriggers, UnregisterAndTrigger, AfterTrigger
<1>11. ASSUME NEW x \in Workers, Save(x) \/ SaveFails(x) \/ RetryAfter(x) PROVE Goal
  BY <1>11 DEF Save, SaveFails, RetryAfter, Fail
<1>12. ASSUME NEW x \in Workers, Unlock(x) \/ Finish(x) PROVE Goal
  BY <1>12 DEF Unlock, Finish
<1>13. ASSUME NEW o \in Objects, Change(o) \/ HandleObject(o) \/ WakeUp(o) PROVE Goal
  BY <1>1, <1>13 DEF Change, HandleObject, WakeUp
<1>14. ASSUME NEW i \in Items, Timer(i) PROVE Goal
  BY <1>1, <1>14 DEF Timer
<1>15. CASE UNCHANGED vars
  BY <1>1, <1>15 DEF vars
<1> HIDE DEF Goal, worker, Goto, Return, TypeOK
<1> QED
  BY <1>2, <1>3, <1>4, <1>5, <1>6, <1>7, <1>8, <1>9, <1>10, <1>11, <1>12, <1>13,
     <1>14, <1>15 DEF Next, Step, Sync, Handle, Conclude, Goal

\* Only Change touches the cache and only the end of the handlers the history.
LEMMA HistorySteps ==
  ASSUME [Next]_vars
  PROVE  /\ cache' = cache \/ \E o \in Objects : Change(o)
         /\ reconciled' = reconciled \/ \E w \in Workers : HandlerReturns(w) \/ HandlerFails(w)
<1> USE DEF informer, history, vars
<1>1. ASSUME NEW o \in Objects, HandleObject(o) \/ WakeUp(o) \/ Change(o)
      PROVE  reconciled' = reconciled /\ (cache' = cache \/ Change(o))
  BY <1>1 DEF HandleObject, WakeUp, Change
<1>2. ASSUME NEW i \in Items, Timer(i) PROVE UNCHANGED <<cache, reconciled>>
  BY <1>2 DEF Timer
<1>3. ASSUME NEW w \in Workers, NEW i \in Items, Take(w, i) PROVE UNCHANGED <<cache, reconciled>>
  BY <1>3 DEF Take
<1>4. ASSUME NEW w \in Workers, Sync(w) PROVE UNCHANGED <<cache, reconciled>>
  BY <1>4 DEF Sync, SyncHandler, CheckDelay, Lock, GetObject, ReadFails
<1>5. ASSUME NEW w \in Workers, Handle(w)
      PROVE  cache' = cache /\ (reconciled' = reconciled \/ HandlerReturns(w) \/ HandlerFails(w))
  BY <1>5 DEF Handle, Watch, WatchFails, Read, HandlerReturns, HandlerFails
<1>6. ASSUME NEW w \in Workers, Conclude(w) PROVE UNCHANGED <<cache, reconciled>>
  BY <1>6 DEF Conclude, InvokeTriggers, UnregisterAndTrigger, Save, SaveFails, RetryAfter,
              Unlock, Finish
<1> QED
  BY <1>1, <1>2, <1>3, <1>4, <1>5, <1>6 DEF Next, Step

\* An event stays undelivered or on the queue until a worker takes its key.
LEMMA EventKept ==
  ASSUME TypeOK, [Next]_vars, NEW o \in Objects, o \in events \/ Plain(o) \in queue.dirty
  PROVE  \/ o \in events' \/ Plain(o) \in queue'.dirty
         \/ \E w \in Workers : Take(w, Plain(o))
<1> DEFINE Goal == o \in events' \/ Plain(o) \in queue'.dirty
           More == events \subseteq events' /\ queue.dirty \subseteq queue'.dirty
<1>q. queue \in OpenQueue
  BY DEF TypeOK, OpenQueue
<1>i. \A w \in Workers : pc[w] # "idle" => item[w] \in Items /\ Target(w) \in Objects
  BY TargetType
<1> USE DEF informer
<1>1. ASSUME NEW p \in Objects, HandleObject(p) PROVE Goal
  <2>1. queue'.dirty = queue.dirty \cup {Plain(p)}
    BY <1>1, <1>q, AddFacts, ItemFacts DEF HandleObject
  <2> QED
    BY <1>1, <2>1 DEF HandleObject
<1>2. ASSUME NEW p \in Objects, WakeUp(p) PROVE More
  BY <1>2, <1>q, AddFacts, ItemFacts DEF WakeUp
<1>3. ASSUME NEW p \in Objects, Change(p) PROVE More
  BY <1>3 DEF Change
<1>4. ASSUME NEW i \in Items, Timer(i) PROVE More
  BY <1>4, <1>q, QueueFacts DEF Timer
<1>5. ASSUME NEW w \in Workers, NEW i \in Items, Take(w, i) PROVE Goal \/ Take(w, Plain(o))
  <2>1. CASE i = Plain(o)
    BY <1>5, <2>1
  <2>2. CASE i # Plain(o)
    <3>1. queue'.dirty = queue.dirty \ {i} /\ events' = events
      BY <1>5, <1>q, QueueFacts DEF Take
    <3> QED
      BY <2>2, <3>1
  <2> QED
    BY <2>1, <2>2
<1>6. ASSUME NEW w \in Workers, Sync(w) PROVE More
  BY <1>6 DEF Sync, SyncHandler, CheckDelay, Lock, GetObject, ReadFails
<1>7. ASSUME NEW w \in Workers, Handle(w) PROVE More
  BY <1>7 DEF Handle, Watch, WatchFails, Read, HandlerReturns, HandlerFails
<1>8. ASSUME NEW w \in Workers, InvokeTriggers(w) \/ UnregisterAndTrigger(w) PROVE More
  BY <1>8, <1>q, AddFacts, DependentsType DEF InvokeTriggers, UnregisterAndTrigger
<1>9. ASSUME NEW w \in Workers, RetryAfter(w) PROVE More
  BY <1>9, <1>q, <1>i, AddAfterFacts, ItemFacts DEF RetryAfter
<1>10. ASSUME NEW w \in Workers, Save(w) \/ SaveFails(w) \/ Unlock(w) PROVE More
  BY <1>10 DEF Save, SaveFails, Unlock
<1>11. ASSUME NEW w \in Workers, Finish(w) PROVE More
  BY <1>11, FinishFacts DEF Finish
<1>12. CASE UNCHANGED vars
  BY <1>12 DEF vars
<1>13. More => Goal
  OBVIOUS
<1> HIDE DEF Goal, More, informer
<1> QED
  BY <1>1, <1>2, <1>3, <1>4, <1>5, <1>6, <1>7, <1>8, <1>9, <1>10, <1>11, <1>12, <1>13
  DEF Next, Step, Conclude, Goal

\* A step of one worker leaves the others as they are.
LEMMA OthersKept ==
  ASSUME TypeOK, NEW x \in Workers, Step(x) \/ \E i \in Items : Take(x, i),
         NEW y \in Workers \ {x}
  PROVE  /\ pc'[y] = pc[y] /\ item'[y] = item[y] /\ obj'[y] = obj[y] /\ query'[y] = query[y]
         /\ y \in failed' <=> y \in failed
<1> USE DEF TypeOK, worker, Goto, Return
<1>1. CASE \E i \in Items : Take(x, i)
  BY <1>1 DEF Take
<1>2. CASE SyncHandler(x) \/ CheckDelay(x) \/ Lock(x)
  BY <1>2 DEF SyncHandler, CheckDelay, Lock
<1>3. CASE GetObject(x) \/ ReadFails(x)
  BY <1>3 DEF GetObject, ReadFails
<1>4. CASE (\E d \in Queries : Watch(x, d) \/ WatchFails(x, d)) \/ Read(x) \/ HandlerReturns(x)
  BY <1>4 DEF Watch, WatchFails, Read, HandlerReturns
<1>5. CASE HandlerFails(x) \/ SaveFails(x)
  BY <1>5 DEF HandlerFails, SaveFails, Fail
<1>6. CASE InvokeTriggers(x) \/ UnregisterAndTrigger(x)
  BY <1>6 DEF InvokeTriggers, UnregisterAndTrigger, AfterTrigger
<1>7. CASE Save(x) \/ RetryAfter(x) \/ Unlock(x) \/ Finish(x)
  BY <1>7 DEF Save, RetryAfter, Unlock, Finish
<1> HIDE DEF TypeOK, worker, Goto, Return
<1> QED
  BY <1>1, <1>2, <1>3, <1>4, <1>5, <1>6, <1>7 DEF Step, Sync, Handle, Conclude

\* Every step keeps the local state of the workers in shape.
LEMMA ShapeStep ==
  ASSUME TypeOK, Shape, [Next]_vars
  PROVE  Shape'
<1> DEFINE Asked == \A t \in Objects : asked[t] # {} => KindOf[t] \in Handled
<1>i. \A w \in Workers : pc[w] # "idle" => item[w] \in Items /\ Target(w) \in Objects
  BY TargetType
<1>1. CASE UNCHANGED <<worker, asked>>
  BY <1>1 DEF Shape, WorkerShape, worker, Form, Target
<1>2. ASSUME NEW x \in Workers, Step(x) \/ \E i \in Items : Take(x, i) PROVE Shape'
  <2>1. \A y \in Workers \ {x} : WorkerShape(y)'
    BY <1>2, OthersKept DEF Shape, WorkerShape, Form, Target
  <2>2. WorkerShape(x) /\ Asked
    BY DEF Shape
  <2> USE DEF WorkerShape, history, Goto, Return, TypeOK, Target, Form
  <2>3. ASSUME NEW i \in Items, Take(x, i) PROVE WorkerShape(x)' /\ Asked'
    BY <2>2, <2>3 DEF Take, NoItem
  <2>4. ASSUME SyncHandler(x) PROVE WorkerShape(x)' /\ Asked'
    BY <2>2, <2>4 DEF SyncHandler
  <2>5. ASSUME CheckDelay(x) \/ Lock(x) PROVE WorkerShape(x)' /\ Asked'
    BY <2>2, <2>5 DEF CheckDelay, Lock
  <2>6. ASSUME GetObject(x) PROVE WorkerShape(x)' /\ Asked'
    BY <2>2, <2>6, <1>i DEF GetObject
  <2>7. ASSUME ReadFails(x) PROVE WorkerShape(x)' /\ Asked'
    BY <2>2, <2>7 DEF ReadFails
  <2>8. ASSUME \E d \in Queries : Watch(x, d) \/ WatchFails(x, d) PROVE WorkerShape(x)' /\ Asked'
    BY <2>2, <2>8 DEF Watch, WatchFails, worker
  <2>9. ASSUME Read(x) \/ HandlerReturns(x) PROVE WorkerShape(x)' /\ Asked'
    BY <2>2, <2>9, <1>i DEF Read, HandlerReturns
  <2>10. ASSUME HandlerFails(x) \/ SaveFails(x) PROVE WorkerShape(x)' /\ Asked'
    BY <2>2, <2>10 DEF HandlerFails, SaveFails, Fail
  <2>11. ASSUME InvokeTriggers(x) PROVE WorkerShape(x)' /\ Asked'
    BY <2>2, <2>11 DEF InvokeTriggers, AfterTrigger
  <2>12. ASSUME UnregisterAndTrigger(x) PROVE WorkerShape(x)' /\ Asked'
    BY <2>2, <2>12, <1>i DEF UnregisterAndTrigger, AfterTrigger
  <2>13. ASSUME Save(x) \/ RetryAfter(x) PROVE WorkerShape(x)' /\ Asked'
    BY <2>2, <2>13 DEF Save, RetryAfter
  <2>14. ASSUME Unlock(x) \/ Finish(x) PROVE WorkerShape(x)' /\ Asked'
    BY <2>2, <2>14 DEF Unlock, Finish
  <2> HIDE DEF WorkerShape, history, Goto, Return, TypeOK, Target, Form
  <2>15. WorkerShape(x)' /\ Asked'
    BY <1>2, <2>3, <2>4, <2>5, <2>6, <2>7, <2>8, <2>9, <2>10, <2>11, <2>12, <2>13, <2>14
    DEF Step, Sync, Handle, Conclude
  <2> QED
    BY <2>1, <2>15 DEF Shape
<1>3. ASSUME NEW o \in Objects, Change(o) \/ HandleObject(o) \/ WakeUp(o)
      PROVE  UNCHANGED <<worker, asked>>
  BY <1>3 DEF Change, HandleObject, WakeUp, history
<1>4. ASSUME NEW i \in Items, Timer(i) PROVE UNCHANGED <<worker, asked>>
  BY <1>4 DEF Timer, history
<1>5. CASE UNCHANGED vars
  BY <1>1, <1>5 DEF vars, history
<1> QED
  BY <1>1, <1>2, <1>3, <1>4, <1>5 DEF Next

\* A parameter of onChange that is out of date has an event behind it.
LEMMA ParamFreshStep ==
  ASSUME ChangeInv, TypeOK', [Next]_vars
  PROVE  ParamFresh'
<1> USE DEF ChangeInv
<1> SUFFICES ASSUME NEW w \in Workers, NEW o \in Objects, Target(w)' = o,
                    pc'[w] \in {"delay", "lock", "get"}, Form(w)' = "plain",
                    KindOf[o] \in Handled, obj'[w] # cache'[o]
             PROVE  o \in events' \/ Plain(o) \in queue'.dirty
  BY ItemFacts DEF ParamFresh, TypeOK, Target, Plain
<1>1. ~SyncHandler(w)
  BY DEF SyncHandler, informer, Target, TypeOK
<1>2. \A i \in Items : ~Take(w, i)
  BY DEF Take, Goto, Form, TypeOK
<1>3. /\ pc[w] \in {"delay", "lock", "get"} /\ item'[w] = item[w] /\ obj'[w] = obj[w]
  BY <1>1, <1>2, WorkerSteps
<1>4. Target(w) = o /\ Form(w) = "plain" /\ item[w] = Plain(o)
  BY <1>3, TargetType, ItemFacts DEF Target, Form
<1>5. CASE obj[w] # cache[o]
  <2>1. o \in events \/ Plain(o) \in queue.dirty
    BY <1>3, <1>4, <1>5 DEF ParamFresh
  <2>2. \A x \in Workers : ~Take(x, Plain(o))
    BY <1>3, <1>4 DEF Take, Ready, Exclusive
  <2> QED
    BY <2>1, <2>2, EventKept
<1>6. CASE obj[w] = cache[o]
  <2>1. PICK p \in Objects : Change(p)
    BY <1>3, <1>6, HistorySteps
  <2>2. p = o
    BY <1>3, <1>6, <2>1 DEF Change, TypeOK
  <2> QED
    BY <2>1, <2>2 DEF Change, TypeOK
<1> QED
  BY <1>5, <1>6

\* A run with an object that is out of date has another run behind it.
LEMMA RunFreshStep ==
  ASSUME ChangeInv, TypeOK', [Next]_vars
  PROVE  RunFresh'
<1> USE DEF ChangeInv
<1> SUFFICES ASSUME NEW w \in Workers, NEW o \in Objects, Target(w)' = o,
                    pc'[w] = "handle", obj'[w] # cache'[o]
             PROVE  PendingRun(o)'
  <2> SUFFICES ASSUME NEW w \in Workers, pc'[w] = "handle", obj'[w] # cache'[Target(w)']
               PROVE  PendingRun(Target(w))'
    BY DEF RunFresh
  <2>1. PICK o \in Objects : Target(w)' = o
    BY ItemFacts DEF TypeOK, Target
  <2>2. PendingRun(o)'
    BY <2>1
  <2> QED
    BY <2>1, <2>2 DEF PendingRun
<1>1. CASE GetObject(w)
  <2>1. Target(w) = o /\ cache' = cache /\ pc[w] = "get"
    BY <1>1 DEF GetObject, informer, Target
  <2>2. ~Exists(cache[o]) /\ obj'[w] = obj[w]
    BY <1>1, <2>1 DEF GetObject, TypeOK
  <2>3. obj[w] # NotFound /\ cache[o] = NotFound
    BY <2>1, <2>2, ValueFacts DEF TypeOK
  <2>4. Form(w) = "plain" /\ KindOf[o] \in Handled
    BY <1>1, <2>1, <2>3 DEF Shape, WorkerShape, GetObject, Goto, TypeOK
  <2>5. o \in events \/ Plain(o) \in queue.dirty
    BY <2>1, <2>3, <2>4 DEF ParamFresh
  <2> QED
    BY <1>1, <2>5, ItemFacts DEF GetObject, informer, PendingRun
<1>2. CASE ~GetObject(w)
  <2>1. pc[w] = "handle" /\ item'[w] = item[w] /\ obj'[w] = obj[w] /\ Target(w) = o
    BY <1>2, WorkerSteps DEF Target
  <2>3. CASE obj[w] # cache[o]
    <3>1. PendingRun(o)
      BY <2>1, <2>3 DEF RunFresh
    <3>2. \A x \in Workers : ~(Target(x) = o /\ GetObject(x))
      BY <2>1, <1>2 DEF GetObject, Exclusive, OneRunPerObject, Locking
    <3> QED
      BY <3>1, <3>2, PendingKept
  <2>4. CASE obj[w] = cache[o]
    <3>1. PICK p \in Objects : Change(p)
      BY <2>1, <2>4, HistorySteps
    <3>2. p = o
      BY <2>1, <2>4, <3>1 DEF Change, TypeOK
    <3>3. KindOf[o] \in watching
      BY <2>1 DEF Shape, WorkerShape, TypeOK
    <3> QED
      BY <3>1, <3>2, <3>3 DEF Change, PendingRun
  <2> QED
    BY <2>3, <2>4
<1> QED
  BY <1>1, <1>2

\* Every step keeps a run pending for every object that is behind the cache.
LEMMA NoLostChangeStep ==
  ASSUME ChangeInv, TypeOK', [Next]_vars
  PROVE  NoLostChange'
<1> USE DEF ChangeInv
<1> SUFFICES ASSUME NEW o \in Objects, KindOf[o] \in Handled, reconciled'[o] # cache'[o]
             PROVE  \/ PendingRun(o)'
                    \/ \E w \in Workers : Target(w)' = o /\ pc'[w] = "handle"
  BY DEF NoLostChange
\* The handlers of o end with obj[w] as the reconciled object.
<1>1. ASSUME NEW w \in Workers, Target(w) = o, pc[w] = "handle", cache' = cache,
             reconciled'[o] = obj[w]
      PROVE  PendingRun(o)'
  <2>1. PendingRun(o)
    BY <1>1 DEF RunFresh
  <2>2. \A x \in Workers : ~(Target(x) = o /\ GetObject(x))
    BY <1>1 DEF GetObject, Exclusive, OneRunPerObject, Locking
  <2> QED
    BY <2>1, <2>2, PendingKept
<1>2. ASSUME NEW w \in Workers, Target(w) = o, HandlerReturns(w) \/ HandlerFails(w)
      PROVE  PendingRun(o)'
  <2>1. pc[w] = "handle" /\ cache' = cache
    BY <1>2 DEF HandlerReturns, HandlerFails, informer
  <2>2. CASE reconciled'[o] = obj[w]
    BY <1>1, <1>2, <2>1, <2>2
  <2>3. CASE reconciled'[o] # obj[w]
    <3>1. HandlerFails(w) /\ w \in failed'
      BY <1>2, <2>3 DEF HandlerReturns, HandlerFails, TypeOK
    <3>2. CASE pc'[w] = "return" /\ Target(w)' = o
      BY <3>1, <3>2 DEF PendingRun, WillRequeue
    <3>3. CASE w \in failed
      BY <3>1, <3>3, <2>1 DEF Shape, WorkerShape
    <3> QED
      BY <1>2, <2>1, <3>1, <3>2, <3>3 DEF HandlerFails, Fail, Goto, Return, Target, TypeOK
  <2> QED
    BY <2>2, <2>3
<1>3. CASE cache' # cache
  <2>1. PICK p \in Objects : Change(p)
    BY <1>3, HistorySteps
  <2>2. CASE p = o
    BY <2>1, <2>2 DEF Change, PendingRun, TypeOK
  <2>3. CASE p # o
    <3>1. reconciled'[o] # cache[o] /\ reconciled' = reconciled /\ UNCHANGED worker
      BY <2>1, <2>3 DEF Change, history, worker, TypeOK
    <3>2. PendingRun(o) \/ \E w \in Workers : Target(w) = o /\ pc[w] = "handle"
      BY <3>1 DEF NoLostChange
    <3>3. \A x \in Workers : ~GetObject(x)
      BY <3>1 DEF GetObject, Goto, worker, TypeOK
    <3> QED
      BY <3>1, <3>2, <3>3, PendingKept DEF worker, Target
  <2> QED
    BY <2>2, <2>3
<1>4. CASE cache' = cache /\ ~\E w \in Workers : Target(w) = o /\ (HandlerReturns(w) \/ HandlerFails(w))
  <2>1. reconciled'[o] = reconciled[o]
    BY <1>4, HistorySteps DEF HandlerReturns, HandlerFails, TypeOK
  <2>2. CASE PendingRun(o)
    <3>1. ASSUME NEW w \in Workers, Target(w) = o, GetObject(w)
          PROVE  Target(w)' = o /\ pc'[w] = "handle"
      BY <3>1 DEF GetObject, Goto, Target, TypeOK
    <3> QED
      BY <2>2, <3>1, PendingKept
  <2>3. ASSUME NEW w \in Workers, Target(w) = o, pc[w] = "handle"
        PROVE  Target(w)' = o /\ pc'[w] = "handle"
    BY <1>4, <2>3, WorkerSteps DEF Target
  <2> QED
    BY <1>4, <2>1, <2>2, <2>3 DEF NoLostChange
<1> QED
  BY <1>2, <1>3, <1>4

\* The invariant behind ChangesAreNotLost is inductive.
LEMMA ChangeInvariant == Spec => []ChangeInv
<1>1. Init => Exclusive /\ Shape /\ ParamFresh /\ RunFresh
  BY DEF Init, Exclusive, OneRunPerObject, Locking, Shape, WorkerShape, ParamFresh, RunFresh
<1>2. Init => NoLostChange
  BY ValueFacts DEF Init, NoLostChange, PendingRun, NotFound, Exists
<1>3. TypeOK' /\ ChangeInv /\ [Next]_vars => ChangeInv'
  BY ExclusiveStep, ShapeStep, ParamFreshStep, RunFreshStep, NoLostChangeStep DEF ChangeInv
<1> QED
  BY <1>1, <1>2, <1>3, TypeCorrect, PTL DEF Spec, ChangeInv

\* No change of a handled object is ever lost, for any number of objects, kinds
\* and workers and however handlers and writes fail.
THEOREM ChangesAreNotLost == Spec => []NoLostChange
BY ChangeInvariant, PTL DEF ChangeInv

---------------------------------------------------------------------------
(* No dependent is left with a stale answer by an object that triggers it. *)

\* A matcher knows the name and the kind of an object, and a selector its labels.
LEMMA MatchFacts ==
  ASSUME NEW d \in Queries, NEW o, NEW v
  PROVE  /\ Match(d, o, v) => Addresses(d, o)
         /\ Addresses(d, o) /\ d.name # {} => Match(d, o, v)
         /\ Match(d, o, NotFound) => Match(d, o, v)
         /\ Match(d, o, v) /\ ~Match(d, o, NotFound) => Exists(v)
BY DEF Match, Addresses, Exists, NotFound

\* A run that announces o as v triggers every target whose matcher takes v.
LEMMA Announce ==
  ASSUME TypeOK, NEW w \in Workers, NEW o \in Objects, Target(w) = o, NEW v,
         \/ InvokeTriggers(w) /\ ~FromTrigger(w) /\ v = obj[w]
         \/ UnregisterAndTrigger(w) /\ v = NotFound,
         NEW t \in Objects \ {o}, NEW d \in Queries, <<t, d>> \in matchers, Match(d, o, v)
  PROVE  PendingRun(t)'
<1>1. t \in Dependents(o, v)
  BY DEF Dependents
<1>2. Add(queue, {Trigger(x) : x \in Dependents(o, v)}).dirty
        = queue.dirty \cup {Trigger(x) : x \in Dependents(o, v)}
  BY DependentsType, AddFacts DEF TypeOK, OpenQueue
<1>3. queue' = Add(queue, {Trigger(x) : x \in Dependents(o, v)})
  BY DEF InvokeTriggers, UnregisterAndTrigger
<1>4. Trigger(t) \in queue'.dirty
  BY <1>1, <1>2, <1>3
<1> QED
  BY <1>4, ItemFacts DEF PendingRun

\* What a step does to the recorded answers of an object, and to its matchers.
LEMMA AnswerSteps ==
  ASSUME TypeOK, [Next]_vars, NEW t \in Objects
  PROVE  \/ asked'[t] = {} /\ seen'[t] = [d \in Queries |-> Nothing]
         \/ /\ asked'[t] = asked[t] /\ seen'[t] = seen[t]
            /\ \A w \in Workers : Target(w) = t => ~UnregisterAndTrigger(w)
            /\ \A w \in Workers : Target(w) = t /\ KindOf[t] \in Handled => ~GetObject(w)
         \/ \E w \in Workers : \E d \in query[w] :
              /\ Target(w) = t /\ pc[w] = "handle" /\ cache' = cache /\ matchers' = matchers
              /\ asked'[t] = asked[t] \cup {d}
              /\ seen'[t] = [seen[t] EXCEPT ![d] = View(d)]
              /\ \A x \in Workers : ~GetObject(x)
              /\ watching' = watching
<1> DEFINE Same == /\ asked'[t] = asked[t] /\ seen'[t] = seen[t]
                   /\ \A w \in Workers : Target(w) = t => ~UnregisterAndTrigger(w)
                   /\ \A w \in Workers : Target(w) = t /\ KindOf[t] \in Handled => ~GetObject(w)
           Reset == asked'[t] = {} /\ seen'[t] = [d \in Queries |-> Nothing]
           Answer == \E w \in Workers : \E d \in query[w] :
                       /\ Target(w) = t /\ pc[w] = "handle" /\ cache' = cache
                       /\ matchers' = matchers
                       /\ asked'[t] = asked[t] \cup {d}
                       /\ seen'[t] = [seen[t] EXCEPT ![d] = View(d)]
                       /\ \A x \in Workers : ~GetObject(x)
                       /\ watching' = watching
<1>1. CASE \E w \in Workers : GetObject(w) /\ Target(w) = t /\ KindOf[t] \in Handled
  BY <1>1 DEF GetObject, TypeOK
<1>2. CASE \E w \in Workers : UnregisterAndTrigger(w) /\ Target(w) = t
  BY <1>2 DEF UnregisterAndTrigger, TypeOK
<1>3. ASSUME NEW w \in Workers, Read(w), Target(w) = t PROVE Answer
  <2>1. \A x \in Workers : ~GetObject(x)
    BY <1>3 DEF Read, GetObject, Goto, TypeOK
  <2> QED
    BY <1>3, <2>1 DEF Read, informer, TypeOK
<1>4. CASE /\ ~\E w \in Workers : GetObject(w) /\ Target(w) = t /\ KindOf[t] \in Handled
           /\ ~\E w \in Workers : UnregisterAndTrigger(w) /\ Target(w) = t
           /\ ~\E w \in Workers : Read(w) /\ Target(w) = t
  <2>1. asked'[t] = asked[t] /\ seen'[t] = seen[t]
    <3> USE DEF history
    <3>1. ASSUME NEW w \in Workers, Sync(w) PROVE asked'[t] = asked[t] /\ seen'[t] = seen[t]
      BY <3>1, <1>4 DEF Sync, SyncHandler, CheckDelay, Lock, GetObject, ReadFails, TypeOK
    <3>2. ASSUME NEW w \in Workers, Handle(w) PROVE asked'[t] = asked[t] /\ seen'[t] = seen[t]
      BY <3>2, <1>4 DEF Handle, Watch, WatchFails, Read, HandlerReturns, HandlerFails, TypeOK
    <3>3. ASSUME NEW w \in Workers, Conclude(w) PROVE asked'[t] = asked[t] /\ seen'[t] = seen[t]
      BY <3>3, <1>4 DEF Conclude, InvokeTriggers, UnregisterAndTrigger, Save, SaveFails,
                        RetryAfter, Unlock, Finish, TypeOK
    <3>4. ASSUME NEW o \in Objects, Change(o) \/ HandleObject(o) \/ WakeUp(o)
          PROVE  asked'[t] = asked[t] /\ seen'[t] = seen[t]
      BY <3>4 DEF Change, HandleObject, WakeUp
    <3>5. ASSUME NEW i \in Items, Timer(i) \/ \E w \in Workers : Take(w, i)
          PROVE  asked'[t] = asked[t] /\ seen'[t] = seen[t]
      BY <3>5 DEF Timer, Take
    <3>6. CASE UNCHANGED vars
      BY <3>6 DEF vars
    <3> QED
      BY <3>1, <3>2, <3>3, <3>4, <3>5, <3>6 DEF Next, Step
  <2> QED
    BY <1>4, <2>1
<1> QED
  BY <1>1, <1>2, <1>3, <1>4

\* Watches are never undone, and only UnregisterAndTrigger removes matchers.
LEMMA MatcherSteps ==
  ASSUME TypeOK, [Next]_vars
  PROVE  /\ watching \subseteq watching'
         /\ \/ matchers \subseteq matchers'
            \/ \E w \in Workers :
                 /\ UnregisterAndTrigger(w)
                 /\ matchers' = {m \in matchers : m[1] # Target(w) /\ Target(w) \notin m[2].name}
<1> USE DEF vars
<1>1. ASSUME NEW w \in Workers, Sync(w) PROVE UNCHANGED <<watching, matchers>>
  BY <1>1 DEF Sync, SyncHandler, CheckDelay, Lock, GetObject, ReadFails
<1>2. ASSUME NEW w \in Workers, Handle(w)
      PROVE  watching \subseteq watching' /\ matchers \subseteq matchers'
  BY <1>2 DEF Handle, Watch, WatchFails, Read, HandlerReturns, HandlerFails
<1>3. ASSUME NEW w \in Workers, Conclude(w)
      PROVE  /\ watching' = watching
             /\ \/ matchers' = matchers
                \/ UnregisterAndTrigger(w)
                   /\ matchers' = {m \in matchers : m[1] # Target(w) /\ Target(w) \notin m[2].name}
  BY <1>3 DEF Conclude, InvokeTriggers, UnregisterAndTrigger, Save, SaveFails, RetryAfter,
              Unlock, Finish
<1>4. ASSUME NEW o \in Objects, Change(o) \/ HandleObject(o) \/ WakeUp(o)
      PROVE  UNCHANGED <<watching, matchers>>
  BY <1>4 DEF Change, HandleObject, WakeUp
<1>5. ASSUME NEW i \in Items, Timer(i) \/ \E w \in Workers : Take(w, i)
      PROVE  UNCHANGED <<watching, matchers>>
  BY <1>5 DEF Timer, Take
<1> QED
  BY <1>1, <1>2, <1>3, <1>4, <1>5 DEF Next, Step

\* Only Watch gives a worker an unread query, and the worker keeps its item
\* until the query is read.
LEMMA QuerySteps ==
  ASSUME TypeOK, Shape, [Next]_vars, NEW w \in Workers, NEW d \in Queries, d \in query'[w]
  PROVE  Watch(w, d) \/ (d \in query[w] /\ item'[w] = item[w])
<1> DEFINE Goal == Watch(w, d) \/ (d \in query[w] /\ item'[w] = item[w])
<1>1. CASE UNCHANGED worker
  BY <1>1 DEF worker
<1>2. ASSUME NEW x \in Workers, Step(x) \/ \E i \in Items : Take(x, i), x # w PROVE Goal
  BY <1>2, OthersKept
<1> USE DEF TypeOK, worker
<1>3. CASE Sync(w)
  BY <1>3 DEF Sync, SyncHandler, CheckDelay, Lock, GetObject, ReadFails
<1>4. CASE Handle(w)
  BY <1>4 DEF Handle, Watch, WatchFails, Read, HandlerReturns, HandlerFails
<1>5. CASE Conclude(w) /\ ~Finish(w)
  BY <1>5 DEF Conclude, InvokeTriggers, UnregisterAndTrigger, Save, SaveFails, RetryAfter, Unlock
<1>6. CASE UNCHANGED vars
  BY <1>6 DEF vars
<1>7. ASSUME NEW o \in Objects, Change(o) \/ HandleObject(o) \/ WakeUp(o) PROVE Goal
  BY <1>1, <1>7 DEF Change, HandleObject, WakeUp
<1>8. ASSUME NEW i \in Items, Timer(i) PROVE Goal
  BY <1>1, <1>8 DEF Timer
<1>9. query[w] # {} => pc[w] = "handle"
  BY DEF Shape, WorkerShape
<1>10. CASE Finish(w)
  BY <1>9, <1>10 DEF Finish
<1>11. ASSUME NEW i \in Items, Take(w, i) PROVE Goal
  BY <1>9, <1>11 DEF Take
<1> HIDE DEF TypeOK, worker
<1>12. ASSUME NEW x \in Workers, Step(x) PROVE Goal
  BY <1>2, <1>3, <1>4, <1>5, <1>10, <1>12 DEF Step, Conclude
<1> QED
  BY <1>2, <1>6, <1>7, <1>8, <1>11, <1>12 DEF Next

\* A registered trigger stays, unless its target runs again or is deleted.
LEMMA RegistrationKept ==
  ASSUME TypeOK, [Next]_vars, NEW t \in Objects, NEW d \in Queries,
         <<t, d>> \in matchers
  PROVE  \/ <<t, d>> \in matchers'
         \/ PendingRun(t)'
         \/ \E w \in Workers : Target(w) = t /\ UnregisterAndTrigger(w)
<1> SUFFICES ASSUME <<t, d>> \notin matchers'
             PROVE  \/ PendingRun(t)'
                    \/ \E w \in Workers : Target(w) = t /\ UnregisterAndTrigger(w)
  OBVIOUS
<1>1. PICK w \in Workers :
        /\ UnregisterAndTrigger(w)
        /\ matchers' = {m \in matchers : m[1] # Target(w) /\ Target(w) \notin m[2].name}
  BY MatcherSteps
<1>2. PICK o \in Objects : Target(w) = o
  BY <1>1, TargetType DEF UnregisterAndTrigger
<1>3. o = t \/ o \in d.name
  BY <1>1, <1>2
<1>4. CASE o # t
  <2>1. Addresses(d, o) /\ d.name # {}
    BY <1>3, <1>4, ConstantsAssumption DEF Addresses
  <2>2. Match(d, o, NotFound)
    BY <2>1, MatchFacts
  <2> QED
    BY <1>1, <1>2, <1>4, <2>2, Announce
<1> QED
  BY <1>1, <1>2, <1>4

\* Every step keeps the triggers of the answers that were given registered.
LEMMA RegisteredStep ==
  ASSUME ChangeInv, TypeOK', Registered, [Next]_vars
  PROVE  Registered'
<1> USE DEF ChangeInv
<1>1. ASSUME NEW t \in Objects, NEW d \in Queries, d \in asked'[t]
      PROVE  d.kind \in watching' /\ (<<t, d>> \in matchers' \/ PendingRun(t)')
  <2>1. CASE /\ d \in asked[t]
             /\ \A w \in Workers : Target(w) = t => ~UnregisterAndTrigger(w)
             /\ \A w \in Workers : Target(w) = t /\ KindOf[t] \in Handled => ~GetObject(w)
    <3>1. d.kind \in watching' /\ KindOf[t] \in Handled
      BY <2>1, MatcherSteps DEF Registered, Shape
    <3>2. <<t, d>> \in matchers \/ PendingRun(t)
      BY <2>1 DEF Registered
    <3>3. PendingRun(t) => PendingRun(t)'
      BY <2>1, <3>1, PendingKept
    <3> QED
      BY <2>1, <3>1, <3>2, <3>3, RegistrationKept
  <2>2. ASSUME NEW w \in Workers, NEW e \in query[w], Target(w) = t, pc[w] = "handle",
               matchers' = matchers, watching' = watching,
               asked'[t] = asked[t] \cup {e}, \A x \in Workers : ~GetObject(x)
        PROVE  d.kind \in watching' /\ (<<t, d>> \in matchers' \/ PendingRun(t)')
    <3>1. d.kind \in watching /\ (<<t, d>> \in matchers \/ PendingRun(t))
      BY <1>1, <2>2 DEF Registered, TypeOK
    <3>2. PendingRun(t) => PendingRun(t)'
      BY <2>2, PendingKept
    <3> QED
      BY <2>2, <3>1, <3>2
  <2> QED
    BY <1>1, <2>1, <2>2, AnswerSteps
<1>2. ASSUME NEW w \in Workers, NEW d \in Queries, d \in query'[w],
             NEW t \in Objects, Target(w)' = t
      PROVE  d.kind \in watching' /\ (<<t, d>> \in matchers' \/ PendingRun(t)')
  <2>1. CASE Watch(w, d)
    BY <1>2, <2>1 DEF Watch, Target
  <2>2. CASE ~Watch(w, d)
    <3>1. d \in query[w] /\ item'[w] = item[w]
      BY <1>2, <2>2, QuerySteps
    <3>2. pc[w] = "handle" /\ Target(w) = t
      BY <1>2, <3>1 DEF Shape, WorkerShape, Target
    <3>3. \A x \in Workers : Target(x) = t => ~GetObject(x) /\ ~UnregisterAndTrigger(x)
      BY <3>2 DEF GetObject, UnregisterAndTrigger, Exclusive, OneRunPerObject, Locking
    <3>4. d.kind \in watching /\ (<<t, d>> \in matchers \/ PendingRun(t))
      BY <3>1, <3>2 DEF Registered
    <3>5. PendingRun(t) => PendingRun(t)'
      BY <3>3, PendingKept
    <3> QED
      BY <3>3, <3>4, <3>5, RegistrationKept, MatcherSteps
  <2> QED
    BY <2>1, <2>2
<1>3. ASSUME NEW t \in Objects, NEW d \in Queries, NEW o \in Objects, ~Addresses(d, o)
      PROVE  seen'[t][d][o] = NotFound
  <2>1. View(d)[o] = NotFound
    BY <1>3, MatchFacts DEF View
  <2>2. seen[t][d][o] = NotFound
    BY <1>3 DEF Registered
  <2>3. ASSUME NEW w \in Workers, NEW e \in query[w], seen'[t] = [seen[t] EXCEPT ![e] = View(e)]
        PROVE  seen'[t][d][o] = NotFound
    BY <2>1, <2>2, <2>3 DEF TypeOK
  <2>4. CASE seen'[t] = [e \in Queries |-> Nothing]
    BY <2>4 DEF Nothing
  <2>5. CASE seen'[t] = seen[t]
    BY <2>2, <2>5
  <2> QED
    BY <2>3, <2>4, <2>5, AnswerSteps
<1>4. ASSUME NEW w \in Workers, NEW d \in Queries, d \in query'[w]
      PROVE  /\ d.kind \in watching'
             /\ <<Target(w)', d>> \in matchers' \/ PendingRun(Target(w))'
  <2>1. pc'[w] = "handle"
    BY <1>4, ShapeStep DEF Shape, WorkerShape
  <2>2. PICK t \in Objects : Target(w)' = t
    BY <2>1, ItemFacts DEF TypeOK, Target
  <2> QED
    BY <1>2, <1>4, <2>2 DEF PendingRun
<1> QED
  BY <1>1, <1>3, <1>4 DEF Registered, Addresses

\* How a worker gets to the triggers, and that it keeps its object until then.
LEMMA AnnouncerSteps ==
  ASSUME TypeOK, [Next]_vars, NEW w \in Workers, pc'[w] \in {"handle", "trigger"}
  PROVE  \/ GetObject(w)
         \/ pc[w] \in {"handle", "trigger"} /\ item'[w] = item[w] /\ obj'[w] = obj[w]
<1> DEFINE Goal == \/ GetObject(w)
                   \/ pc[w] \in {"handle", "trigger"} /\ item'[w] = item[w] /\ obj'[w] = obj[w]
<1> USE DEF worker, Goto, Return
<1>1. CASE UNCHANGED worker
  BY <1>1
<1>2. ASSUME NEW x \in Workers, Step(x) \/ \E i \in Items : Take(x, i), x # w PROVE Goal
  BY <1>2, OthersKept
<1>3. ASSUME NEW i \in Items, Take(w, i) PROVE Goal
  BY <1>3 DEF Take, TypeOK
<1>4. CASE SyncHandler(w) \/ CheckDelay(w) \/ Lock(w) \/ ReadFails(w)
  BY <1>4 DEF SyncHandler, CheckDelay, Lock, ReadFails, TypeOK
<1>5. CASE Handle(w)
  BY <1>5 DEF Handle, Watch, WatchFails, Read, HandlerReturns, HandlerFails, TypeOK
<1>6. CASE Conclude(w)
  BY <1>6 DEF Conclude, InvokeTriggers, UnregisterAndTrigger, AfterTrigger, Save, SaveFails,
              Fail, RetryAfter, Unlock, Finish, TypeOK
<1>7. ASSUME NEW o \in Objects, Change(o) \/ HandleObject(o) \/ WakeUp(o) PROVE Goal
  BY <1>1, <1>7 DEF Change, HandleObject, WakeUp
<1>8. ASSUME NEW i \in Items, Timer(i) PROVE Goal
  BY <1>1, <1>8 DEF Timer
<1>9. CASE UNCHANGED vars
  BY <1>1, <1>9 DEF vars
<1> HIDE DEF worker, Goto, Return, Goal
<1> QED
  BY <1>2, <1>3, <1>4, <1>5, <1>6, <1>7, <1>8, <1>9 DEF Next, Step, Sync, Goal

\* The first watch of a kind delivers its objects.
LEMMA FirstWatch ==
  ASSUME [Next]_vars, NEW o \in Objects, KindOf[o] \in watching' \ watching,
         Exists(cache'[o])
  PROVE  o \in events'
<1>1. \E w \in Workers, d \in Queries : Watch(w, d)
  <2> SUFFICES ASSUME watching' = watching PROVE FALSE
    <3>1. ASSUME NEW w \in Workers, Sync(w) PROVE watching' = watching
      BY <3>1 DEF Sync, SyncHandler, CheckDelay, Lock, GetObject, ReadFails
    <3>2. ASSUME NEW w \in Workers, Handle(w), ~\E d \in Queries : Watch(w, d)
          PROVE  watching' = watching
      BY <3>2 DEF Handle, WatchFails, Read, HandlerReturns, HandlerFails
    <3>3. ASSUME NEW w \in Workers, Conclude(w) PROVE watching' = watching
      BY <3>3 DEF Conclude, InvokeTriggers, UnregisterAndTrigger, Save, SaveFails, RetryAfter,
                  Unlock, Finish
    <3>4. ASSUME NEW p \in Objects, Change(p) \/ HandleObject(p) \/ WakeUp(p)
          PROVE  watching' = watching
      BY <3>4 DEF Change, HandleObject, WakeUp
    <3>5. ASSUME NEW i \in Items, Timer(i) \/ \E w \in Workers : Take(w, i)
          PROVE  watching' = watching
      BY <3>5 DEF Timer, Take
    <3>6. CASE UNCHANGED vars
      BY <3>6 DEF vars
    <3> QED
      BY <3>1, <3>2, <3>3, <3>4, <3>5, <3>6 DEF Next, Step
  <2> QED
    OBVIOUS
<1>2. PICK w \in Workers, d \in Queries : Watch(w, d)
  BY <1>1
<1> QED
  BY <1>2 DEF Watch

\* Every step keeps a further run on its way when an object is announced as it was.
LEMMA AnnounceFreshStep ==
  ASSUME ChangeInv, TypeOK', AnnounceFresh, [Next]_vars
  PROVE  AnnounceFresh'
<1> USE DEF ChangeInv
<1> SUFFICES ASSUME NEW w \in Workers, NEW o \in Objects, Target(w)' = o,
                    pc'[w] \in {"handle", "trigger"}, ~FromTrigger(w)',
                    KindOf[o] \in watching', Exists(cache'[o]), obj'[w] # cache'[o]
             PROVE  AnnouncedAgain(o)'
  <2> SUFFICES ASSUME NEW w \in Workers, pc'[w] \in {"handle", "trigger"}, ~FromTrigger(w)',
                      KindOf[Target(w)'] \in watching', Exists(cache'[Target(w)']),
                      obj'[w] # cache'[Target(w)']
               PROVE  AnnouncedAgain(Target(w))'
    BY DEF AnnounceFresh
  <2>1. PICK o \in Objects : Target(w)' = o
    BY ItemFacts DEF TypeOK, Target
  <2>2. AnnouncedAgain(o)'
    BY <2>1
  <2> QED
    BY <2>1, <2>2 DEF AnnouncedAgain
<1>1. CASE KindOf[o] \notin watching
  BY <1>1, FirstWatch DEF AnnouncedAgain
<1>2. ~GetObject(w)
  BY DEF GetObject, informer, Target, worker, TypeOK
<1>3. pc[w] \in {"handle", "trigger"} /\ item'[w] = item[w] /\ obj'[w] = obj[w]
  BY <1>2, AnnouncerSteps
<1>4. Target(w) = o /\ ~FromTrigger(w)
  BY <1>3 DEF Target, FromTrigger, Form
<1>5. CASE KindOf[o] \in watching /\ cache'[o] # cache[o]
  <2>1. PICK p \in Objects : Change(p)
    BY <1>5, HistorySteps
  <2>2. p = o
    BY <1>5, <2>1 DEF Change, TypeOK
  <2> QED
    BY <1>5, <2>1, <2>2 DEF Change, AnnouncedAgain
<1>6. CASE KindOf[o] \in watching /\ cache'[o] = cache[o]
  <2>1. AnnouncedAgain(o)
    BY <1>3, <1>4, <1>6 DEF AnnounceFresh
  <2>2. \A x \in Workers : Target(x) = o => ~GetObject(x)
    BY <1>3, <1>4 DEF GetObject, Exclusive, OneRunPerObject, Locking
  <2> QED
    BY <2>1, <2>2, PendingKept
<1> QED
  BY <1>1, <1>5, <1>6

\* A trigger of a registered target is not lost: whoever invokes the triggers with an old
\* object is followed by another.
LEMMA AnnounceKept ==
  ASSUME ChangeInv, TypeOK', AnnounceFresh, [Next]_vars, NEW o \in Objects,
         NEW t \in Objects \ {o}, NEW d \in Queries, <<t, d>> \in matchers,
         d.kind \in watching, Triggers(d, o), PendingAnnounce(o)
  PROVE  PendingRun(t)' \/ PendingAnnounce(o)'
<1> USE DEF ChangeInv
<1> SUFFICES ASSUME ~PendingAnnounce(o)' PROVE PendingRun(t)'
  OBVIOUS
<1>1. PICK w \in Workers : /\ Target(w) = o /\ ~FromTrigger(w)
                           /\ InvokeTriggers(w) \/ UnregisterAndTrigger(w)
  BY PendingKept DEF Triggers
<1>2. pc[w] = "trigger" /\ (UnregisterAndTrigger(w) => ~Exists(obj[w]))
  BY <1>1 DEF InvokeTriggers, UnregisterAndTrigger
<1>3. PICK v : \/ InvokeTriggers(w) /\ v = obj[w]
               \/ UnregisterAndTrigger(w) /\ v = NotFound
  BY <1>1
<1>4. CASE Match(d, o, v)
  BY <1>1, <1>3, <1>4, Announce
<1>5. CASE ~Match(d, o, v)
  <2>1. Match(d, o, cache[o]) /\ ~Match(d, o, NotFound)
    BY <1>5, MatchFacts DEF Triggers
  <2>2. Exists(cache[o]) /\ obj[w] # cache[o]
    BY <1>2, <1>3, <1>5, <2>1, MatchFacts
  <2>3. KindOf[o] \in watching
    BY <2>1, MatchFacts DEF Addresses
  <2>4. AnnouncedAgain(o)
    BY <1>1, <1>2, <2>2, <2>3 DEF AnnounceFresh
  <2>5. \A x \in Workers : Target(x) = o => ~GetObject(x)
    BY <1>1, <1>2 DEF GetObject, Exclusive, OneRunPerObject, Locking
  <2>6. AnnouncedAgain(o)'
    BY <2>4, <2>5, PendingKept
  <2>7. PendingAnnounce(o)'
    BY <2>6 DEF AnnouncedAgain, PendingAnnounce, BeforeGet, BeforeTrigger
  <2> QED
    BY <2>7
<1> QED
  BY <1>4, <1>5

\* Every step keeps a trigger on its way to whoever holds a stale answer.
LEMMA NoStaleStep ==
  ASSUME ChangeInv, TypeOK', Registered, AnnounceFresh, NoStaleDependent, [Next]_vars
  PROVE  NoStaleDependent'
<1> USE DEF ChangeInv
<1> SUFFICES ASSUME NEW t \in Objects, NEW d \in Queries, NEW o \in Objects,
                    d \in asked'[t], seen'[t][d][o] # View(d)'[o], Triggers(d, o)'
             PROVE  PendingRun(t)' \/ (o # t /\ PendingAnnounce(o)')
  BY DEF NoStaleDependent, Stale
<1>1. CASE \E p \in Objects : Change(p)
  <2>1. PICK p \in Objects : Change(p)
    BY <1>1
  <2>2. UNCHANGED <<asked, seen, pc, watching>>
    BY <2>1 DEF Change, history, worker
  <2>3. CASE p # o
    <3>1. cache'[o] = cache[o]
      BY <2>1, <2>3 DEF Change, TypeOK
    <3>2. View(d)'[o] = View(d)[o] /\ Triggers(d, o)
      BY <3>1 DEF View, Match, Triggers
    <3>3. PendingRun(t) \/ (o # t /\ PendingAnnounce(o))
      BY <2>2, <3>2 DEF NoStaleDependent, Stale
    <3>4. \A x \in Workers : ~GetObject(x) /\ ~InvokeTriggers(x) /\ ~UnregisterAndTrigger(x)
      BY <2>2 DEF GetObject, InvokeTriggers, UnregisterAndTrigger, AfterTrigger, Goto, Return,
                  TypeOK
    <3>5. KindOf[o] \in Handled => "ignore" \notin Outcomes
      BY DEF Triggers
    <3> QED
      BY <3>3, <3>4, <3>5, PendingKept
  <2>4. CASE p = o
    <3>1. d.kind = KindOf[o] /\ d.kind \in watching
      BY <2>2 DEF Triggers, Match, Registered
    <3>2. o \in events'
      BY <2>1, <2>4, <3>1 DEF Change
    <3> QED
      BY <3>2 DEF PendingRun, PendingAnnounce
  <2> QED
    BY <2>3, <2>4
<1>2. CASE ~\E p \in Objects : Change(p)
  <2>1. cache' = cache /\ View(d)' = View(d) /\ Triggers(d, o)
    BY <1>2, HistorySteps DEF View, Match, Triggers
  <2>2. CASE /\ asked'[t] = asked[t] /\ seen'[t] = seen[t]
             /\ \A w \in Workers : Target(w) = t /\ KindOf[t] \in Handled => ~GetObject(w)
    <3>1. Stale(t, d, o) /\ KindOf[t] \in Handled
      BY <2>1, <2>2 DEF Stale, Shape
    <3>2. PendingRun(t) => PendingRun(t)'
      BY <2>2, <3>1, PendingKept
    <3>3. d.kind \in watching /\ (<<t, d>> \in matchers \/ PendingRun(t))
      BY <3>1 DEF Registered, Stale
    <3>4. CASE o # t /\ PendingAnnounce(o) /\ <<t, d>> \in matchers
      BY <2>1, <3>3, <3>4, AnnounceKept
    <3> QED
      BY <2>1, <3>1, <3>2, <3>3, <3>4 DEF NoStaleDependent
  <2>3. ASSUME NEW w \in Workers, NEW e \in query[w], Target(w) = t,
               asked'[t] = asked[t] \cup {e}, seen'[t] = [seen[t] EXCEPT ![e] = View(e)],
               \A x \in Workers : ~GetObject(x), pc[w] = "handle", matchers' = matchers
        PROVE  PendingRun(t)' \/ (o # t /\ PendingAnnounce(o)')
    <3>1. d # e
      BY <2>1, <2>3 DEF TypeOK
    <3>2. Stale(t, d, o)
      BY <2>1, <2>3, <3>1 DEF Stale, TypeOK
    <3>3. PendingRun(t) => PendingRun(t)'
      BY <2>3, PendingKept
    <3>4. d.kind \in watching /\ (<<t, d>> \in matchers \/ PendingRun(t))
      BY <3>2 DEF Registered, Stale
    <3>5. CASE o # t /\ PendingAnnounce(o) /\ <<t, d>> \in matchers
      BY <2>1, <3>4, <3>5, AnnounceKept
    <3> QED
      BY <2>1, <3>2, <3>3, <3>4, <3>5 DEF NoStaleDependent
  <2> QED
    BY <2>2, <2>3, AnswerSteps
<1> QED
  BY <1>1, <1>2

\* No handler is left with an answer of req.Client that is out of date, for any objects,
\* workers and queries, as far as the objects trigger whoever asked.
THEOREM DependentsAreNotStale == Spec => []NoStaleDependent
<1>1. Init => Registered /\ AnnounceFresh /\ NoStaleDependent
  BY DEF Init, Registered, AnnounceFresh, NoStaleDependent, Stale, Nothing
<1>2. ChangeInv /\ TypeOK' /\ Registered /\ AnnounceFresh /\ NoStaleDependent /\ [Next]_vars
      => Registered' /\ AnnounceFresh' /\ NoStaleDependent'
  BY RegisteredStep, AnnounceFreshStep, NoStaleStep
<1>3. ChangeInv => TypeOK
  BY DEF ChangeInv
<1> QED
  BY <1>1, <1>2, <1>3, ChangeInvariant, PTL DEF Spec

---------------------------------------------------------------------------
(* The loop of the handled objects is an ObjectLoop.                       *)

\* The abstract state, object by object, before and after a step.
LEMMA LoopState ==
  ASSUME TypeOK, TypeOK'
  PROVE  /\ Owed = {o \in Mine : PendingRun(o)} /\ Owed' = {o \in Mine : PendingRun(o)'}
         /\ Saving = {o \in Mine : Concluding(o) # {}}
         /\ Saving' = {o \in Mine : Concluding(o)' # {}}
         /\ Given = [o \in Mine |-> {obj[w] : w \in Running(o)}]
         /\ Given' = [o \in Mine |-> {obj'[w] : w \in Running(o)'}]
         /\ Cached = [o \in Mine |-> cache[o]] /\ Cached' = [o \in Mine |-> cache'[o]]
         /\ Ran = [o \in Mine |-> reconciled[o]] /\ Ran' = [o \in Mine |-> reconciled'[o]]
BY DEF Owed, Saving, Given, Cached, Ran, Running, Concluding, PendingRun

\* Nothing begins or ends between the handlers of an object and the end of its run.
Quiet ==
  /\ \A o \in Mine : /\ Running(o)' = Running(o) /\ Concluding(o)' = Concluding(o)
                     /\ \A w \in Running(o) : obj'[w] = obj[w]
  /\ reconciled' = reconciled

\* The steps that begin or end a part of the run of a handled object.
LoopStep(w) ==
  /\ Target(w) \in Mine
  /\ GetObject(w) \/ HandlerReturns(w) \/ HandlerFails(w) \/ SaveFails(w) \/ RetryAfter(w)

\* Every other step leaves who runs and who concludes as it is.
LEMMA QuietSteps ==
  ASSUME TypeOK, TypeOK', Shape, [Next]_vars, \A w \in Workers : ~LoopStep(w)
  PROVE  Quiet
<1> DEFINE S == {"trigger", "save", "retry"}
           Same(w) == \/ UNCHANGED item[w] /\ Target(w) \notin Mine
                      \/ /\ pc[w] = "handle" <=> pc'[w] = "handle"
                         /\ pc[w] \in S <=> pc'[w] \in S
                         /\ pc[w] = "handle" \/ pc[w] \in S => UNCHANGED <<item[w], obj[w]>>
<1>i. \A w \in Workers : pc[w] # "idle" => item[w] \in Items /\ Target(w) \in Objects
  BY TargetType
<1>1. ASSUME UNCHANGED worker PROVE \A w \in Workers : Same(w)
  BY <1>1 DEF worker
<1>2. ASSUME NEW x \in Workers, Step(x) \/ \E i \in Items : Take(x, i)
      PROVE  \A w \in Workers : Same(w)
  <2>1. ASSUME NEW w \in Workers, w # x PROVE Same(w)
    BY <1>2, <2>1, OthersKept
  <2> USE DEF TypeOK, worker, Goto, Return
  <2>2. ASSUME NEW i \in Items, Take(x, i) PROVE Same(x)
    BY <2>2 DEF Take
  <2>3. CASE SyncHandler(x) \/ CheckDelay(x) \/ Lock(x) \/ ReadFails(x)
    BY <2>3 DEF SyncHandler, CheckDelay, Lock, ReadFails
  <2>4. CASE GetObject(x) /\ Target(x) \notin Mine
    BY <2>4 DEF GetObject
  <2>5. CASE Read(x) \/ \E d \in Queries : Watch(x, d) \/ WatchFails(x, d)
    BY <2>5 DEF Read, Watch, WatchFails
  <2>6. CASE HandlerReturns(x) \/ HandlerFails(x) \/ SaveFails(x)
    <3>1. Target(x) \in Mine
      BY <1>i, <2>6 DEF HandlerReturns, HandlerFails, SaveFails, Shape, WorkerShape, Mine
    <3> QED
      BY <2>6, <3>1 DEF LoopStep
  <2>7. CASE InvokeTriggers(x) \/ UnregisterAndTrigger(x)
    BY <1>i, <2>7 DEF InvokeTriggers, UnregisterAndTrigger, AfterTrigger, Mine
  <2>8. CASE Save(x) \/ Unlock(x) \/ Finish(x)
    BY <2>8 DEF Save, Unlock, Finish
  <2>9. CASE RetryAfter(x) /\ Target(x) \notin Mine
    BY <2>9 DEF RetryAfter
  <2> HIDE DEF TypeOK, worker, Goto, Return, Same
  <2> QED
    BY <1>2, <2>1, <2>2, <2>3, <2>4, <2>5, <2>6, <2>7, <2>8, <2>9
    DEF Step, Sync, Handle, Conclude, LoopStep
<1>3. \A w \in Workers : Same(w)
  <2>1. ASSUME NEW o \in Objects, Change(o) \/ HandleObject(o) \/ WakeUp(o)
        PROVE  UNCHANGED worker
    BY <2>1 DEF Change, HandleObject, WakeUp
  <2>2. ASSUME NEW i \in Items, Timer(i) PROVE UNCHANGED worker
    BY <2>2 DEF Timer
  <2>3. CASE UNCHANGED vars
    BY <1>1, <2>3 DEF vars
  <2> HIDE DEF Same
  <2> QED
    BY <1>1, <1>2, <2>1, <2>2, <2>3 DEF Next
<1>4. ASSUME NEW o \in Mine
      PROVE  /\ Running(o)' = Running(o) /\ Concluding(o)' = Concluding(o)
             /\ \A w \in Running(o) : obj'[w] = obj[w]
  BY <1>3 DEF Running, Concluding, Target
<1>5. reconciled' = reconciled
  <2>1. ASSUME NEW w \in Workers, HandlerReturns(w) \/ HandlerFails(w) PROVE FALSE
    <3>1. Target(w) \in Mine
      BY <1>i, <2>1 DEF HandlerReturns, HandlerFails, Shape, WorkerShape, Mine
    <3> QED
      BY <2>1, <3>1 DEF LoopStep
  <2> QED
    BY <2>1, HistorySteps
<1> QED
  BY <1>4, <1>5 DEF Quiet

\* Then their part of the abstract state is as it was.
LEMMA QuietState ==
  ASSUME TypeOK, TypeOK', Quiet
  PROVE  Given' = Given /\ Saving' = Saving /\ Ran' = Ran
<1> DEFINE G(p) == {obj[x] : x \in Running(p)}
           H(p) == {obj'[x] : x \in Running(p)'}
<1>1. Given = [p \in Mine |-> G(p)] /\ Given' = [p \in Mine |-> H(p)]
  BY LoopState
<1>2. \A p \in Mine : H(p) = G(p)
  BY DEF Quiet
<1>3. Saving' = Saving /\ Ran' = Ran
  BY LoopState DEF Quiet
<1> HIDE DEF G, H
<1> QED
  BY <1>1, <1>2, <1>3

\* The one worker that holds an object decides its part of the abstract state.
LEMMA LoopStepState ==
  ASSUME TypeOK, TypeOK', Exclusive, NEW w \in Workers, NEW o \in Mine, Target(w) = o,
         pc[w] \in Locking, Step(w), item'[w] = item[w]
  PROVE  /\ Given[o] = IF pc[w] = "handle" THEN {obj[w]} ELSE {}
         /\ Given' = [Given EXCEPT ![o] = IF pc'[w] = "handle" THEN {obj'[w]} ELSE {}]
         /\ o \in Saving <=> pc[w] \in {"trigger", "save", "retry"}
         /\ Saving' = IF pc'[w] \in {"trigger", "save", "retry"}
                      THEN Saving \cup {o} ELSE Saving \ {o}
<1>1. \A x \in Workers \ {w} : pc[x] \in Locking => Target(x) # o
  BY DEF Exclusive, OneRunPerObject
<1>2. \A x \in Workers \ {w} : pc'[x] = pc[x] /\ item'[x] = item[x] /\ obj'[x] = obj[x]
  BY OthersKept
<1>3. \A p \in Mine \ {o} : /\ Running(p)' = Running(p) /\ Concluding(p)' = Concluding(p)
                            /\ \A x \in Running(p) : obj'[x] = obj[x]
  BY <1>2 DEF Running, Concluding, Target
<1>4. /\ Running(o) = IF pc[w] = "handle" THEN {w} ELSE {}
      /\ Concluding(o) = IF pc[w] \in {"trigger", "save", "retry"} THEN {w} ELSE {}
      /\ Running(o)' = IF pc'[w] = "handle" THEN {w} ELSE {}
      /\ Concluding(o)' = IF pc'[w] \in {"trigger", "save", "retry"} THEN {w} ELSE {}
  BY <1>1, <1>2 DEF Running, Concluding, Target, Locking
<1>5. {obj[x] : x \in Running(o)} = IF pc[w] = "handle" THEN {obj[w]} ELSE {}
  BY <1>4
<1>6. {obj'[x] : x \in Running(o)'} = IF pc'[w] = "handle" THEN {obj'[w]} ELSE {}
  BY <1>4
<1>7. \A p \in Mine \ {o} : {obj'[x] : x \in Running(p)'} = {obj[x] : x \in Running(p)}
  BY <1>3
<1>8. Given[o] = (IF pc[w] = "handle" THEN {obj[w]} ELSE {})
  BY <1>5, LoopState
<1>9. Given' = [Given EXCEPT ![o] = IF pc'[w] = "handle" THEN {obj'[w]} ELSE {}]
  <2> DEFINE G(p) == {obj[x] : x \in Running(p)}
             H(p) == {obj'[x] : x \in Running(p)'}
  <2>1. Given = [p \in Mine |-> G(p)] /\ Given' = [p \in Mine |-> H(p)]
    BY LoopState
  <2>2. /\ \A p \in Mine \ {o} : H(p) = G(p)
        /\ H(o) = IF pc'[w] = "handle" THEN {obj'[w]} ELSE {}
    BY <1>6, <1>7
  <2> HIDE DEF G, H
  <2> QED
    BY <2>1, <2>2
<1>10. o \in Saving <=> pc[w] \in {"trigger", "save", "retry"}
  BY <1>4, LoopState
<1>11. Saving' = IF pc'[w] \in {"trigger", "save", "retry"} THEN Saving \cup {o} ELSE Saving \ {o}
  <2>1. \A p \in Mine \ {o} : p \in Saving' <=> p \in Saving
    BY <1>3, LoopState
  <2>2. o \in Saving' <=> pc'[w] \in {"trigger", "save", "retry"}
    BY <1>4, LoopState
  <2>3. Saving \subseteq Mine /\ Saving' \subseteq Mine
    BY LoopState
  <2> QED
    BY <2>1, <2>2, <2>3
<1> QED
  BY <1>8, <1>9, <1>10, <1>11

\* A step of a worker in the loop of its object changes nothing for the others.
LEMMA LoopStepOwed ==
  ASSUME TypeOK, TypeOK', Shape, NEW w \in Workers, NEW o \in Mine, Target(w) = o, LoopStep(w)
  PROVE  /\ Owed' = IF PendingRun(o)' THEN Owed \cup {o} ELSE Owed \ {o}
         /\ o \in Owed <=> PendingRun(o)
         /\ HandlerReturns(w) \/ (HandlerFails(w) /\ w \notin failed') => Owed' = Owed
<1>q. queue \in OpenQueue /\ o \in Objects /\ Mine \subseteq Objects
  BY DEF TypeOK, OpenQueue, Mine
<1>1. events' = events /\ waiting' = waiting /\ item' = item
  BY DEF LoopStep, GetObject, HandlerReturns, HandlerFails, SaveFails, RetryAfter, Goto, informer,
         limits
<1>2. /\ queue'.dirty = queue.dirty
      /\ queue'.delayed = queue.delayed \/ queue'.delayed = queue.delayed \cup {Plain(o)}
  <2>1. CASE RetryAfter(w)
    <3>1. queue' = queue \/ queue' = AddAfter(queue, {Plain(o)})
      BY <2>1 DEF RetryAfter
    <3> QED
      BY <1>q, <3>1, AddAfterFacts, ItemFacts
  <2>2. CASE ~RetryAfter(w)
    BY <2>2 DEF LoopStep, GetObject, HandlerReturns, HandlerFails, SaveFails
  <2> QED
    BY <2>1, <2>2
<1>3. \A x \in Workers \ {w} : pc'[x] = pc[x] /\ (x \in failed' <=> x \in failed)
  BY OthersKept DEF LoopStep, Step, Sync, Handle, Conclude
<1>4. ASSUME NEW p \in Mine, p # o PROVE PendingRun(p)' <=> PendingRun(p)
  BY <1>q, <1>1, <1>2, <1>3, <1>4, ItemFacts DEF PendingRun, WillRequeue, Target
<1>5. ASSUME HandlerReturns(w) \/ (HandlerFails(w) /\ w \notin failed')
      PROVE  PendingRun(o)' <=> PendingRun(o)
  <2>1. queue' = queue /\ pc[w] = "handle" /\ pc'[w] \in {"trigger", "return"} /\ w \notin failed'
    BY <1>5 DEF HandlerReturns, HandlerFails, Fail, Goto, Return, TypeOK, Shape, WorkerShape
  <2> QED
    BY <1>1, <1>3, <2>1 DEF PendingRun, WillRequeue, BeforeGet, Target
<1> QED
  BY <1>4, <1>5, LoopState

\* Every step of HandlerSet is a step of the ObjectLoop, or leaves its state alone.
LEMMA LoopRefinement ==
  ASSUME ChangeInv, TypeOK', RunFresh', [Next]_vars
  PROVE  [Loop!Next]_(Loop!vars)
<1> USE DEF ChangeInv
<1> SUFFICES Loop!Next \/ UNCHANGED <<Cached, Owed, Given, Saving, Ran>>
  BY DEF Loop!vars
<1>1. ASSUME NEW o \in Objects, Change(o)
      PROVE  Loop!Next \/ UNCHANGED <<Cached, Owed, Given, Saving, Ran>>
  <2>1. UNCHANGED <<pc, item, obj, failed, queue, waiting, reconciled>>
    BY <1>1 DEF Change, worker, limits, history
  <2>2. Given' = Given /\ Saving' = Saving /\ Ran' = Ran
    BY <2>1, QuietState DEF Quiet, Running, Concluding, Target
  <2>3. \A p \in Objects \ {o} : cache'[p] = cache[p] /\ (p \in events' <=> p \in events)
    BY <1>1 DEF Change, TypeOK
  <2>4. \A p \in Objects \ {o} : PendingRun(p)' <=> PendingRun(p)
    BY <2>1, <2>3 DEF PendingRun, WillRequeue, Target
  <2>5. CASE o \in Mine
    <3>1. PendingRun(o)'
      BY <1>1, <2>5 DEF Change, Mine, PendingRun, TypeOK
    <3>2. Owed' = Owed \cup {o}
      BY <2>4, <2>5, <3>1, LoopState DEF Mine
    <3>3. cache'[o] \in Value /\ Cached' = [Cached EXCEPT ![o] = cache'[o]]
      BY <2>3, <2>5, LoopState DEF Mine, TypeOK
    <3> QED
      BY <2>2, <2>5, <3>2, <3>3 DEF Loop!Next, Loop!Change
  <2>6. CASE o \notin Mine
    <3>1. Owed' = Owed /\ Cached' = Cached
      BY <2>3, <2>4, <2>6, LoopState DEF Mine
    <3> QED
      BY <2>2, <3>1
  <2> QED
    BY <2>5, <2>6
<1>2. CASE (\A w \in Workers : ~LoopStep(w)) /\ (\A o \in Objects : ~Change(o))
  <2>1. Quiet /\ cache' = cache
    BY <1>2, QuietSteps, HistorySteps
  <2>2. Cached' = Cached /\ Given' = Given /\ Saving' = Saving /\ Ran' = Ran
    BY <2>1, QuietState, LoopState
  <2>3. ASSUME NEW p \in Mine, PendingRun(p) PROVE PendingRun(p)'
    BY <1>2, <2>3, PendingKept DEF LoopStep, Mine
  <2>4. Owed' = Owed \cup (Owed' \ Owed) /\ Owed' \ Owed \in SUBSET Mine
    BY <2>3, LoopState
  <2> QED
    BY <2>2, <2>4 DEF Loop!Next, Loop!Ask
<1>3. ASSUME NEW w \in Workers, NEW o \in Mine, LoopStep(w), Target(w) = o
      PROVE  Loop!Next \/ UNCHANGED <<Cached, Owed, Given, Saving, Ran>>
  <2> DEFINE S == {"trigger", "save", "retry"}
  <2>o. o \in Objects /\ KindOf[o] \in Handled
    BY DEF Mine
  <2>1. Step(w) /\ item' = item /\ pc[w] \in Locking /\ cache' = cache
    BY <1>3 DEF LoopStep, Step, Sync, Handle, Conclude, Locking, GetObject, HandlerReturns,
                HandlerFails, SaveFails, RetryAfter, Goto, informer
  <2>2. /\ Given[o] = IF pc[w] = "handle" THEN {obj[w]} ELSE {}
        /\ Given' = [Given EXCEPT ![o] = IF pc'[w] = "handle" THEN {obj'[w]} ELSE {}]
        /\ o \in Saving <=> pc[w] \in S
        /\ Saving' = IF pc'[w] \in S THEN Saving \cup {o} ELSE Saving \ {o}
    BY <1>3, <2>1, LoopStepState
  <2>3. /\ Owed' = IF PendingRun(o)' THEN Owed \cup {o} ELSE Owed \ {o}
        /\ o \in Owed <=> PendingRun(o)
        /\ HandlerReturns(w) \/ (HandlerFails(w) /\ w \notin failed') => Owed' = Owed
    BY <1>3, LoopStepOwed
  <2>4. Cached' = Cached /\ Cached[o] = cache[o]
    BY <2>1, LoopState
  <2>5. obj[w] \in Value /\ obj'[w] \in Value
    BY DEF TypeOK
  <2>6. Given \in [Mine -> SUBSET Value] /\ Saving \subseteq Mine /\ Owed \subseteq Mine
    <3>1. \A p \in Mine : {obj[x] : x \in Running(p)} \in SUBSET Value
      BY DEF Running, TypeOK
    <3> QED
      BY <3>1, LoopState DEF Mine
  <2>7. CASE GetObject(w)
    <3>1. pc[w] = "get" /\ pc'[w] = "handle" /\ Ran' = Ran
      BY <2>7, <2>o, <1>3, LoopState DEF GetObject, Goto, TypeOK
    <3>2. o \in Owed \ Saving /\ Given[o] = {}
      BY <1>3, <2>2, <2>3, <3>1 DEF PendingRun, BeforeGet, S
    <3>3. Given' = [Given EXCEPT ![o] = {obj'[w]}] /\ Saving' = Saving
      BY <2>2, <3>1, <3>2 DEF S
    <3>4. Owed' = Owed \/ (obj'[w] = Cached[o] /\ Owed' = Owed \ {o})
      <4>1. CASE PendingRun(o)'
        BY <2>3, <3>2, <4>1
      <4>2. CASE ~PendingRun(o)'
        <5>1. Target(w)' = o
          BY <1>3, <2>1 DEF Target
        <5>2. obj'[w] = cache'[o]
          BY <3>1, <4>2, <5>1 DEF RunFresh, PendingRun
        <5> QED
          BY <2>1, <2>3, <2>4, <4>2, <5>2
      <4> QED
        BY <4>1, <4>2
    <3>5. Loop!Begin(o)
      BY <2>4, <2>5, <3>1, <3>2, <3>3, <3>4 DEF Loop!Begin
    <3> QED
      BY <3>5 DEF Loop!Next
  <2>8. CASE HandlerReturns(w) \/ (HandlerFails(w) /\ w \notin failed')
    <3>1. pc[w] = "handle" /\ pc'[w] \in {"trigger", "return"} /\ w \notin failed'
      BY <2>8 DEF HandlerReturns, HandlerFails, Fail, Goto, Return, TypeOK, Shape, WorkerShape
    <3>2. Ran' = [Ran EXCEPT ![o] = obj[w]]
      <4>1. reconciled' = [reconciled EXCEPT ![o] = obj[w]]
        BY <1>3, <2>8 DEF HandlerReturns, HandlerFails
      <4>2. \A p \in Mine : reconciled'[p] = IF p = o THEN obj[w] ELSE reconciled[p]
        BY <2>o, <4>1 DEF TypeOK, Mine
      <4>3. Ran = [p \in Mine |-> reconciled[p]] /\ Ran' = [p \in Mine |-> reconciled'[p]]
        BY LoopState
      <4> QED
        BY <4>2, <4>3
    <3>3. /\ obj[w] \in Given[o] /\ Given' = [Given EXCEPT ![o] = {}]
          /\ Saving' \in {Saving, Saving \cup {o}}
      BY <2>2, <3>1 DEF S
    <3>4. Loop!Return(o)
      BY <2>3, <2>4, <2>8, <3>2, <3>3 DEF Loop!Return
    <3> QED
      BY <3>4 DEF Loop!Next
  <2>9. CASE HandlerFails(w) /\ w \in failed'
    <3>1. pc[w] = "handle" /\ pc'[w] = "return" /\ Ran' = Ran
      <4>1. pc[w] = "handle" /\ reconciled' = reconciled /\ w \notin failed
        BY <2>9 DEF HandlerFails, Shape, WorkerShape
      <4>2. pc'[w] = "return"
        BY <2>9, <4>1 DEF HandlerFails, Fail, Goto, Return, TypeOK
      <4> QED
        BY <4>1, <4>2, LoopState
    <3>2. PendingRun(o)'
      BY <1>3, <2>1, <2>9, <3>1 DEF PendingRun, WillRequeue, Target
    <3>3. Given[o] # {} /\ Given' = [Given EXCEPT ![o] = {}] /\ Saving' = Saving
      BY <2>2, <3>1 DEF S
    <3>4. Loop!Fail(o)
      BY <2>3, <2>4, <3>1, <3>2, <3>3 DEF Loop!Fail
    <3> QED
      BY <3>4 DEF Loop!Next
  <2>10. CASE SaveFails(w) \/ RetryAfter(w)
    <3>1. /\ pc[w] \in {"save", "retry"} /\ pc'[w] \in {"retry", "return"}
          /\ Ran' = Ran
      BY <2>10, LoopState DEF SaveFails, RetryAfter, Fail, Goto, Return, TypeOK, history
    <3>2. PendingRun(o) => PendingRun(o)'
      <4>1. \A x \in Workers : Target(x) = o => ~GetObject(x)
        BY <1>3, <2>1, <3>1 DEF GetObject, Exclusive, OneRunPerObject, Locking
      <4> QED
        BY <2>o, <4>1, PendingKept
    <3>3. Owed' \in {Owed, Owed \cup {o}} /\ o \in Saving /\ Given' = Given
      BY <2>2, <2>3, <2>6, <3>1, <3>2 DEF S
    <3>4. CASE pc'[w] = "return"
      <4>1. Saving' = Saving \ {o}
        BY <2>2, <3>4 DEF S
      <4>2. Loop!Finish(o)
        BY <2>4, <3>1, <3>3, <4>1 DEF Loop!Finish
      <4> QED
        BY <4>2 DEF Loop!Next
    <3>5. CASE pc'[w] = "retry"
      <4>1. Saving' = Saving
        BY <2>2, <3>3, <3>5 DEF S
      <4>2. CASE Owed' = Owed
        BY <2>4, <3>1, <3>3, <4>1, <4>2
      <4>3. CASE Owed' = Owed \cup {o}
        <5>1. Loop!Ask({o})
          BY <2>4, <3>1, <3>3, <4>1, <4>3 DEF Loop!Ask
        <5> QED
          BY <5>1 DEF Loop!Next
      <4> QED
        BY <3>3, <4>2, <4>3
    <3> QED
      BY <3>1, <3>4, <3>5
  <2> QED
    BY <1>3, <2>7, <2>8, <2>9, <2>10 DEF LoopStep
<1> QED
  BY <1>1, <1>2, <1>3 DEF LoopStep

\* The reconcile loop of the handled objects implements ObjectLoop.
THEOREM LoopIsObjectLoop == Spec => ImplementsObjectLoop
<1>1. Init => Loop!Init
  <2> SUFFICES ASSUME Init PROVE Loop!Init
    OBVIOUS
  <2>1. \A o \in Mine : /\ PendingRun(o) <=> cache[o] # NotFound
                       /\ Running(o) = {} /\ Concluding(o) = {}
    BY ValueFacts DEF Init, Mine, PendingRun, WillRequeue, BeforeGet, EmptyQueue, Running,
                      Concluding, Exists, NotFound
  <2>2. cache \in [Objects -> Value]
    BY ConstantsAssumption DEF Init, Value
  <2>3. \A o \in Mine : {obj[w] : w \in Running(o)} = {}
    BY <2>1
  <2> QED
    BY <2>1, <2>2, <2>3 DEF Loop!Init, Init, Cached, Owed, Given, Saving, Ran, Mine
<1>2. ChangeInv /\ ChangeInv' /\ [Next]_vars => [Loop!Next]_(Loop!vars)
  BY LoopRefinement DEF ChangeInv
<1> QED
  BY <1>1, <1>2, ChangeInvariant, PTL DEF Spec, ImplementsObjectLoop, Loop!Spec

=============================================================================
