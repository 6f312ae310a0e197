--------------------------- MODULE Startup_proofs ---------------------------
(***************************************************************************)
(* The locks that starting and watching nest are held by the threads that  *)
(* are in the sections they protect, one at a time, and no router that is  *)
(* up misses an object, for any routers, kinds and failures.               *)
(***************************************************************************)
EXTENDS Startup, TLAPS

WatchPcs == {"watch", "index", "init", "new", "register", "enqueue", "check", "start", "sync"}
StartPcs == {"copy", "wait", "loop", "loopsync", "last"}
KindPcs  == {"index", "init", "new", "register", "enqueue", "check", "start", "sync", "loopsync"}
HoldPcs  == {"new", "sync", "loopsync"}

\* The types.
Types ==
  /\ pc \in [Procs -> Pc]
  /\ todo \in [Procs -> SUBSET Kinds] /\ kind \in [Procs -> SUBSET Kinds]
  /\ errs \subseteq Procs
  /\ watching \in [Routers -> SUBSET Kinds]
  /\ backendStarted \in BOOLEAN /\ cacheRunning \in BOOLEAN
  /\ controllers \subseteq Kinds /\ informers \subseteq Kinds /\ synced \subseteq informers
  /\ registered \subseteq Routers \X Kinds /\ called \subseteq Routers \X Kinds
  /\ healthy \in BOOLEAN
  /\ fails \in 0 .. MaxFails

\* A thread works on one kind at a time, within the sections that are for one.
OneKind ==
  \A p \in Procs : \A j, k \in kind[p] : pc[p] \in KindPcs /\ j = k

\* Who holds a lock is in a section it protects, and is there alone.
Locks ==
  /\ watchingLock \subseteq Routers
  /\ \A p \in Procs : pc[p] \in WatchPcs => p[1] \in watchingLock
  /\ \A r \in watchingLock : pc[Main(r)] \in WatchPcs \/ pc[Handler(r)] \in WatchPcs
  /\ \A r \in Routers : ~ (pc[Main(r)] \in WatchPcs /\ pc[Handler(r)] \in WatchPcs)
  /\ startedLock \subseteq Routers /\ controllerLock \subseteq startedLock
  /\ \A r \in Routers : r \in startedLock <=> pc[Main(r)] \in StartPcs
  /\ \A r \in Routers : r \in controllerLock <=> pc[Main(r)] \in {"loop", "loopsync"}
  /\ \A r, s \in startedLock : r = s
  /\ \A r \in Routers : pc[Handler(r)] \in WatchPcs \cup {"idle", "done"}

\* The startLock of a kind is held by the one thread that makes or starts its controller.
StartLocks ==
  /\ \A p \in Procs : pc[p] \in HoldPcs => kind[p] \subseteq startLock
  /\ \A k \in startLock : \E p \in Procs : pc[p] \in HoldPcs /\ k \in kind[p]
  /\ \A p, q \in Procs :
       pc[p] \in HoldPcs /\ pc[q] \in HoldPcs /\ kind[p] \cap kind[q] # {} => p = q

\* How far the controller of a kind is when a thread works on the kind.
Controllers ==
  /\ broken \subseteq inited /\ started \subseteq inited \ broken
  /\ inited \subseteq controllers \cap informers
  /\ due \subseteq started
  /\ \A p \in Procs : \A k \in kind[p] :
       /\ k \in controllers
       /\ pc[p] = "index" => k \in informers
       /\ pc[p] = "new" => k \in informers \ inited
       /\ pc[p] \in {"register", "enqueue", "check", "start"} => k \in inited
       /\ pc[p] \in {"sync", "loopsync"} => k \in inited \ (broken \cup started)

\* WatchGVK does not work on what is watched already.
Unwatched ==
  \A p \in Procs : pc[p] \in WatchPcs =>
    watching[p[1]] \cap (todo[p] \cup kind[p]) = {} /\ todo[p] \cap kind[p] = {}

\* What is watched and does not run yet is what the next Backend.Start starts, or the
\* one that is under way.
WatchedRuns ==
  /\ \A r \in Routers : watching[r] \subseteq inited
  /\ backendStarted => \A r \in Routers : watching[r] \subseteq started
  /\ \A r, s \in Routers : pc[Main(r)] \in {"wait", "loop", "loopsync", "last"} =>
       watching[s] \subseteq started \cup todo[Main(r)] \cup kind[Main(r)]
  /\ \A r \in Routers : pc[Main(r)] = "last" => todo[Main(r)] = {}
  /\ \A r \in Routers : pc[Main(r)] = "done" => backendStarted

\* A callback that has not been called has an object waiting for it when the
\* controller runs, or is about to have its objects enqueued.
CallsToCome ==
  \A r \in Routers, k \in started :
    <<r, k>> \in registered \ called =>
      k \in due \/ \E p \in {Main(r), Handler(r)} : pc[p] = "enqueue" /\ k \in kind[p]

IInv ==
  /\ Types /\ OneKind /\ Locks /\ StartLocks
  /\ Controllers /\ Unwatched /\ WatchedRuns /\ CallsToCome

---------------------------------------------------------------------------
(* The invariant says what the properties say.                             *)

LEMMA ProcFacts ==
  /\ \A r \in Routers :
       /\ Main(r) \in Procs /\ Handler(r) \in Procs
       /\ Main(r)[1] = r /\ Handler(r)[1] = r /\ Main(r)[2] = "main" /\ Handler(r)[2] = "handler"
  /\ \A r, s \in Routers :
       Main(r) # Handler(s) /\ (r # s => Main(r) # Main(s) /\ Handler(r) # Handler(s))
  /\ \A p \in Procs : p[1] \in Routers /\ p \in {Main(p[1]), Handler(p[1])}
BY DEF Main, Handler, Procs

LEMMA InitInv == ASSUME Init PROVE IInv
<1> USE StartupAssumption, ProcFacts DEF Init
<1>1. Types
  <2>1. "idle" \in Pc /\ 0 \in 0 .. MaxFails
    BY DEF Pc
  <2> QED
    BY <2>1, Zenon DEF Types
<1>2. OneKind /\ Locks /\ StartLocks
  BY DEF OneKind, Locks, StartLocks, WatchPcs, StartPcs, HoldPcs
<1>3. Controllers /\ Unwatched /\ WatchedRuns /\ CallsToCome
  BY DEF Controllers, Unwatched, WatchedRuns, CallsToCome, WatchPcs
<1> QED
  BY <1>1, <1>2, <1>3 DEF IInv

LEMMA InvTypeOK == ASSUME IInv PROVE TypeOK
<1> USE ProcFacts DEF IInv
<1>1. watchingLock = {p[1] : p \in {q \in Procs : pc[q] \in {"watch", "index", "init", "new",
                                          "register", "enqueue", "check", "start", "sync"}}}
  BY DEF Locks, WatchPcs
<1>2. startedLock = {r \in Routers : pc[Main(r)] \in {"copy", "wait", "loop", "loopsync", "last"}}
  BY DEF Locks, StartPcs
<1>3. controllerLock = {r \in Routers : pc[Main(r)] \in {"loop", "loopsync"}}
  BY DEF Locks
<1>4. startLock = UNION {kind[p] : p \in {q \in Procs : pc[q] \in {"new", "sync", "loopsync"}}}
  BY DEF StartLocks, HoldPcs
<1> QED
  BY <1>1, <1>2, <1>3, <1>4 DEF TypeOK, Types, Controllers

LEMMA InvHandlersCalled == ASSUME IInv PROVE HandlersCalled
<1> USE ProcFacts DEF IInv
<1> SUFFICES ASSUME NEW r \in Routers, pc[Main(r)] = "done", NEW k \in watching[r],
                    <<r, k>> \in registered, <<r, k>> \notin called
             PROVE  k \in started \cap due
  BY DEF HandlersCalled
<1>1. k \in started
  BY DEF WatchedRuns
<1>2. \A p \in {Main(r), Handler(r)} : k \in kind[p] => pc[p] # "enqueue"
  BY DEF Unwatched, WatchPcs
<1> QED
  BY <1>1, <1>2 DEF CallsToCome

---------------------------------------------------------------------------
(* The cache and the controllers that run.                                 *)

LEMMA SyncInv == ASSUME IInv, NEW k \in Kinds, Sync(k) PROVE IInv'
<1> USE ProcFacts DEF IInv, Types, Sync, set, backend, factory, shared, calls, threads
<1>1. Types'
  BY DEF Types
<1>2. OneKind'
  BY DEF OneKind
<1>3. Locks'
  BY DEF Locks
<1>4. StartLocks'
  BY DEF StartLocks
<1>5. Controllers'
  BY DEF Controllers
<1>6. Unwatched'
  BY DEF Unwatched
<1>7. WatchedRuns'
  BY DEF WatchedRuns
<1>8. CallsToCome'
  BY DEF CallsToCome
<1> QED
  BY <1>1, <1>2, <1>3, <1>4, <1>5, <1>6, <1>7, <1>8

LEMMA OnChangeInv == ASSUME IInv, NEW k \in Kinds, OnChange(k) PROVE IInv'
<1> USE ProcFacts DEF IInv, Types, OnChange, set, backend, factory, shared, cache, threads
<1>1. Types'
  BY DEF Types
<1>2. OneKind'
  BY DEF OneKind
<1>3. Locks'
  BY DEF Locks
<1>4. StartLocks'
  BY DEF StartLocks
<1>5. Controllers'
  BY DEF Controllers
<1>6. Unwatched'
  BY DEF Unwatched
<1>7. WatchedRuns'
  BY DEF WatchedRuns
<1>8. CallsToCome'
  BY DEF CallsToCome
<1> QED
  BY <1>1, <1>2, <1>3, <1>4, <1>5, <1>6, <1>7, <1>8

---------------------------------------------------------------------------
(* WatchGVK.                                                               *)

LEMMA StartHandlersInv == ASSUME IInv, NEW r \in Routers, StartHandlers(r) PROVE IInv'
<1> USE ProcFacts DEF IInv, Types, StartHandlers, Goto, backend, factory, shared, cache,
        calls
<1>1. Types'
  <2>1. pc' \in [Procs -> Pc]
    BY DEF Pc
  <2>2. todo' \in [Procs -> SUBSET Kinds]
    <3>1. Main(r) \in Procs /\ Handled[r] \ watching[r] \subseteq Kinds
      BY StartupAssumption
    <3> QED
      BY <3>1
  <2> QED
    BY <2>1, <2>2
<1>2. OneKind'
  BY DEF OneKind, KindPcs
<1>3. Locks'
  BY DEF Locks, WatchPcs, StartPcs
<1>4. StartLocks'
  BY DEF StartLocks, HoldPcs
<1>5. Controllers'
  BY DEF Controllers
<1>6. Unwatched'
  <2>1. /\ pc' = [pc EXCEPT ![Main(r)] = "watch"] /\ UNCHANGED <<kind, watching>>
        /\ todo' = [todo EXCEPT ![Main(r)] = Handled[r] \ watching[r]] /\ kind[Main(r)] = {}
    BY DEF OneKind, KindPcs
  <2> QED
    BY <2>1 DEF Unwatched
<1>7. WatchedRuns'
  BY DEF WatchedRuns
<1>8. CallsToCome'
  BY DEF CallsToCome
<1> QED
  BY <1>1, <1>2, <1>3, <1>4, <1>5, <1>6, <1>7, <1>8

LEMMA WatchNeedsInv == ASSUME IInv, NEW r \in Routers, WatchNeeds(r) PROVE IInv'
<1> USE ProcFacts DEF IInv, Types, WatchNeeds, Goto, backend, factory, shared, cache, calls
<1>1. Types'
  BY StartupAssumption DEF Types, Pc
<1>2. OneKind'
  BY DEF OneKind, KindPcs
<1>3. Locks'
  BY DEF Locks, WatchPcs
<1>4. StartLocks'
  BY DEF StartLocks, HoldPcs
<1>5. Controllers'
  BY DEF Controllers
<1>6. Unwatched'
  BY DEF Unwatched, WatchPcs, OneKind, KindPcs
<1>7. WatchedRuns'
  BY DEF WatchedRuns
<1>8. CallsToCome'
  BY DEF CallsToCome
<1> QED
  BY <1>1, <1>2, <1>3, <1>4, <1>5, <1>6, <1>7, <1>8

LEMMA ForKindInv == ASSUME IInv, NEW p \in Procs, NEW k \in Kinds, ForKind(p, k) PROVE IInv'
<1> USE ProcFacts DEF IInv, Types, ForKind, Goto, set, backend, shared, calls
<1>1. Types'
  BY DEF Types, Pc
<1>2. OneKind'
  BY DEF OneKind, KindPcs
<1>3. Locks'
  BY DEF Locks, WatchPcs, StartPcs
<1>4. StartLocks'
  BY DEF StartLocks, HoldPcs
<1>5. Controllers'
  BY DEF Controllers
<1>6. Unwatched'
  BY DEF Unwatched, WatchPcs
<1>7. WatchedRuns'
  BY DEF WatchedRuns
<1>8. CallsToCome'
  BY DEF CallsToCome
<1> QED
  BY <1>1, <1>2, <1>3, <1>4, <1>5, <1>6, <1>7, <1>8

LEMMA AddIndexerInv ==
  ASSUME IInv, NEW p \in Procs, NEW k \in kind[p], AddIndexer(p, k)
  PROVE  IInv'
<1> USE ProcFacts DEF IInv, Types, AddIndexer, Goto, set, backend, factory, shared, cache,
        calls
<1>1. Types'
  BY DEF Types, Pc
<1>2. OneKind'
  BY DEF OneKind, KindPcs
<1>3. Locks'
  BY DEF Locks, WatchPcs, StartPcs
<1>4. StartLocks'
  BY DEF StartLocks, HoldPcs
<1>5. Controllers'
  BY DEF Controllers
<1>6. Unwatched'
  BY DEF Unwatched, WatchPcs
<1>7. WatchedRuns'
  BY DEF WatchedRuns
<1>8. CallsToCome'
  BY DEF CallsToCome
<1> QED
  BY <1>1, <1>2, <1>3, <1>4, <1>5, <1>6, <1>7, <1>8

LEMMA AddIndexerFailsInv ==
  ASSUME IInv, NEW p \in Procs, NEW k \in kind[p], AddIndexerFails(p, k)
  PROVE  IInv'
<1> USE ProcFacts DEF IInv, Types, AddIndexerFails, Failing, Goto, set, backend, factory,
        shared, cache, calls
<1>1. Types'
  BY StartupAssumption DEF Types, Pc
<1>2. OneKind'
  BY DEF OneKind
<1>3. Locks'
  BY DEF Locks, WatchPcs, StartPcs
<1>4. StartLocks'
  BY DEF StartLocks, HoldPcs
<1>5. Controllers'
  BY DEF Controllers
<1>6. Unwatched'
  BY DEF Unwatched, WatchPcs
<1>7. WatchedRuns'
  BY DEF WatchedRuns
<1>8. CallsToCome'
  BY DEF CallsToCome
<1> QED
  BY <1>1, <1>2, <1>3, <1>4, <1>5, <1>6, <1>7, <1>8

LEMMA InitControllerInv ==
  ASSUME IInv, NEW p \in Procs, NEW k \in kind[p], InitController(p, k)
  PROVE  IInv'
<1> USE ProcFacts DEF IInv, Types, InitController, Goto, set, backend, factory, calls
<1>1. Types'
  <2>1. pc' \in [Procs -> Pc]
    BY DEF Pc
  <2>2. informers' \subseteq Kinds /\ synced' \subseteq informers'
    BY DEF OneKind
  <2> QED
    BY <2>1, <2>2
<1>2. OneKind'
  BY DEF OneKind, KindPcs
<1>3. Locks'
  BY DEF Locks, WatchPcs, StartPcs
<1>4. StartLocks'
  BY DEF StartLocks, OneKind, HoldPcs
<1>5. Controllers'
  BY DEF Controllers, OneKind
<1>6. Unwatched'
  BY DEF Unwatched, WatchPcs, KindPcs
<1>7. WatchedRuns'
  BY DEF WatchedRuns
<1>8. CallsToCome'
  BY DEF CallsToCome
<1> QED
  BY <1>1, <1>2, <1>3, <1>4, <1>5, <1>6, <1>7, <1>8

LEMMA NewControllerInv ==
  ASSUME IInv, NEW p \in Procs, NEW k \in kind[p], NewController(p, k)
  PROVE  IInv'
<1> USE ProcFacts DEF IInv, Types, NewController, Goto, set, backend, factory, cache, calls
<1>1. Types'
  BY DEF Types, Pc
<1>2. OneKind'
  BY DEF OneKind, KindPcs
<1>3. Locks'
  BY DEF Locks, WatchPcs, StartPcs
<1>4. StartLocks'
  BY DEF StartLocks, OneKind, HoldPcs
<1>5. Controllers'
  BY DEF Controllers, OneKind, StartLocks, HoldPcs
<1>6. Unwatched'
  BY DEF Unwatched, WatchPcs
<1>7. WatchedRuns'
  BY DEF WatchedRuns
<1>8. CallsToCome'
  BY DEF CallsToCome
<1> QED
  BY <1>1, <1>2, <1>3, <1>4, <1>5, <1>6, <1>7, <1>8

LEMMA NewErrorControllerInv ==
  ASSUME IInv, NEW p \in Procs, NEW k \in kind[p], NewErrorController(p, k)
  PROVE  IInv'
<1> USE ProcFacts DEF IInv, Types, NewErrorController, Failing, Goto, set, backend,
        factory, cache, calls
<1>1. Types'
  BY StartupAssumption DEF Types, Pc
<1>2. OneKind'
  BY DEF OneKind, KindPcs
<1>3. Locks'
  BY DEF Locks, WatchPcs, StartPcs
<1>4. StartLocks'
  BY DEF StartLocks, OneKind, HoldPcs
<1>5. Controllers'
  BY DEF Controllers, OneKind, StartLocks, HoldPcs
<1>6. Unwatched'
  BY DEF Unwatched, WatchPcs
<1>7. WatchedRuns'
  BY DEF WatchedRuns
<1>8. CallsToCome'
  BY DEF CallsToCome
<1> QED
  BY <1>1, <1>2, <1>3, <1>4, <1>5, <1>6, <1>7, <1>8

LEMMA RegisterHandlerInv ==
  ASSUME IInv, NEW p \in Procs, NEW k \in kind[p], RegisterHandler(p, k)
  PROVE  IInv'
<1> USE ProcFacts DEF IInv, Types, RegisterHandler, Goto, set, backend, factory, cache,
        calls
<1>1. Types'
  BY DEF Types, Pc
<1>2. OneKind'
  BY DEF OneKind, KindPcs
<1>3. Locks'
  BY DEF Locks, WatchPcs, StartPcs
<1>4. StartLocks'
  BY DEF StartLocks, HoldPcs
<1>5. Controllers'
  BY DEF Controllers
<1>6. Unwatched'
  BY DEF Unwatched, WatchPcs
<1>7. WatchedRuns'
  BY DEF WatchedRuns
<1>8. CallsToCome'
  BY DEF CallsToCome, OneKind
<1> QED
  BY <1>1, <1>2, <1>3, <1>4, <1>5, <1>6, <1>7, <1>8

LEMMA EnqueueAllInv ==
  ASSUME IInv, NEW p \in Procs, NEW k \in kind[p], EnqueueAll(p, k)
  PROVE  IInv'
<1> USE ProcFacts DEF IInv, Types, EnqueueAll, Goto, set, backend, factory, shared, cache
<1>1. Types'
  BY DEF Types, Pc
<1>2. OneKind'
  BY DEF OneKind, KindPcs
<1>3. Locks'
  BY DEF Locks, WatchPcs, StartPcs
<1>4. StartLocks'
  BY DEF StartLocks, HoldPcs
<1>5. Controllers'
  BY DEF Controllers
<1>6. Unwatched'
  BY DEF Unwatched, WatchPcs
<1>7. WatchedRuns'
  BY DEF WatchedRuns
<1>8. CallsToCome'
  BY DEF CallsToCome, OneKind
<1> QED
  BY <1>1, <1>2, <1>3, <1>4, <1>5, <1>6, <1>7, <1>8

LEMMA ListFailsInv ==
  ASSUME IInv, NEW p \in Procs, NEW k \in kind[p], ListFails(p, k)
  PROVE  IInv'
<1> USE ProcFacts DEF IInv, Types, ListFails, Failing, Goto, set, backend, factory, cache,
        calls
<1>1. Types'
  BY StartupAssumption DEF Types, Pc
<1>2. OneKind'
  BY DEF OneKind, KindPcs
<1>3. Locks'
  BY DEF Locks, WatchPcs, StartPcs
<1>4. StartLocks'
  BY DEF StartLocks, HoldPcs
<1>5. Controllers'
  BY DEF Controllers
<1>6. Unwatched'
  BY DEF Unwatched, WatchPcs
<1>7. WatchedRuns'
  BY DEF WatchedRuns
<1>8. CallsToCome'
  BY DEF CallsToCome, OneKind
<1> QED
  BY <1>1, <1>2, <1>3, <1>4, <1>5, <1>6, <1>7, <1>8

\* A kind that becomes watched is not waiting to be watched by any thread.
LEMMA WatchedUnwatched ==
  ASSUME IInv, NEW p \in Procs, pc[p] \in WatchPcs, NEW k \in kind[p], Watched(p, k), UNCHANGED todo
  PROVE  Unwatched'
<1> USE ProcFacts DEF IInv, Types, Watched, Goto
<1> SUFFICES ASSUME NEW q \in Procs, pc'[q] \in WatchPcs
             PROVE  /\ watching'[q[1]] \cap (todo[q] \cup kind'[q]) = {}
                    /\ todo[q] \cap kind'[q] = {}
  BY DEF Unwatched
<1>1. CASE q = p
  BY <1>1 DEF Unwatched
<1>2. CASE q # p
  <2>3. pc[q] \in WatchPcs
    BY <1>2
  <2>1. q[1] # p[1]
    <3> SUFFICES ASSUME q[1] = p[1] PROVE FALSE
      OBVIOUS
    <3>1. \/ p = Main(p[1]) /\ q = Handler(p[1])
          \/ q = Main(p[1]) /\ p = Handler(p[1])
      BY <1>2
    <3>2. pc[Main(p[1])] \in WatchPcs /\ pc[Handler(p[1])] \in WatchPcs
      BY <2>3, <3>1
    <3> QED
      BY <3>2 DEF Locks
  <2>2. watching'[q[1]] = watching[q[1]] /\ kind'[q] = kind[q]
    BY <1>2, <2>1
  <2> QED
    BY <2>3, <2>1, <2>2 DEF Unwatched
<1> QED
  BY <1>1, <1>2

LEMMA HasStartedInv ==
  ASSUME IInv, NEW p \in Procs, NEW k \in kind[p], HasStarted(p, k)
  PROVE  IInv'
<1> USE ProcFacts DEF IInv, Types, HasStarted, Watched, Goto, backend, factory, shared,
        cache, calls
<1>1. Types'
  BY DEF Types, Pc
<1>2. OneKind'
  BY DEF OneKind, KindPcs
<1>3. Locks'
  BY DEF Locks, WatchPcs, StartPcs
<1>4. StartLocks'
  BY DEF StartLocks, HoldPcs
<1>5. Controllers'
  BY DEF Controllers
<1>6. Unwatched'
  <2>1. CASE Watched(p, k)
    BY <2>1, WatchedUnwatched DEF WatchPcs
  <2>2. CASE UNCHANGED watching
    BY <2>2 DEF Unwatched, WatchPcs, Watched
  <2> QED
    BY <2>1, <2>2
<1>7. WatchedRuns'
  BY DEF WatchedRuns, Locks, StartPcs, Controllers
<1>8. CallsToCome'
  BY DEF CallsToCome
<1> QED
  BY <1>1, <1>2, <1>3, <1>4, <1>5, <1>6, <1>7, <1>8

LEMMA StartKindInv ==
  ASSUME IInv, NEW p \in Procs, NEW k \in kind[p], StartKind(p, k)
  PROVE  IInv'
<1> USE ProcFacts DEF IInv, Types, StartKind, Watched, Goto, backend, factory, cache, calls
<1>1. Types'
  <2>1. pc' \in [Procs -> Pc]
    BY DEF Pc, Watched
  <2>2. watching' \in [Routers -> SUBSET Kinds] /\ kind' \in [Procs -> SUBSET Kinds]
    BY DEF Watched
  <2>3. errs' \subseteq Procs
    BY DEF Watched
  <2> QED
    BY <2>1, <2>2, <2>3
<1>2. OneKind'
  BY DEF OneKind, KindPcs
<1>3. Locks'
  BY DEF Locks, WatchPcs, StartPcs
<1>4. StartLocks'
  <2>1. CASE k \in started \cup broken
    BY <2>1 DEF StartLocks, OneKind, HoldPcs, KindPcs, Watched
  <2>2. CASE k \notin started \cup broken
    <3>1. /\ pc' = [pc EXCEPT ![p] = "sync"] /\ UNCHANGED kind
          /\ startLock' = startLock \cup {k} /\ k \notin startLock /\ kind[p] = {k}
      BY <2>2 DEF OneKind
    <3> QED
      BY <3>1 DEF StartLocks, HoldPcs
  <2> QED
    BY <2>1, <2>2
<1>5. Controllers'
  BY DEF Controllers, OneKind
<1>6. Unwatched'
  <2>1. CASE Watched(p, k)
    BY <2>1, WatchedUnwatched DEF WatchPcs
  <2>2. CASE UNCHANGED watching
    BY <2>2 DEF Unwatched, WatchPcs, Watched
  <2> QED
    BY <2>1, <2>2
<1>7. WatchedRuns'
  <2>1. CASE UNCHANGED <<watching, kind>>
    BY <2>1 DEF WatchedRuns
  <2>2. CASE pc[p] = "start" /\ Watched(p, k) /\ k \in started
    BY <2>2 DEF WatchedRuns, Controllers
  <2>3. CASE pc[p] = "start" /\ UNCHANGED watching /\ kind' = [kind EXCEPT ![p] = {}]
             /\ Goto(p, "watch")
    BY <2>3 DEF WatchedRuns
  <2> QED
    BY <2>1, <2>2, <2>3
<1>8. CallsToCome'
  BY DEF CallsToCome
<1> QED
  BY <1>1, <1>2, <1>3, <1>4, <1>5, <1>6, <1>7, <1>8

LEMMA KindStartedInv ==
  ASSUME IInv, NEW p \in Procs, NEW k \in kind[p], KindStarted(p, k)
  PROVE  IInv'
<1> USE ProcFacts DEF IInv, Types, KindStarted, Watched, Goto, backend, factory, cache
<1>1. Types'
  BY DEF Types, Pc
<1>2. OneKind'
  BY DEF OneKind
<1>3. Locks'
  BY DEF Locks, WatchPcs, StartPcs
<1>4. StartLocks'
  BY DEF StartLocks, OneKind, HoldPcs
<1>5. Controllers'
  BY DEF Controllers, StartLocks, HoldPcs
<1>6. Unwatched'
  BY WatchedUnwatched DEF WatchPcs
<1>7. WatchedRuns'
  BY DEF WatchedRuns, Controllers
<1>8. CallsToCome'
  BY DEF CallsToCome
<1> QED
  BY <1>1, <1>2, <1>3, <1>4, <1>5, <1>6, <1>7, <1>8

LEMMA WatchReturnsInv == ASSUME IInv, NEW p \in Procs, WatchReturns(p) PROVE IInv'
<1> USE ProcFacts DEF IInv, Types, WatchReturns, Goto, backend, factory, shared, cache,
        calls
<1>1. Types'
  <2>1. pc' \in [Procs -> Pc]
    BY DEF Pc
  <2>2. errs' \subseteq Procs /\ healthy' \in BOOLEAN
    OBVIOUS
  <2> QED
    BY <2>1, <2>2
<1>2. OneKind'
  BY DEF OneKind, KindPcs
<1>3. Locks'
  BY DEF Locks, WatchPcs, StartPcs
<1>4. StartLocks'
  BY DEF StartLocks, OneKind, HoldPcs
<1>5. Controllers'
  BY DEF Controllers
<1>6. Unwatched'
  BY DEF Unwatched, WatchPcs
<1>7. WatchedRuns'
  BY DEF WatchedRuns
<1>8. CallsToCome'
  BY DEF CallsToCome
<1> QED
  BY <1>1, <1>2, <1>3, <1>4, <1>5, <1>6, <1>7, <1>8

---------------------------------------------------------------------------
(* Backend.Start.                                                          *)

LEMMA LockStartedInv == ASSUME IInv, NEW r \in Routers, LockStarted(r) PROVE IInv'
<1> USE ProcFacts DEF IInv, Types, LockStarted, Goto, set, factory, shared, cache, calls
<1>1. Types'
  BY DEF Types, Pc
<1>2. OneKind'
  BY DEF OneKind, KindPcs
<1>3. Locks'
  BY DEF Locks, WatchPcs, StartPcs
<1>4. StartLocks'
  BY DEF StartLocks, HoldPcs
<1>5. Controllers'
  BY DEF Controllers
<1>6. Unwatched'
  BY DEF Unwatched, WatchPcs
<1>7. WatchedRuns'
  BY DEF WatchedRuns
<1>8. CallsToCome'
  BY DEF CallsToCome
<1> QED
  BY <1>1, <1>2, <1>3, <1>4, <1>5, <1>6, <1>7, <1>8

LEMMA CopyInv == ASSUME IInv, NEW r \in Routers, Copy(r) PROVE IInv'
<1> USE ProcFacts DEF IInv, Types, Copy, Goto, set, backend, factory, shared, calls
<1>1. Types'
  BY DEF Types, Pc
<1>2. OneKind'
  BY DEF OneKind, KindPcs
<1>3. Locks'
  BY DEF Locks, WatchPcs, StartPcs
<1>4. StartLocks'
  BY DEF StartLocks, HoldPcs
<1>5. Controllers'
  BY DEF Controllers
<1>6. Unwatched'
  BY DEF Unwatched, WatchPcs
<1>7. WatchedRuns'
  BY DEF WatchedRuns, Controllers
<1>8. CallsToCome'
  BY DEF CallsToCome
<1> QED
  BY <1>1, <1>2, <1>3, <1>4, <1>5, <1>6, <1>7, <1>8

LEMMA CacheSyncedInv == ASSUME IInv, NEW r \in Routers, CacheSynced(r) PROVE IInv'
<1> USE ProcFacts DEF IInv, Types, CacheSynced, Goto, set, backend, shared, cache, calls
<1>1. Types'
  BY DEF Types, Pc
<1>2. OneKind'
  BY DEF OneKind, KindPcs
<1>3. Locks'
  BY DEF Locks, WatchPcs, StartPcs
<1>4. StartLocks'
  BY DEF StartLocks, HoldPcs
<1>5. Controllers'
  BY DEF Controllers
<1>6. Unwatched'
  BY DEF Unwatched, WatchPcs
<1>7. WatchedRuns'
  BY DEF WatchedRuns
<1>8. CallsToCome'
  BY DEF CallsToCome
<1> QED
  BY <1>1, <1>2, <1>3, <1>4, <1>5, <1>6, <1>7, <1>8

LEMMA FactoryStartedInv == ASSUME IInv, NEW r \in Routers, FactoryStarted(r) PROVE IInv'
<1> USE ProcFacts DEF IInv, Types, FactoryStarted, Goto, set, backend, shared, cache, calls
<1>1. Types'
  BY DEF Types, Pc
<1>2. OneKind'
  BY DEF OneKind, KindPcs
<1>3. Locks'
  BY DEF Locks, WatchPcs, StartPcs
<1>4. StartLocks'
  BY DEF StartLocks, HoldPcs
<1>5. Controllers'
  BY DEF Controllers
<1>6. Unwatched'
  BY DEF Unwatched, WatchPcs
<1>7. WatchedRuns'
  BY DEF WatchedRuns
<1>8. CallsToCome'
  BY DEF CallsToCome
<1> QED
  BY <1>1, <1>2, <1>3, <1>4, <1>5, <1>6, <1>7, <1>8

LEMMA BackendStartedInv == ASSUME IInv, NEW r \in Routers, BackendStarted(r) PROVE IInv'
<1> USE ProcFacts DEF IInv, Types, BackendStarted, Return, Goto, set, shared, cache, calls
<1>1. Types'
  BY DEF Types, Pc
<1>2. OneKind'
  BY DEF OneKind
<1>3. Locks'
  BY DEF Locks, WatchPcs, StartPcs
<1>4. StartLocks'
  BY DEF StartLocks, HoldPcs
<1>5. Controllers'
  BY DEF Controllers
<1>6. Unwatched'
  BY DEF Unwatched, WatchPcs
<1>7. WatchedRuns'
  BY DEF WatchedRuns, OneKind, KindPcs, Locks
<1>8. CallsToCome'
  BY DEF CallsToCome
<1> QED
  BY <1>1, <1>2, <1>3, <1>4, <1>5, <1>6, <1>7, <1>8

LEMMA StartControllerInv ==
  ASSUME IInv, NEW r \in Routers, NEW k \in Kinds, StartController(r, k)
  PROVE  IInv'
<1> USE ProcFacts DEF IInv, Types, StartController, Return, Goto, set, cache, calls
<1>1. Types'
  <2>1. pc' \in [Procs -> Pc]
    BY DEF Pc
  <2>2. kind' \in [Procs -> SUBSET Kinds] /\ todo' \in [Procs -> SUBSET Kinds]
    OBVIOUS
  <2>3. healthy' \in BOOLEAN
    OBVIOUS
  <2> QED
    BY <2>1, <2>2, <2>3
<1>2. OneKind'
  BY DEF OneKind, KindPcs
<1>3. Locks'
  BY DEF Locks, WatchPcs, StartPcs
<1>4. StartLocks'
  BY DEF StartLocks, HoldPcs
<1>5. Controllers'
  BY DEF Controllers
<1>6. Unwatched'
  BY DEF Unwatched, WatchPcs
<1>7. WatchedRuns'
  BY DEF WatchedRuns, OneKind, KindPcs, StartPcs
<1>8. CallsToCome'
  BY DEF CallsToCome
<1> QED
  BY <1>1, <1>2, <1>3, <1>4, <1>5, <1>6, <1>7, <1>8

LEMMA ControllerStartedInv ==
  ASSUME IInv, NEW r \in Routers, NEW k \in kind[Main(r)], ControllerStarted(r, k)
  PROVE  IInv'
<1> USE ProcFacts DEF IInv, Types, ControllerStarted, Goto, set, backend, factory, cache
<1>1. Types'
  BY DEF Types, Pc
<1>2. OneKind'
  BY DEF OneKind
<1>3. Locks'
  BY DEF Locks, WatchPcs, StartPcs
<1>4. StartLocks'
  BY DEF StartLocks, OneKind, HoldPcs
<1>5. Controllers'
  BY DEF Controllers, StartLocks, HoldPcs
<1>6. Unwatched'
  BY DEF Unwatched, WatchPcs
<1>7. WatchedRuns'
  BY DEF WatchedRuns, OneKind
<1>8. CallsToCome'
  BY DEF CallsToCome
<1> QED
  BY <1>1, <1>2, <1>3, <1>4, <1>5, <1>6, <1>7, <1>8

LEMMA ControllerFailsInv ==
  ASSUME IInv, NEW r \in Routers, NEW k \in kind[Main(r)], ControllerFails(r, k)
  PROVE  IInv'
<1> USE ProcFacts DEF IInv, Types, ControllerFails, Return, Failing, Goto, set, cache, calls
<1>1. Types'
  BY StartupAssumption DEF Types, Pc
<1>2. OneKind'
  BY DEF OneKind
<1>3. Locks'
  BY DEF Locks, WatchPcs, StartPcs
<1>4. StartLocks'
  BY DEF StartLocks, OneKind, HoldPcs
<1>5. Controllers'
  BY DEF Controllers
<1>6. Unwatched'
  BY DEF Unwatched, WatchPcs
<1>7. WatchedRuns'
  BY DEF WatchedRuns
<1>8. CallsToCome'
  BY DEF CallsToCome
<1> QED
  BY <1>1, <1>2, <1>3, <1>4, <1>5, <1>6, <1>7, <1>8

---------------------------------------------------------------------------
(* The theorems.                                                           *)

LEMMA StutterInv == ASSUME IInv, UNCHANGED vars PROVE IInv'
<1> USE DEF vars, threads, set, backend, factory, shared, cache, calls
<1>1. Types' /\ OneKind' /\ Locks' /\ StartLocks'
  BY DEF IInv, Types, OneKind, Locks, StartLocks
<1>2. Controllers' /\ Unwatched' /\ WatchedRuns' /\ CallsToCome'
  BY DEF IInv, Controllers, Unwatched, WatchedRuns, CallsToCome
<1> QED
  BY <1>1, <1>2 DEF IInv

LEMMA WatchStepInv == ASSUME IInv, NEW p \in Procs, WatchStep(p) PROVE IInv'
BY ForKindInv, AddIndexerInv, AddIndexerFailsInv, InitControllerInv, NewControllerInv,
   NewErrorControllerInv, RegisterHandlerInv, EnqueueAllInv, ListFailsInv, HasStartedInv,
   StartKindInv, KindStartedInv, WatchReturnsInv DEF WatchStep

LEMMA StartStepInv == ASSUME IInv, NEW r \in Routers, StartStep(r) PROVE IInv'
BY LockStartedInv, CopyInv, CacheSyncedInv, StartControllerInv, ControllerStartedInv,
   ControllerFailsInv, FactoryStartedInv, BackendStartedInv DEF StartStep

LEMMA StepInv == ASSUME IInv, [Next]_vars PROVE IInv'
BY SyncInv, OnChangeInv, StartHandlersInv, WatchNeedsInv, StartStepInv, WatchStepInv, StutterInv
   DEF Next

\* The locks that routers nest when they start and watch kinds (watchingLock,
\* startedLock, controllerLock, startLock) are held by the threads in the sections they
\* protect; controllers are registered, initialised and started in this order.
THEOREM LocksAreHeld == Spec => []TypeOK
<1>1. Init => IInv
  BY InitInv
<1>2. IInv /\ [Next]_vars => IInv'
  BY StepInv
<1>3. IInv => TypeOK
  BY InvTypeOK
<1> QED
  BY <1>1, <1>2, <1>3, PTL DEF Spec

\* A router's kinds are watched by one thread at a time, one router at a time is in
\* Backend.Start, and of each kind one thread makes or starts the controller.
Exclusion ==
  /\ \A r \in Routers : ~ (pc[Main(r)] \in WatchPcs /\ pc[Handler(r)] \in WatchPcs)
  /\ \A r, s \in Routers :
       pc[Main(r)] \in StartPcs /\ pc[Main(s)] \in StartPcs => r = s
  /\ \A p, q \in Procs :
       pc[p] \in HoldPcs /\ pc[q] \in HoldPcs /\ kind[p] \cap kind[q] # {} => p = q

\* The locks exclude: no two threads are in sections that the same lock protects.
THEOREM OneAtATime == Spec => []Exclusion
<1>1. Init => IInv
  BY InitInv
<1>2. IInv /\ [Next]_vars => IInv'
  BY StepInv
<1>3. IInv => Exclusion
  BY DEF IInv, Locks, StartLocks, Exclusion
<1> QED
  BY <1>1, <1>2, <1>3, PTL DEF Spec

\* Once its router is up, a callback that is registered for a watched kind has been
\* called, or the controller of the kind runs and has an object for it.
THEOREM NobodyMissesAnObject == Spec => []HandlersCalled
<1>1. Init => IInv
  BY InitInv
<1>2. IInv /\ [Next]_vars => IInv'
  BY StepInv
<1>3. IInv => HandlersCalled
  BY InvHandlersCalled
<1> QED
  BY <1>1, <1>2, <1>3, PTL DEF Spec
=============================================================================
