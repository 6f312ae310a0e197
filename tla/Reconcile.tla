----------------------------- MODULE Reconcile -----------------------------
(***************************************************************************)
(* One run of the handlers of an object, in detail: HandlerSet.handle, the *)
(* filters RouteBuilder.Handler puts around a route, handlers.Handle, the  *)
(* response, conditions.ErrorMiddleware, the ErrorHandler, and save.       *)
(* HandlerSet.tla is about which runs there are, and Apply.tla about how   *)
(* objects are applied; here applying is one step that makes the objects   *)
(* of the owner what is wanted, prunes the others unless told not to, or   *)
(* fails halfway.                                                          *)
(*                                                                         *)
(* The object has a spec (its generation), a label the selectors look at,  *)
(* and a status with the condition "Controller".  Route i makes object i.  *)
(***************************************************************************)
EXTENDS Naturals, Sequences, FiniteSets

CONSTANTS
  Routes,     \* Seq of [removed, finalizing, selector, wrapped, asks, writes : BOOLEAN]:
              \* includeRemove, includeFinalizing, a label selector, ErrorMiddleware,
              \* whether the route ever asks for an object, for the one it is called for,
              \* or for a later run, and whether it ever updates the one it is called for
  Handled,    \* what the ErrorHandler may answer: TRUE for nil, FALSE for the error it
              \* was given; {FALSE} if there is none
  MaxGen,     \* bound: changes of the spec
  MaxFaults   \* bound: runs in which a route or the server fails

Indices == 1 .. Len(Routes)

ASSUME ReconcileAssumption ==
  /\ Routes \in Seq([removed : BOOLEAN, finalizing : BOOLEAN, selector : BOOLEAN,
                     wrapped : BOOLEAN, asks : BOOLEAN, writes : BOOLEAN])
  /\ \E i \in Indices : Routes[i].wrapped
  /\ Handled \in (SUBSET BOOLEAN) \ {{}}
  /\ MaxGen \in Nat \ {0} /\ MaxFaults \in Nat

\* A condition: its status, the route whose error it tells, the generation it is about,
\* and whether its LastTransitionTime is other than the server's.
NoCond == [status |-> "none", by |-> 0, gen |-> 0, fresh |-> FALSE]

Gone == [exists |-> FALSE, deleting |-> FALSE, sel |-> FALSE, gen |-> 0, rv |-> 0,
         cond |-> NoCond]

VARIABLES
  object,    \* the object on the server
  cache,     \* as the informer has it
  recent,    \* as the cached client remembers it, or Gone
  due,       \* its key is on the queue
  children,  \* the owner's objects, by route
  run,       \* the run under way
  last,      \* what the last run that came to its end had found
  faults

vars == <<object, cache, recent, due, children, run, last, faults>>

Idle == [pc |-> "idle", i |-> 0, obj |-> Gone, read |-> Gone, split |-> FALSE,
         stored |-> FALSE, existing |-> NoCond, wanted |-> {}, failed |-> {},
         terminal |-> {}, ok |-> FALSE, hidden |-> FALSE, noPrune |-> FALSE,
         delay |-> FALSE]

NoRun == [by |-> 0, ok |-> FALSE, wanted |-> {}]

\* The object is new, or has the error of a route from an earlier run.
Init ==
  /\ \E i \in {0, CHOOSE i \in Indices : Routes[i].wrapped} :
       object = [exists |-> TRUE, deleting |-> FALSE, sel |-> TRUE, gen |-> 1, rv |-> 1,
                 cond |-> IF i = 0 THEN NoCond
                          ELSE [status |-> "false", by |-> i, gen |-> 1, fresh |-> FALSE]]
  /\ cache = object /\ recent = Gone
  /\ due = TRUE
  /\ children = {}
  /\ run = Idle
  /\ last = NoRun
  /\ faults = 0

\* Something fails; any number of things may in one run.
Fault ==
  IF run.failed # {} \/ run.terminal # {} THEN UNCHANGED faults
  ELSE faults < MaxFaults /\ faults' = faults + 1

---------------------------------------------------------------------------
(* The server and the informer.                                            *)

Loop == <<due, children, run, last>>

ChangeSpec ==
  /\ object.exists /\ object.gen < MaxGen
  /\ object' = [object EXCEPT !.gen = @ + 1, !.rv = @ + 1]
  /\ UNCHANGED <<cache, recent, faults, Loop>>

\* It loses the label, once.
Relabel ==
  /\ object.exists /\ object.sel
  /\ object' = [object EXCEPT !.sel = FALSE, !.rv = @ + 1]
  /\ UNCHANGED <<cache, recent, faults, Loop>>

\* The object is deleted; it stays for a while if it has a finalizer.
Delete ==
  /\ object.exists
  /\ \/ ~object.deleting /\ object' = [object EXCEPT !.deleting = TRUE, !.rv = @ + 1]
     \/ object' = Gone
  /\ UNCHANGED <<cache, recent, faults, Loop>>

\* The informer catches up and its event handler enqueues the key.
Sync ==
  /\ cache # object
  /\ cache' = object
  /\ due' = TRUE
  /\ UNCHANGED <<object, recent, children, run, last, faults>>

\* Mutant: what was remembered is preferred to what is as new.
GetRemembered ==
  IF cache.exists /\ recent.exists /\ cache.rv <= recent.rv THEN recent ELSE cache

\* cacheClient.Get: what was written lately, if the cache is older.  (That it is purged
\* after a while is in CacheClient.tla.)
Get == IF cache.exists /\ recent.exists /\ cache.rv < recent.rv THEN recent ELSE cache

---------------------------------------------------------------------------
(* A run begins: onChange, newRequestResponse.                             *)

Begin ==
  /\ run.pc = "idle" /\ due
  /\ due' = FALSE
  /\ run' = [Idle EXCEPT !.pc = "handle", !.i = 1, !.obj = Get, !.read = Get]
  /\ UNCHANGED <<object, cache, recent, children, last, faults>>

---------------------------------------------------------------------------
(* handlers.Handle: the routes, one after the other.                       *)

\* The filters of RouteBuilder.Handler, from the outermost.
Passes(r, o) ==
  /\ ~r.removed /\ ~r.finalizing => o.exists /\ ~o.deleting   \* IgnoreRemoveHandler
  /\ ~r.removed => o.exists                                   \* IgnoreNilHandler
  /\ r.selector => o.exists /\ o.sel                          \* SelectorFilter

\* What the filters of the next route may look at: the object or, when a route has asked
\* for the object itself, whatever it asked for.
Shown ==
  IF run.split THEN {[run.obj EXCEPT !.deleting = d, !.sel = s] : d, s \in BOOLEAN}
               ELSE {run.obj}

Skip ==
  /\ run.pc = "handle" /\ run.i \in Indices
  /\ \E o \in Shown : ~Passes(Routes[run.i], o)
  /\ run' = [run EXCEPT !.i = @ + 1]
  /\ UNCHANGED <<object, cache, recent, due, children, last, faults>>

\* meta.SetStatusCondition: the time is kept unless the status changes.
SetCondition(c, new) ==
  [new EXCEPT !.fresh = IF c.status = new.status THEN c.fresh ELSE new.fresh]

Condition(status, i) == [status |-> status, by |-> i, gen |-> run.obj.gen, fresh |-> TRUE]

\* Mutant: the condition of before the run is not put back first.
SetBoth(c, existing, new) == SetCondition(c, new)

\* ErrorMiddleware: first what was there before the run, then the new condition.
SetOver(c, existing, new) ==
  SetCondition(IF existing = NoCond THEN c ELSE SetCondition(c, existing), new)

\* resp.Attributes()["_errormiddleware"], when the route has returned.
Existing == IF run.existing = NoCond THEN run.obj.cond ELSE run.existing

\* The route has the middleware, and an object with conditions.
Wrapped == Routes[run.i].wrapped /\ run.obj.exists

Called ==
  /\ run.pc = "handle" /\ run.i \in Indices
  /\ \E o \in Shown : Passes(Routes[run.i], o)

\* _errormiddleware:errored.
Errored == run.terminal # {}

\* The object of the run does not show what its routes have found; it does once more
\* when a wrapped route that follows none with a terminal error returns.
StillHidden == run.hidden /\ (Errored \/ ~Wrapped)

\* The route has returned, after changing the condition to c if it is wrapped; r is the
\* run with what it has done to the response.  If it has asked for the object itself
\* (self), the routes after it get what it asked for and set the condition of that,
\* while handle, whose req is another copy, goes on with the object from before.
\* If the cached client remembers the object, it remembers the very same one.
Returned(r, c, wants, self) ==
  /\ wants \in SUBSET (IF Routes[run.i].asks THEN {run.i} ELSE {})
  /\ self => run.obj.exists /\ Routes[run.i].asks
  /\ run' = [r EXCEPT
       !.i = @ + 1,
       !.wanted = @ \cup wants,
       !.existing = IF Wrapped THEN Existing ELSE @,
       !.obj.cond = IF Wrapped /\ ~run.split THEN c ELSE @,
       !.hidden = @ \/ run.split,
       !.split = @ \/ self]
  /\ recent' = IF run.stored THEN run'.obj ELSE recent
  /\ UNCHANGED <<object, cache, due, children, last>>

\* It returns nil, and may have asked to be called again later.  A wrapped route that
\* comes after one that failed leaves the condition alone.
RouteOk(wants, later, self) ==
  /\ Called /\ (later => Routes[run.i].asks)
  /\ Returned([run EXCEPT !.delay = @ \/ later, !.ok = @ \/ Wrapped,
                          !.hidden = StillHidden],
              IF Errored THEN run.obj.cond
                         ELSE SetOver(run.obj.cond, Existing, Condition("true", 0)),
              wants, self)
  /\ UNCHANGED faults

\* It returns an error.
RouteFails(wants) ==
  /\ Called /\ Fault
  /\ Returned([run EXCEPT !.failed = @ \cup {run.i}], run.obj.cond, wants, FALSE)

\* Mutant: a terminal error does not keep the run from pruning.
TerminalPrunes(wants) ==
  /\ Called /\ Wrapped /\ Fault
  /\ Returned([run EXCEPT !.terminal = @ \cup {run.i}, !.hidden = StillHidden],
              IF Errored THEN run.obj.cond
                         ELSE SetOver(run.obj.cond, Existing, Condition("false", run.i)),
              wants, FALSE)

\* A wrapped route returns ErrTerminal or NotFound: the first such error becomes the
\* condition, and none of them an error of the run.
RouteTerminal(wants) ==
  /\ Called /\ Wrapped /\ Fault
  /\ Returned([run EXCEPT !.terminal = @ \cup {run.i}, !.noPrune = TRUE,
                          !.hidden = StillHidden],
              IF Errored THEN run.obj.cond
                         ELSE SetOver(run.obj.cond, Existing, Condition("false", run.i)),
              wants, FALSE)

\* A route updates the object it was given through the client, before it returns: its
\* spec, only its metadata, or nothing, in which case the server leaves the version and
\* no event follows.  The answer overwrites the object in memory in any case, the
\* condition that an earlier route has set included, and the cached client keeps the
\* pointer.  After an Update that changes something another run follows in any case.
\* (Routes that write an object they have asked for, or write the status themselves, are
\* left out.)
RouteWrites ==
  /\ Called /\ Routes[run.i].writes /\ run.obj.exists /\ ~run.split
  /\ object.exists /\ object.rv = run.obj.rv
  /\ \/ object.gen < MaxGen /\ object' = [object EXCEPT !.gen = @ + 1, !.rv = @ + 1]
     \/ object.sel /\ object' = [object EXCEPT !.sel = FALSE, !.rv = @ + 1]
     \/ object' = object
  /\ run' = [run EXCEPT !.obj = object', !.stored = TRUE,
                        !.hidden = @ \/ run.ok \/ Errored]
  /\ recent' = object'
  /\ UNCHANGED <<cache, due, children, last, faults>>

---------------------------------------------------------------------------
(* handle: the errors, save, and the end of the run.                       *)

Min(S) == CHOOSE x \in S : \A y \in S : x <= y

\* An error that the ErrorHandler has returned, or that there is no ErrorHandler for:
\* the key is put back.
GiveUp ==
  /\ due' = TRUE
  /\ run' = Idle
  /\ UNCHANGED last

\* Otherwise handle goes on to its end, where the ErrorHandler is called with nil.
\* What the run had found is only of interest if save has succeeded, and saw it.
End(saved) ==
  LET told == saved /\ ~run.hidden
  IN /\ due' = (due \/ run.delay)
     /\ run' = Idle
     /\ last' = [by |-> IF told /\ Errored THEN Min(run.terminal) ELSE 0,
                 ok |-> told /\ run.ok,
                 wanted |-> IF saved THEN run.wanted ELSE {}]

\* The routes are through; their errors are one (merr.NewErrors), which the
\* ErrorHandler does not take.
HandleFails ==
  /\ run.pc = "handle" /\ run.i \notin Indices
  /\ run.failed # {} /\ FALSE \in Handled
  /\ GiveUp
  /\ UNCHANGED <<object, cache, recent, children, faults>>

\* The routes are through, and save is called.
Saves ==
  /\ run.pc = "handle" /\ run.i \notin Indices
  /\ run.failed # {} => TRUE \in Handled

\* save has failed.
SaveFails ==
  \/ TRUE \in Handled /\ End(FALSE)
  \/ FALSE \in Handled /\ GiveUp

\* Objects the owner may lose: none if pruning is disabled, or if nothing was asked for
\* but a later run.
Prunes ==
  IF run.noPrune \/ (run.wanted = {} /\ run.delay) THEN {} ELSE children \ run.wanted

\* Mutant: what failed to be applied is not missed.
ApplyHalf ==
  /\ Saves
  /\ \E made \in SUBSET run.wanted : children' = children \cup made
  /\ run' = [run EXCEPT !.pc = "status", !.existing = NoCond, !.noPrune = FALSE,
                        !.split = FALSE, !.stored = FALSE]
  /\ UNCHANGED <<object, cache, recent, due, last, faults>>

\* apply.Apply.  For an object that is gone it is called with no owner, and touches
\* none of the owner's objects.
ApplyObjects ==
  /\ Saves
  /\ children' = IF run.read.exists THEN (children \cup run.wanted) \ Prunes ELSE children
  /\ run' = [run EXCEPT !.pc = "status", !.existing = NoCond, !.noPrune = FALSE,
                        !.split = FALSE, !.stored = FALSE]
  /\ UNCHANGED <<object, cache, recent, due, last, faults>>

ApplyFails ==
  /\ Saves /\ run.read.exists /\ Fault
  /\ \E made \in SUBSET run.wanted, gone \in SUBSET Prunes :
       children' = (children \cup made) \ gone
  /\ SaveFails
  /\ UNCHANGED <<object, cache, recent>>

\* What the status is compared with: the object of before the run or, when the run has
\* written the object, what Get answers now.
Unmodified == IF run.read.gen # run.obj.gen THEN Get ELSE run.read

StatusChanged == run.read.exists /\ run.read.cond # run.obj.cond

StatusKept ==
  /\ run.pc = "status"
  /\ StatusChanged => Unmodified.exists /\ Unmodified.cond = run.obj.cond
  /\ End(TRUE)
  /\ UNCHANGED <<object, cache, recent, children, faults>>

\* Status().Update: the server refuses an object that is not the newest, and leaves the
\* version if it has that status already.
StatusWritten ==
  /\ run.pc = "status" /\ StatusChanged
  /\ Unmodified.exists /\ Unmodified.cond # run.obj.cond
  /\ object.exists /\ object.rv = run.obj.rv
  /\ object' = IF object.cond = run.obj.cond THEN object
               ELSE [object EXCEPT !.cond = [run.obj.cond EXCEPT !.fresh = FALSE], !.rv = @ + 1]
  /\ recent' = object'
  /\ End(TRUE)
  /\ UNCHANGED <<cache, children, faults>>

\* The object is gone from the cache, the write is a conflict, or it fails.
StatusFails ==
  /\ run.pc = "status" /\ StatusChanged
  /\ \/ ~Unmodified.exists /\ UNCHANGED faults
     \/ /\ Unmodified.exists /\ Unmodified.cond # run.obj.cond
        /\ \/ (~object.exists \/ object.rv # run.obj.rv) /\ UNCHANGED faults
           \/ Fault
  /\ SaveFails
  /\ UNCHANGED <<object, cache, recent, children>>

Environment == ChangeSpec \/ Relabel \/ Delete

Step ==
  \/ Begin \/ Skip
  \/ \E wants \in {{}, {run.i}}, later, self \in BOOLEAN : RouteOk(wants, later, self)
  \/ HandleFails \/ ApplyObjects \/ StatusKept \/ StatusWritten \/ StatusFails

Fails ==
  \/ \E wants \in {{}, {run.i}} : RouteFails(wants) \/ RouteTerminal(wants)
  \/ ApplyFails

Next == Environment \/ Sync \/ Step \/ Fails \/ RouteWrites

Spec == Init /\ [][Next]_vars

---------------------------------------------------------------------------
Conditions == [status : {"none", "true", "false"}, by : Indices \cup {0},
               gen : 0 .. MaxGen, fresh : BOOLEAN]

Objects == [exists : BOOLEAN, deleting : BOOLEAN, sel : BOOLEAN, gen : 0 .. MaxGen,
            rv : Nat, cond : Conditions]

Runs == [pc : {"idle", "handle", "status"}, i : 0 .. Len(Routes) + 1,
         obj : Objects, read : Objects, split : BOOLEAN, stored : BOOLEAN,
         existing : Conditions, wanted : SUBSET Indices, failed : SUBSET Indices,
         terminal : SUBSET Indices, ok : BOOLEAN, hidden : BOOLEAN, noPrune : BOOLEAN,
         delay : BOOLEAN]

\* Type correctness, with three facts: the times of conditions on the server are the
\* server's; a run prunes nothing if and only if a route had a terminal error
\* (setter.go:99); and while the cached client remembers what a run wrote, that is the
\* run's own object (cached.go:107).
TypeOK ==
  /\ object \in Objects /\ cache \in Objects /\ recent \in Objects
  /\ ~object.cond.fresh /\ ~cache.cond.fresh
  /\ due \in BOOLEAN /\ children \in SUBSET Indices
  /\ run \in Runs
  /\ run.pc = "handle" => (run.noPrune <=> Errored)
  /\ run.stored => recent = run.obj
  /\ last \in [by : Indices \cup {0}, ok : BOOLEAN, wanted : SUBSET Indices]
  /\ faults \in 0 .. MaxFaults

\* Nothing is left to do.
AtRest == ~due /\ run.pc = "idle" /\ cache = object

\* When all is at rest, the condition on the server tells what came of the object's
\* last run, for its present generation: the error of the first route that had a
\* terminal one, or success.  So an Update by a route that changes something, a pointer
\* the cached client keeps, a conflict, or a comparison with the wrong copy
\* (setter.go, save.go:42-52) may lose it for a while, never for good.  Excepted are
\* errors the ErrorHandler took, runs in which a route returned after one that had
\* replaced the object, and runs in which a route, after another had set the condition,
\* made an Update that changed nothing, unless the condition was set once more: its
\* answer puts the old condition back, save.go:42 sees no change, and no event follows.
ConditionTells ==
  AtRest /\ object.exists /\ (last.ok \/ last.by # 0) =>
    /\ object.cond.status = IF last.by = 0 THEN "true" ELSE "false"
    /\ object.cond.by = last.by
    /\ object.cond.gen = object.gen

\* When all is at rest, the owner's objects include all that its last run asked for,
\* unless that failed and the ErrorHandler took the error (save.go:37, handler.go:329):
\* half an apply is never left alone.
WantedIsThere == AtRest /\ object.exists => last.wanted \subseteq children

\* A route that fails with a terminal error does not lose the object it made in an
\* earlier run, although this run is saved like one that succeeds and the route has
\* asked for nothing (setter.go:99, save.go:34).
FailedKeepsObjects ==
  [][\A i \in children \ children' : i \notin run.terminal]_vars

\* A status that is written has a new LastTransitionTime only if the condition changes
\* its status, however often the routes of the run have set it to and fro
\* (setter.go:89, setter.go:105).  Excepted are runs that were given an object whose
\* status the server never had, which the cached client had kept of a run that wrote it.
TransitionKept ==
  [][StatusWritten /\ run.obj.cond.fresh /\ ~run.read.cond.fresh =>
       object'.cond.status # object.cond.status]_vars
=============================================================================
