----------------------------- MODULE Finalizer -----------------------------
(***************************************************************************)
(* The routes of pkg/router that finalize an object (FinalizerHandler in   *)
(* pkg/router/finalizer.go, behind the filters RouteBuilder.Handler puts   *)
(* around it), run by onChange over the objects that cacheClient answers.  *)
(*                                                                         *)
(* One object, hence one worker at a time: onChange holds the key's lock.  *)
(* The worker runs when the informer tells of a change, when a run failed  *)
(* or asked for a retry (HandlerSet.tla is about that).  req.Object is obj;*)
(* the copy a finalizing handler works with is new.                        *)
(***************************************************************************)
EXTENDS CacheClient

CONSTANTS
  Routes,     \* sequence of [finalizer: Ours, selector: BOOLEAN]
  Starts,     \* what the object may be when the process starts
  Refresh     \* TRUE in Refresh: handlers may read their object again

ASSUME FinalizerAssumption ==
  /\ Routes \in Seq([finalizer: Ours, selector: BOOLEAN])
  /\ Starts \subseteq Object
  /\ Refresh \subseteq BOOLEAN

VARIABLES
  due,        \* the key is on the queue, now or later
  pc,         \* what the worker does next
  route,      \* index of the route that handles the object
  obj,        \* req.Object
  new,        \* newObj
  delay,      \* the handler asked for a RetryAfter
  returned,   \* the handler returned its object with resp.Objects
  again,      \* an error or a RetryAfter of the run
  cleaned     \* history: <<uid, finalizer>> of handlers that succeeded

worker == <<due, pc, route, obj, new, delay, returned, again, cleaned>>
vars   == <<client, worker>>

Init ==
  /\ server \in Starts /\ ~Gone(server)
  /\ version = server.rev /\ informer = server
  /\ recent = {} /\ pending = {} /\ alias = "none" /\ inputs = 0
  /\ due = TRUE /\ pc = "idle" /\ route = 1
  /\ obj = NotFound /\ new = NotFound
  /\ delay = FALSE /\ returned = FALSE /\ again = FALSE
  /\ cleaned = {}

---------------------------------------------------------------------------
(* onChange up to the handlers.                                            *)

\* The informer's event puts the key on the queue.
Event ==
  /\ Sync
  /\ due' = TRUE
  /\ UNCHANGED <<pc, route, obj, new, delay, returned, again, cleaned>>

\* syncHandler: a plain key comes with the object, a special one without.
Take ==
  /\ pc = "idle" /\ due
  /\ due' = FALSE
  /\ obj' \in {informer, NotFound}
  /\ pc' = "get"
  /\ UNCHANGED <<client, route, new, delay, returned, again, cleaned>>

\* backend.Get, first the informer cache; NotFound keeps the parameter.
GetCached ==
  /\ pc = "get"
  /\ obj' = IF Exists(informer) THEN informer ELSE obj
  /\ pc' = IF Exists(informer) THEN "recent" ELSE "handle"
  /\ UNCHANGED <<client, due, route, new, delay, returned, again, cleaned>>

\* Then what this process remembers.
GetRecent ==
  /\ pc = "recent"
  /\ obj' = Found(obj)
  /\ pc' = "handle"
  /\ UNCHANGED <<client, due, route, new, delay, returned, again, cleaned>>

---------------------------------------------------------------------------
(* FinalizerHandler.Handle, one route after the other.                     *)

finalizer == Routes[route].finalizer

\* SelectorFilter is around the FinalizerHandler.
Selected == Exists(obj) /\ (Routes[route].selector => obj.label)

\* The route is done; errors and delays of routes add up.
NextRoute(failed) ==
  /\ pc' = "handle"
  /\ route' = route + 1
  /\ new' = NotFound
  /\ delay' = FALSE
  /\ returned' = FALSE
  /\ again' = (again \/ failed)

Handling == pc = "handle" /\ route <= Len(Routes)
Turn     == obj.finalizers # <<>> /\ Head(obj.finalizers) = finalizer

\* Not selected, finalizer there already, or not our turn.
Skip ==
  /\ Handling
  /\ \/ ~Selected
     \/ Selected /\ ~obj.deleting /\ Contains(obj.finalizers, finalizer)
     \/ Selected /\ obj.deleting /\ ~Turn
  /\ NextRoute(FALSE)
  /\ UNCHANGED <<client, due, obj, cleaned>>

\* Set in place, whether Update succeeds or not.
AddFinalizer(ok) ==
  LET o == [obj EXCEPT !.finalizers = Append(@, finalizer)] IN
  /\ Handling /\ Selected /\ ~obj.deleting /\ ~Contains(obj.finalizers, finalizer)
  /\ Call(o, o, ok)
  /\ obj' = IF ok THEN Answer(o) ELSE o
  /\ recent' = IF ok \/ alias = "obj" THEN {obj'} ELSE recent
  /\ alias' = IF ok THEN "obj" ELSE alias
  /\ NextRoute(~ok)
  /\ UNCHANGED <<informer, pending, due, cleaned>>

\* Next.Handle with a copy of the object, which it may read again.
Handle ==
  /\ Handling /\ Selected /\ obj.deleting /\ Turn
  /\ \E refresh \in Refresh : new' = IF refresh THEN Found(informer) ELSE obj
  /\ pc' = "status"
  /\ \/ delay' = FALSE /\ cleaned' = cleaned \cup {<<obj.uid, finalizer>>} /\ UNCHANGED inputs
     \/ delay' = TRUE /\ Input /\ UNCHANGED cleaned
  /\ returned' \in BOOLEAN
  /\ again' = (again \/ delay')
  /\ UNCHANGED <<server, version, informer, recent, pending, alias, due, route, obj>>

HandleFails ==
  /\ Handling /\ Selected /\ obj.deleting /\ Turn
  /\ Input
  /\ NextRoute(TRUE)
  /\ UNCHANGED <<server, version, informer, recent, pending, alias, due, obj, cleaned>>

\* The handler has not changed the status.
StatusUnchanged ==
  /\ pc = "status"
  /\ pc' = "remove"
  /\ UNCHANGED <<client, due, route, obj, new, delay, returned, again, cleaned>>

\* The handler's object o is that of the routes that follow if it returned it;
\* where it was the remembered object it still is.
Return(o) ==
  /\ obj' = IF returned THEN o ELSE obj
  /\ recent' = IF alias = "new" THEN {o} ELSE recent
  /\ alias' = IF returned THEN IF alias = "new" THEN "obj" ELSE "none"
              ELSE IF alias = "new" THEN "none" ELSE alias

\* Of some kinds a write of the status also takes the finalizers, of others not.
UpdateStatus(ok) ==
  /\ pc = "status"
  /\ \E o \in {server, new} :
       /\ Call(new, o, ok)
       /\ \/ /\ ok
             /\ new' = Answer(o)
             /\ recent' = {new'} /\ alias' = "new"
             /\ pc' = "remove"
             /\ UNCHANGED <<route, obj, delay, returned, again>>
          \/ /\ ~ok
             /\ Return(new)
             /\ NextRoute(TRUE)
  /\ UNCHANGED <<informer, pending, due, cleaned>>

\* Mutant: the finalizer is removed although the handler asked for a retry.
RemovesAnyway == new.finalizers # <<>> /\ Head(new.finalizers) = finalizer
Removes == ~delay /\ new.finalizers # <<>> /\ Head(new.finalizers) = finalizer

Keep ==
  /\ pc = "remove" /\ ~Removes
  /\ Return(new)
  /\ NextRoute(FALSE)
  /\ UNCHANGED <<server, version, informer, pending, inputs, due, cleaned>>

\* Mutant: every finalizer is removed.
RemoveAll(ok) ==
  LET o == [new EXCEPT !.finalizers = <<>>] IN
  /\ pc = "remove" /\ Removes
  /\ Call(o, o, ok)
  /\ Return(o)
  /\ NextRoute(~ok)
  /\ UNCHANGED <<informer, pending, due, cleaned>>

\* The rest of the finalizers is that of the object the handler was called with.
RemoveFinalizer(ok) ==
  LET o == [new EXCEPT !.finalizers = Tail(obj.finalizers)] IN
  /\ pc = "remove" /\ Removes
  /\ Call(o, o, ok)
  /\ \/ ok /\ obj' = Answer(o) /\ recent' = {obj'} /\ alias' = "obj"
     \/ ~ok /\ Return(o)
  /\ NextRoute(~ok)
  /\ UNCHANGED <<informer, pending, due, cleaned>>

\* Mutant: errors and delays are forgotten.
DoneAnyway ==
  /\ pc = "handle" /\ route > Len(Routes)
  /\ pc' = "idle" /\ route' = 1
  /\ obj' = NotFound
  /\ alias' = "none"
  /\ again' = FALSE
  /\ UNCHANGED <<due, server, version, informer, recent, pending, inputs, new, delay,
                 returned, cleaned>>

\* All routes are done; an error or a delay puts the key back.  save writes no
\* status: these routes change only that of their copy.
Done ==
  /\ pc = "handle" /\ route > Len(Routes)
  /\ pc' = "idle" /\ route' = 1
  /\ obj' = NotFound
  /\ alias' = "none"
  /\ due' = (due \/ again)
  /\ again' = FALSE
  /\ UNCHANGED <<server, version, informer, recent, pending, inputs, new, delay, returned, cleaned>>

---------------------------------------------------------------------------
Step ==
  \/ Take \/ GetCached \/ GetRecent
  \/ Skip \/ Handle \/ HandleFails \/ StatusUnchanged \/ Keep \/ Done
  \/ \E ok \in BOOLEAN : AddFinalizer(ok) \/ UpdateStatus(ok) \/ RemoveFinalizer(ok)

Next == Event \/ (Others /\ UNCHANGED worker) \/ Step

Spec == Init /\ [][Next]_vars

\* The informer catches up, threads go on and others release what is deleted.
\* Nothing is assumed of the purge.
FairSpec ==
  /\ Spec
  /\ WF_vars(Event) /\ WF_vars(Step)
  /\ WF_vars(\E o \in pending : Store(o) /\ UNCHANGED worker)
  /\ \A f \in Foreign : WF_vars(RemoveForeign(f) /\ UNCHANGED worker)

---------------------------------------------------------------------------
(* Properties.                                                             *)

\* Types; and what the worker mutates in place is what is remembered.
TypeOK ==
  /\ {server, informer, obj, new} \cup pending \subseteq Object \cup {NotFound}
  /\ recent \subseteq Object
  /\ version \in Nat /\ server.rev <= version
  /\ \A a, b \in recent : a = b
  /\ alias \in {"none", "obj", "new"}
  /\ alias = "obj" => recent = {obj}
  /\ alias = "new" => recent = {new}
  /\ pc \in {"idle", "get", "recent", "handle", "status", "remove"}
  /\ route \in 1 .. Len(Routes) + 1
  /\ due \in BOOLEAN /\ delay \in BOOLEAN /\ returned \in BOOLEAN /\ again \in BOOLEAN
  /\ cleaned \subseteq Nat \X Ours
  /\ inputs \in 0 .. MaxInputs

\* A finalizer of ours leaves the object only after its handler has succeeded for
\* this very object, with no RetryAfter: whatever was read stale, remembered
\* wrongly, refused, or answered too late, and also when the object was deleted
\* and another one of its name created in between.
CleanedFirst ==
  [][\A f \in Ours :
       Contains(server.finalizers, f)
         /\ (server'.uid # server.uid \/ ~Contains(server'.finalizers, f)) =>
           <<server.uid, f>> \in cleaned]_vars

\* Finalizers of others stay until they remove them, although FinalizerHandler
\* writes the whole list from a copy that may be old.  Handlers that read their
\* object again are left out (Refresh).
ForeignKept ==
  [][\A f \in Foreign :
       Contains(server.finalizers, f)
         /\ (server'.uid # server.uid \/ ~Contains(server'.finalizers, f)) =>
           RemoveForeign(f)]_vars

\* A deleted object goes, with the finalizers of several routes and of others on
\* it in any order, unless its labels no longer select the route that is to
\* remove its finalizer.
Finalized ==
  \A u \in 1 .. MaxInputs + 1 :
    (server.uid = u /\ server.deleting) ~> (server.uid # u \/ ~server.label)

\* When nothing changes any more, Get answers what the server has, for good and
\* without the purge: what this process remembers never hides the informer's
\* object for ever, although the remembered object may never have been on the
\* server, and may have been stored out of order.
Settles == <>[](Found(informer) = server)
=============================================================================
