------------------------------- MODULE Apply -------------------------------
(***************************************************************************)
(* pkg/apply: the objects a handler passes to resp.Objects are compared    *)
(* with those that carry the owner's hash and are created, taken over,     *)
(* patched, replaced or pruned, one API call at a time, on the strength of *)
(* a list that comes from an informer cache.                               *)
(*                                                                         *)
(* An owner is what the annotations say: sub context (the router's name),  *)
(* gvk, name and namespace.  The runs of one owner do not overlap (onChange*)
(* holds its key's lock), runs of different owners do.  An owner runs when *)
(* its objects change, when a run failed and when it wants other objects.  *)
(* An owner may be deleted, and created again; the handler GCOrphans, for  *)
(* each of the objects, looks for its owner and purges it if there is none.*)
(* The order of the keys within one loop of process is left open.          *)
(***************************************************************************)
EXTENDS Naturals, Sequences

CONSTANTS
  Owners,            \* the owners that apply objects
  Keys,              \* names of objects
  Kinds,             \* gvks
  KindOf,            \* [Keys -> Kinds]
  Fields, Vals,      \* an object's content, see Spec
  Immutable,         \* fields for which a reconciler returns ErrReplace
  Options,           \* [Owners -> sets of what the owner may want]
  ValidOwnerChange,  \* pairs of sub contexts, AddValidOwnerChange
  Slow,              \* TRUE in Slow: finalizers may delay a deletion
  Strangers,         \* objects others may create: <<key, object>>
  MaxInputs          \* bound: changes of what owners want or of their objects
                     \* by others, deletions of owners, runs that do not prune,
                     \* API calls of theirs that fail

Unset   == 0
Content == [Fields -> Vals \cup {Unset}]

\* The annotations apply.acorn.io/create, update and prune.
Note    == [{"create", "update", "prune"} -> {"", "true", "false"}]
NoNote  == [n \in {"create", "update", "prune"} |-> ""]
NoOwner == [sub |-> <<>>, gvk |-> <<>>, name |-> <<>>, ns |-> <<>>]

\* objectSetHash: the digest of the four values, written one after the other.
objectSetHash(o) == o.sub \o o.gvk \o o.name \o o.ns

Hashes == {objectSetHash(o) : o \in Owners \cup {NoOwner}}

\* A stored object: hash label, owner annotations, content, the content that
\* was last applied (as a set, {} without the annotation).
Object == [hash: Hashes, owner: Owners \cup {NoOwner}, content: Content,
           applied: SUBSET Content, note: Note, deleting: BOOLEAN]

\* The object that an owner is: routers may have several sub contexts for it.
Ident(o) == [gvk |-> o.gvk, name |-> o.name, ns |-> o.ns]
Idents   == {Ident(o) : o \in Owners}

Wanted == UNION {[S -> [content: Content, note: Note]] : S \in SUBSET Keys}

ASSUME ApplyAssumption ==
  /\ KindOf \in [Keys -> Kinds]
  /\ Unset \notin Vals
  /\ Options \in [Owners -> SUBSET Wanted]
  /\ Strangers \subseteq Keys \X Object
  /\ NoOwner \notin Owners
  /\ Slow \subseteq BOOLEAN
  /\ MaxInputs \in Nat

VARIABLES
  store,     \* the API server's objects: key to Object
  cache,     \* the informer cache
  events,    \* keys with changes the informer has not heard of
  alive,     \* the owners' objects on the server
  heard,     \* those in the informer cache
  check,     \* keys GCOrphans is to run for, as their owner is not there
  purging,   \* keys it has found no owner for
  want,      \* what each owner wants: key to content and note
  dirty,     \* owners that are to run (again)
  watched,   \* [Owners -> SUBSET Keys]: triggers registered by resp.Objects
  pc,        \* "idle", "kinds" or "work"
  objs,      \* what the run applies
  noPrune,   \* owners whose run does not prune
  kinds,     \* kinds the run has still to process
  existing,  \* the objects process listed, and those it takes over
  work,      \* what process has still to do, see NoWork
  errs,      \* owners whose run has met an error
  inputs     \* inputs so far

objects == <<store, cache, events>>
orphans == <<alive, heard, check, purging>>
demand  == <<want, dirty, watched>>
run     == <<pc, objs, noPrune, kinds, existing, work, errs>>
vars    == <<objects, orphans, demand, run, inputs>>

\* Keys to create, to read after AlreadyExists, to update, delete and replace:
\* a replaced key is deleted first and then created.
NoWork == [create |-> {}, get |-> {}, update |-> {}, delete |-> {}, replace |-> {},
           recreate |-> {}, reget |-> {}]

Empty          == [k \in {} |-> {}]
Put(f, k, v)   == [x \in DOMAIN f \cup {k} |-> IF x = k THEN v ELSE f[x]]
Remove(f, k)   == [x \in DOMAIN f \ {k} |-> f[x]]
should(o, n)   == o.note[n] # "false"

Init ==
  /\ store = Empty /\ cache = Empty /\ events = {}
  /\ alive = Idents /\ heard = Idents /\ check = {} /\ purging = {}
  /\ want \in [Owners -> UNION {Options[o] : o \in Owners}]
  /\ \A o \in Owners : want[o] \in Options[o]
  /\ dirty = Owners
  /\ watched = [o \in Owners |-> {}]
  /\ pc = [o \in Owners |-> "idle"]
  /\ objs = [o \in Owners |-> Empty] /\ noPrune = {}
  /\ kinds = [o \in Owners |-> {}]
  /\ existing = [o \in Owners |-> Empty]
  /\ work = [o \in Owners |-> NoWork]
  /\ errs = {}
  /\ inputs = 0

\* An object with the annotation of its owner's gvk.
Annotated(v) == v.owner.gvk # <<>>

\* FindOwner would answer NotFound.
Orphan(v) == Annotated(v) /\ Ident(v.owner) \notin heard

\* The API server is asked to delete the object k: nothing happens to one that is
\* being deleted already.
Deleted(k) ==
  IF store[k].deleting THEN UNCHANGED <<store, events>>
  ELSE /\ \E slow \in Slow : store' = IF slow THEN [store EXCEPT ![k].deleting = TRUE]
                                       ELSE Remove(store, k)
       /\ events' = events \cup {k}

---------------------------------------------------------------------------
(* The world.                                                              *)

Input == inputs < MaxInputs /\ inputs' = inputs + 1

\* The owner changes, and its handlers ask for something else.
Rethink(o) ==
  /\ Input
  /\ \E w \in Options[o] : w # want[o] /\ want' = [want EXCEPT ![o] = w]
  /\ dirty' = dirty \cup {o}
  /\ UNCHANGED <<objects, watched, run, orphans>>

\* Somebody edits an object, leaving what is immutable and apply's annotations.
Drift(k) ==
  /\ Input
  /\ k \in DOMAIN store
  /\ \E f \in Fields \ Immutable, v \in Vals :
       store' = [store EXCEPT ![k].content[f] = v]
  /\ events' = events \cup {k}
  /\ UNCHANGED <<cache, demand, run, orphans>>

\* Somebody creates an object that apply did not make; it may carry a hash
\* label, copied from an object of apply's (Endpoints take a Service's labels).
Stranger(k, v) ==
  /\ Input
  /\ k \notin DOMAIN store
  /\ store' = Put(store, k, v)
  /\ events' = events \cup {k}
  /\ UNCHANGED <<cache, demand, run, orphans>>

\* The finalizers of a deleted object are done.
Gone(k) ==
  /\ k \in DOMAIN store /\ store[k].deleting
  /\ store' = Remove(store, k)
  /\ events' = events \cup {k}
  /\ UNCHANGED <<cache, demand, run, inputs, orphans>>

\* The informer catches up with an object, and the triggers that name it run its
\* owners; a deleted object's triggers are dropped with it.  GCOrphans runs, too.
Sync(k) ==
  /\ k \in events
  /\ events' = events \ {k}
  /\ IF k \in DOMAIN store
     THEN cache' = Put(cache, k, store[k]) /\ UNCHANGED watched
     ELSE /\ cache' = Remove(cache, k)
          /\ watched' = [o \in Owners |-> watched[o] \ {k}]
  /\ dirty' = dirty \cup {o \in Owners : k \in watched[o]}
  /\ check' = IF k \in DOMAIN store /\ Orphan(store[k]) THEN check \cup {k} ELSE check \ {k}
  /\ UNCHANGED <<store, alive, heard, purging, want, run, inputs>>

\* The informer's resync tells the owner's controller of the owner again.
Resync(o) ==
  /\ o \notin dirty /\ Ident(o) \in heard
  /\ dirty' = dirty \cup {o}
  /\ UNCHANGED <<objects, want, watched, run, inputs, orphans>>

\* The owner is deleted; it may be created again.
OwnerDies(i) ==
  /\ Input
  /\ i \in alive
  /\ alive' = alive \ {i}
  /\ UNCHANGED <<objects, heard, check, purging, demand, run>>

OwnerReturns(i) ==
  /\ i \notin alive
  /\ alive' = alive \cup {i}
  /\ UNCHANGED <<objects, heard, check, purging, demand, run, inputs>>

\* The informer hears of it: the owner's handlers run, and GCOrphans for all objects
\* it has looked for this owner of (its runs that find the owner change nothing).
SyncOwner(i) ==
  /\ i \in alive <=> i \notin heard
  /\ heard' = IF i \in alive THEN heard \cup {i} ELSE heard \ {i}
  /\ dirty' = dirty \cup {o \in Owners : Ident(o) = i}
  /\ check' = check \cup {k \in DOMAIN cache : Annotated(cache[k]) /\ Ident(cache[k].owner) = i
                                                /\ i \notin alive}
  /\ UNCHANGED <<objects, alive, purging, want, watched, run, inputs>>

---------------------------------------------------------------------------
(* GCOrphans, for the object k.                                            *)

\* FindOwner, by the annotations of the object as the handler was given it.
FindOwner(k) ==
  /\ k \in check \ purging
  /\ check' = check \ {k}
  /\ purging' = IF k \in DOMAIN cache /\ Orphan(cache[k]) THEN purging \cup {k} ELSE purging
  /\ UNCHANGED <<objects, alive, heard, demand, run, inputs>>

\* The object is deleted by name; when there is none, the error has the key put back.
PurgeOrphan(k) ==
  /\ k \in purging
  /\ purging' = purging \ {k}
  /\ IF k \in DOMAIN store
     THEN Deleted(k) /\ UNCHANGED check
     ELSE check' = check \cup {k} /\ UNCHANGED <<store, events>>
  /\ UNCHANGED <<cache, alive, heard, demand, run, inputs>>

\* The call fails, and the key is put back.
PurgeFails(k) ==
  /\ k \in purging
  /\ purging' = purging \ {k} /\ check' = check \cup {k}
  /\ UNCHANGED <<objects, alive, heard, demand, run, inputs>>

---------------------------------------------------------------------------
(* A run of Apply.                                                         *)

\* The owner's handlers find no owner: Apply, called with none, lists by a hash that no
\* object has (save.go).
Absent(o) ==
  /\ pc[o] = "idle" /\ o \in dirty /\ Ident(o) \notin heard
  /\ dirty' = dirty \ {o}
  /\ UNCHANGED <<objects, orphans, want, watched, run, inputs>>

\* The handlers have asked for objects; save decides whether to prune.  A run
\* does not when DisablePrune was called, or when nothing was asked for together
\* with a RetryAfter; here such an owner always runs again.
Begin(o) ==
  /\ pc[o] = "idle" /\ o \in dirty /\ Ident(o) \in heard
  /\ pc' = [pc EXCEPT ![o] = "kinds"]
  /\ kinds' = [kinds EXCEPT ![o] = Kinds]
  /\ \/ /\ objs' = [objs EXCEPT ![o] = want[o]]
        /\ dirty' = dirty \ {o}
        /\ UNCHANGED <<noPrune, inputs>>
     \/ /\ Input
        /\ \E w \in {want[o], Empty} : objs' = [objs EXCEPT ![o] = w]
        /\ noPrune' = noPrune \cup {o}
        /\ UNCHANGED dirty
  /\ watched' = [watched EXCEPT ![o] = @ \cup DOMAIN objs'[o]]
  /\ UNCHANGED <<objects, want, existing, work, errs, orphans>>

\* Every kind is processed, whatever became of the others; errors are collected
\* and the owner runs again if there are any.
End(o) ==
  /\ pc[o] = "kinds" /\ kinds[o] = {}
  /\ pc' = [pc EXCEPT ![o] = "idle"]
  /\ objs' = [objs EXCEPT ![o] = Empty]
  /\ noPrune' = noPrune \ {o}
  /\ errs' = errs \ {o}
  /\ dirty' = IF o \in errs THEN dirty \cup {o} ELSE dirty
  /\ UNCHANGED <<objects, want, watched, kinds, existing, work, inputs, orphans>>

\* listBySelector, from the cache.
Listed(o, kind) ==
  LET S == {k \in DOMAIN cache : KindOf[k] = kind /\ cache[k].hash = objectSetHash(o)}
  IN  [k \in S |-> cache[k]]

\* compareSets: what to prune must be labelled with the hash of its annotations.
ToCreate(new, old) == {k \in DOMAIN new \ DOMAIN old : should(new[k], "create")}
ToUpdate(new, old) == {k \in DOMAIN new \cap DOMAIN old : should(new[k], "update")}
\* Mutant: objects that only copied the label are pruned too.
ToDeleteLabelled(new, old) ==
  {k \in DOMAIN old \ DOMAIN new : should(old[k], "prune") /\ ~old[k].deleting}
ToDelete(new, old) ==
  {k \in DOMAIN old \ DOMAIN new :
     /\ should(old[k], "prune") /\ ~old[k].deleting
     /\ old[k].hash = objectSetHash(old[k].owner)}

\* process, up to the loops.
List(o, kind) ==
  /\ pc[o] = "kinds" /\ kind \in kinds[o]
  /\ kinds' = [kinds EXCEPT ![o] = @ \ {kind}]
  /\ pc' = [pc EXCEPT ![o] = "work"]
  /\ LET old == Listed(o, kind)
         new == [k \in {x \in DOMAIN objs[o] : KindOf[x] = kind} |-> objs[o][k]]
     IN /\ existing' = [existing EXCEPT ![o] = old]
        /\ work' = [work EXCEPT ![o] =
             [NoWork EXCEPT !.create = ToCreate(new, old), !.update = ToUpdate(new, old),
                            !.delete = IF o \in noPrune THEN {} ELSE ToDelete(new, old)]]
  /\ UNCHANGED <<objects, demand, objs, noPrune, errs, inputs, orphans>>

\* The list fails: the kind is left to the next run.
ListFails(o, kind) ==
  /\ pc[o] = "kinds" /\ kind \in kinds[o]
  /\ Input
  /\ kinds' = [kinds EXCEPT ![o] = @ \ {kind}]
  /\ errs' = errs \cup {o}
  /\ UNCHANGED <<objects, demand, pc, objs, noPrune, existing, work, orphans>>

\* The loop that runs: each loop of process begins when those before it are done.
Loop(o) ==
  LET w == work[o] IN
  CASE w.get # {}      -> "get"
    [] w.reget # {}    -> "reget"
    [] w.create # {}   -> "create"
    [] w.update # {}   -> "update"
    [] w.delete # {}   -> "delete"
    [] w.replace # {}  -> "replace"
    [] w.recreate # {} -> "recreate"
    [] OTHER           -> "done"

\* k is the next key of the loop.
In(o, loop, k) == pc[o] = "work" /\ Loop(o) = loop /\ k \in work[o][loop]

Did(o, loop, k) == [work[o] EXCEPT ![loop] = @ \ {k}]

\* process returns.
Processed(o) ==
  /\ pc[o] = "work" /\ Loop(o) = "done"
  /\ pc' = [pc EXCEPT ![o] = "kinds"]
  /\ existing' = [existing EXCEPT ![o] = Empty]
  /\ UNCHANGED <<objects, demand, objs, noPrune, kinds, work, errs, inputs, orphans>>

\* The API call for a key fails: the error is kept and the loop goes on.
CallFails(o) ==
  /\ Input
  /\ \E loop \in DOMAIN NoWork, k \in Keys :
       In(o, loop, k) /\ work' = [work EXCEPT ![o] = Did(o, loop, k)]
  /\ errs' = errs \cup {o}
  /\ UNCHANGED <<objects, demand, pc, objs, noPrune, kinds, existing, orphans>>

---------------------------------------------------------------------------
(* createF *)

Labelled(o, new) ==
  [hash |-> objectSetHash(o), owner |-> o, content |-> new.content,
   applied |-> {new.content}, note |-> new.note, deleting |-> FALSE]

\* Create, in the first loop or after a replaced object was deleted.
Create(o, k) ==
  \E loop \in {"create", "recreate"} :
    /\ In(o, loop, k)
    /\ IF k \in DOMAIN store
       THEN /\ work' = [work EXCEPT ![o] =
                 IF loop = "create"
                 THEN [Did(o, loop, k) EXCEPT !.get = {k}]
                 ELSE [Did(o, loop, k) EXCEPT !.reget = {k}]]
            /\ UNCHANGED <<store, events>>
       ELSE /\ store' = Put(store, k, Labelled(o, objs[o][k]))
            /\ events' = events \cup {k}
            /\ work' = [work EXCEPT ![o] = Did(o, loop, k)]
    /\ UNCHANGED <<cache, demand, pc, objs, noPrune, kinds, existing, errs, inputs, orphans>>

SameOwner(a, b) == a.gvk = b.gvk /\ a.ns = b.ns /\ a.name = b.name

isAssigningSubContext(old, new) == old.sub = <<>> /\ new.sub # <<>> /\ SameOwner(old, new)

isAllowOwnerTransition(old, new) ==
  /\ new.sub # <<>>
  /\ old.gvk \in {<<>>, new.gvk} /\ old.ns \in {<<>>, new.ns} /\ old.name \in {<<>>, new.name}
  /\ <<old.sub, new.sub>> \in ValidOwnerChange

MayTakeOver(v, o) ==
  v.hash # <<>> => isAssigningSubContext(v.owner, o) \/ isAllowOwnerTransition(v.owner, o)

\* Mutant: whatever exists is taken over.
TakeOverAnything(o, k) ==
  \E loop \in {"get", "reget"}, v \in {f[k] : f \in {g \in {cache, store} : k \in DOMAIN g}} :
    /\ In(o, loop, k)
    /\ existing' = [existing EXCEPT ![o] = Put(@, k, v)]
    /\ work' = [work EXCEPT ![o] =
         IF loop = "get" /\ should(objs[o][k], "update")
         THEN [Did(o, loop, k) EXCEPT !.update = @ \cup {k}]
         ELSE Did(o, loop, k)]
    /\ UNCHANGED <<objects, demand, pc, objs, noPrune, kinds, errs, inputs, orphans>>

\* Mutant: the object that is taken over is not recorded among the existing.
TakeOverUnrecorded(o, k) ==
  \E loop \in {"get", "reget"}, v \in {f[k] : f \in {g \in {cache, store} : k \in DOMAIN g}} :
    /\ In(o, loop, k) /\ MayTakeOver(v, o)
    /\ work' = [work EXCEPT ![o] =
         IF loop = "get" /\ should(objs[o][k], "update")
         THEN [Did(o, loop, k) EXCEPT !.update = @ \cup {k}]
         ELSE Did(o, loop, k)]
    /\ UNCHANGED <<objects, demand, pc, objs, noPrune, kinds, existing, errs, inputs, orphans>>

\* AlreadyExists: get the object, from the cache or as this process last wrote
\* it.  It is taken over if nobody owns it or if its owner may be changed; then
\* it is updated, but in the last loop nothing comes after.
TakeOver(o, k) ==
  \E loop \in {"get", "reget"}, v \in {f[k] : f \in {g \in {cache, store} : k \in DOMAIN g}} :
    /\ In(o, loop, k) /\ MayTakeOver(v, o)
    /\ existing' = [existing EXCEPT ![o] = Put(@, k, v)]
    /\ work' = [work EXCEPT ![o] =
         IF loop = "get" /\ should(objs[o][k], "update")
         THEN [Did(o, loop, k) EXCEPT !.update = @ \cup {k}]
         ELSE Did(o, loop, k)]
    /\ UNCHANGED <<objects, demand, pc, objs, noPrune, kinds, errs, inputs, orphans>>

\* It is somebody else's, or it is not found.
TakeOverFails(o, k) ==
  /\ \E loop \in {"get", "reget"} :
       In(o, loop, k) /\ work' = [work EXCEPT ![o] = Did(o, loop, k)]
  /\ \E f \in {cache, store} : k \in DOMAIN f => ~MayTakeOver(f[k], o)
  /\ errs' = errs \cup {o}
  /\ UNCHANGED <<objects, demand, pc, objs, noPrune, kinds, existing, inputs, orphans>>

---------------------------------------------------------------------------
(* updateF *)

\* Mutant: a field is only compared with what was applied, and drift stays.
ToSetApplied(old, new) ==
  {f \in Fields : new.content[f] # Unset /\ \A a \in old.applied : new.content[f] # a[f]}

\* createPatch: the three way merge of what was applied, what is wanted and what
\* was read.  The fields to set and the fields to remove.
ToSet(old, new) ==
  {f \in Fields : new.content[f] # Unset /\ new.content[f] # old.content[f]}
ToUnset(old, new) ==
  {f \in Fields : new.content[f] = Unset /\ \E a \in old.applied : a[f] # Unset}

\* sanitizePatch: a patch of the applied annotation alone is no patch.
NoPatch(o, old, new) ==
  /\ ToSet(old, new) = {} /\ ToUnset(old, new) = {}
  /\ old.hash = objectSetHash(o) /\ old.owner = o /\ old.note = new.note

\* The reconciler of the kind: the applied content, or else the object's own,
\* differs in what cannot be patched.
ErrReplace(old, new) ==
  \E f \in Immutable :
    /\ new.content[f] # Unset
    /\ IF old.applied = {} THEN old.content[f] # new.content[f]
       ELSE \E a \in old.applied : a[f] # new.content[f]

\* What the server makes of the patch: only what differed from old is in it.
Patched(v, o, old, new) ==
  [v EXCEPT
    !.content = [f \in Fields |->
                   IF f \in ToSet(old, new) THEN new.content[f]
                   ELSE IF f \in ToUnset(old, new) THEN Unset ELSE @[f]],
    !.hash    = IF old.hash = objectSetHash(o) THEN @ ELSE objectSetHash(o),
    !.owner   = IF old.owner = o THEN @ ELSE o,
    !.note    = IF old.note = new.note THEN @ ELSE new.note,
    !.applied = IF old.applied = {new.content} THEN @ ELSE {new.content}]

\* The server refuses to patch what is not there or what cannot be changed.
Rejected(o, k) ==
  \/ k \notin DOMAIN store
  \/ LET p == Patched(store[k], o, existing[o][k], objs[o][k])
     IN  \E f \in Immutable : p.content[f] # store[k].content[f]

\* compareObjects
Update(o, k) ==
  LET old == existing[o][k]
      new == objs[o][k]
  IN
  /\ In(o, "update", k)
  /\ \/ /\ NoPatch(o, old, new)
        /\ work' = [work EXCEPT ![o] = Did(o, "update", k)]
        /\ UNCHANGED <<store, events, errs>>
     \/ /\ ~NoPatch(o, old, new) /\ ErrReplace(old, new)
        /\ work' = [work EXCEPT ![o] =
             IF new.note["update"] = "true" \/ (should(old, "prune") /\ should(old, "create"))
             THEN [Did(o, "update", k) EXCEPT !.replace = @ \cup {k}, !.recreate = @ \cup {k}]
             ELSE Did(o, "update", k)]
        /\ UNCHANGED <<store, events, errs>>
     \/ /\ ~NoPatch(o, old, new) /\ ~ErrReplace(old, new)
        /\ work' = [work EXCEPT ![o] = Did(o, "update", k)]
        /\ IF Rejected(o, k)
           THEN errs' = errs \cup {o} /\ UNCHANGED <<store, events>>
           ELSE /\ store' = [store EXCEPT ![k] = Patched(@, o, old, new)]
                /\ events' = events \cup {k}
                /\ UNCHANGED errs
  /\ UNCHANGED <<cache, demand, pc, objs, noPrune, kinds, existing, inputs, orphans>>

---------------------------------------------------------------------------
(* deleteF, to prune or to replace: by name, whatever has the name by now. *)

Delete(o, k) ==
  \E loop \in {"delete", "replace"} :
    /\ In(o, loop, k)
    /\ work' = [work EXCEPT ![o] = Did(o, loop, k)]
    /\ \/ /\ k \notin DOMAIN store
          /\ errs' = errs \cup {o}
          /\ UNCHANGED <<store, events>>
       \/ /\ k \in DOMAIN store
          /\ Deleted(k)
          /\ UNCHANGED errs
    /\ UNCHANGED <<cache, demand, pc, objs, noPrune, kinds, existing, inputs, orphans>>

---------------------------------------------------------------------------
World ==
  \/ \E o \in Owners : Rethink(o) \/ Resync(o)
  \/ \E k \in Keys : Drift(k) \/ Gone(k) \/ Sync(k)
  \/ \E s \in Strangers : Stranger(s[1], s[2])
  \/ \E i \in Idents : OwnerDies(i) \/ OwnerReturns(i) \/ SyncOwner(i)

GCOrphans(k) == FindOwner(k) \/ PurgeOrphan(k) \/ PurgeFails(k)

Call(o, k) == Create(o, k) \/ TakeOver(o, k) \/ TakeOverFails(o, k) \/ Update(o, k) \/ Delete(o, k)

Progress(o) ==
  \/ End(o) \/ Processed(o)
  \/ \E kind \in Kinds : List(o, kind)
  \/ \E k \in Keys : Call(o, k)

Next ==
  \/ World
  \/ \E k \in Keys : GCOrphans(k)
  \/ \E o \in Owners :
       \/ Absent(o) \/ Begin(o) \/ Progress(o) \/ CallFails(o)
       \/ \E kind \in Kinds : ListFails(o, kind)

Spec == Init /\ [][Next]_vars

\* The informer catches up, finalizers finish and runs go on; an owner that is
\* to run, or an object GCOrphans is to run for, has its run (Converges of
\* HandlerSet), and a purge does not fail for ever.
Fairness ==
  /\ \A k \in Keys : WF_vars(Sync(k))
  /\ WF_vars(\E k \in Keys : Gone(k) \/ FindOwner(k))
  /\ \A k \in Keys : SF_vars(PurgeOrphan(k))
  /\ WF_vars(\E i \in Idents : SyncOwner(i))
  /\ \A o \in Owners : WF_vars(Absent(o) \/ Begin(o) \/ Progress(o))

\* Owners run because of events and errors alone.
EventSpec == Spec /\ Fairness

\* Informers also resync, every ten hours unless configured otherwise.
ResyncSpec == EventSpec /\ \A o \in Owners : WF_vars(Resync(o))

---------------------------------------------------------------------------
(* Properties.                                                             *)

\* Types; an owner's run has work for known keys only, and only while it runs.
TypeOK ==
  /\ DOMAIN store \subseteq Keys /\ \A k \in DOMAIN store : store[k] \in Object
  /\ DOMAIN cache \subseteq Keys /\ \A k \in DOMAIN cache : cache[k] \in Object
  /\ \A o \in Owners :
       /\ want[o] \in Options[o]
       /\ objs[o] \in Options[o] \cup {Empty}
       /\ pc[o] \in {"idle", "kinds", "work"}
       /\ kinds[o] \subseteq Kinds
       /\ \A loop \in DOMAIN NoWork : work[o][loop] \subseteq Keys
       /\ work[o].update \subseteq DOMAIN existing[o] \cap DOMAIN objs[o]
       /\ work[o].create \cup work[o].recreate \subseteq DOMAIN objs[o]
       /\ pc[o] # "work" => work[o] = NoWork /\ existing[o] = Empty
  /\ events \cup check \cup purging \subseteq Keys
  /\ alive \cup heard \subseteq Idents
  /\ dirty \cup noPrune \cup errs \subseteq Owners
  /\ watched \in [Owners -> SUBSET Keys]
  /\ inputs \in 0 .. MaxInputs

\* An object changes hands only as isAssigningSubContext ("We allow this as long as
\* the previous owner is the same (gvk, namespace, name)") and the allowed owner
\* changes say, whatever other owners do between the list and the patch.
OwnerKept ==
  [][\A k \in DOMAIN store \cap DOMAIN store' :
       store[k].owner # store'[k].owner => MayTakeOver(store[k], store'[k].owner)]_vars

\* An object that only copied the labels of an applied object is not pruned.
CopiesKept ==
  [][\A k \in DOMAIN store :
       store[k].hash # objectSetHash(store[k].owner) =>
         k \in DOMAIN store' /\ store'[k].deleting = store[k].deleting]_vars

\* The object at k is as its owner wants it.
AsWanted(k) ==
  \E o \in Owners :
    /\ k \in DOMAIN want[o] /\ k \in DOMAIN store
    /\ store[k].owner = o /\ store[k].hash = objectSetHash(o) /\ ~store[k].deleting
    /\ \A f \in Fields :
         want[o][k].content[f] # Unset => store[k].content[f] = want[o][k].content[f]

\* Nothing of apply's is left at k.
Pruned(k) ==
  k \in DOMAIN store =>
    ~should(store[k], "prune") \/ store[k].hash # objectSetHash(store[k].owner) \/ store[k].hash = <<>>

\* "This is to ensure that the secret always has the correct/expected values"
\* (README): when inputs and failures stop, the object that one owner wants is
\* as it wants it, one that nobody wants is gone, and so is one whose owner is,
\* for good, although lists were stale, calls failed, other owners wanted the object
\* before, and the owner was deleted or created again while its objects were purged.
Converges ==
  \A k \in Keys :
    LET Claimants == {o \in Owners : Ident(o) \in alive /\ k \in DOMAIN want[o]}
    IN  <>[]( /\ Claimants = {} => Pruned(k)
              /\ k \in DOMAIN store /\ Annotated(store[k]) => Ident(store[k].owner) \in alive
              /\ \A o \in Owners : Claimants = {o} => AsWanted(k))
=============================================================================
