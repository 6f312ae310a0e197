--------------------------- MODULE SharedHandler ---------------------------
(***************************************************************************)
(* The handlers of one kind: SharedHandler with its slice, to which        *)
(* RegisterHandler appends, directly or when a HandlerTransaction is       *)
(* committed, from which a handler is removed when its context is done,    *)
(* and over which the controller's workers iterate in OnChange.            *)
(*                                                                         *)
(* OnChange copies the slice under the lock, but only its header: what it  *)
(* iterates over is the array that Register writes to, as long as it has   *)
(* room, and in which a removal moves the rest of the handlers down, one   *)
(* after the other.  A read that races with a move sees the old entry or   *)
(* the new one (all entries are of one Go type).                           *)
(*                                                                         *)
(* Objects are versions; a handler that returns ErrIgnore has had its call *)
(* like one that succeeds.                                                 *)
(***************************************************************************)
EXTENDS Naturals, Sequences

CONSTANTS
  Handlers,   \* registrations
  Deferred,   \* the ones that are made within a transaction
  Keys,       \* objects of the kind
  Workers,
  None,       \* no handler; no key
  MaxVer,     \* bound: changes of an object
  MaxFails    \* bound: errors of handlers and of lists

ASSUME SharedHandlerAssumption ==
  /\ Deferred \subseteq Handlers
  /\ None \notin Handlers \cup Keys
  /\ MaxVer \in Nat \ {0} /\ MaxFails \in Nat

VARIABLES
  array,      \* the array behind SharedHandler.handlers
  len,        \* the length of SharedHandler.handlers
  moving,     \* a removal, with lock held: the next slot to be overwritten, or 0
  reg,        \* where the registration of each handler is
  cancelled,  \* handlers whose context is done
  started,    \* sharedController.started
  ver,        \* of each object
  due,        \* keys on the work queue
  work,       \* what each worker does
  seen,       \* the version of each object each handler was called with last
  shaken,     \* <<handler, key>>: the handler stood behind one that was removed
              \* during an OnChange for the key
  fails

slice   == <<array, len, moving>>
objects == <<started, ver>>
vars    == <<slice, reg, cancelled, objects, due, work, seen, shaken, fails>>

Idle == [key |-> None, val |-> 0, next |-> 0, len |-> 0, old |-> <<>>, err |-> FALSE]

Init ==
  /\ array = <<>> /\ len = 0 /\ moving = 0
  /\ reg = [h \in Handlers |-> "new"] /\ cancelled = {}
  /\ started = FALSE /\ ver = [k \in Keys |-> 1]
  /\ due = {} /\ work = [w \in Workers |-> Idle]
  /\ seen = [h \in Handlers |-> [k \in Keys |-> 0]]
  /\ shaken = {}
  /\ fails = 0

In == {array[i] : i \in 1 .. len}

\* The slots worker w reads.
Slots(w) == IF work[w].old = <<>> THEN array ELSE work[w].old

Iterating == {w \in Workers : work[w].next > 0}

Failing == fails < MaxFails /\ fails' = fails + 1

---------------------------------------------------------------------------
(* The objects, and the controller.                                        *)

Change(k) ==
  /\ ver[k] < MaxVer
  /\ ver' = [ver EXCEPT ![k] = @ + 1]
  /\ due' = IF started THEN due \cup {k} ELSE due
  /\ UNCHANGED <<slice, reg, cancelled, started, work, seen, shaken, fails>>

\* sharedController.Start: the informer tells of every object.
Start ==
  /\ ~started
  /\ started' = TRUE
  /\ due' = Keys
  /\ UNCHANGED <<slice, reg, cancelled, ver, work, seen, shaken, fails>>

---------------------------------------------------------------------------
(* Registration.                                                           *)

\* RegisterHandler: a transaction keeps the function for later.
RegisterHandler(h) ==
  /\ reg[h] = "new"
  /\ reg' = [reg EXCEPT ![h] = IF h \in Deferred THEN "todo" ELSE "run"]
  /\ UNCHANGED <<slice, cancelled, objects, due, work, seen, shaken, fails>>

Todo == {h \in Handlers : reg[h] = "todo"}

Commit ==
  /\ Todo # {}
  /\ reg' = [h \in Handlers |-> IF h \in Todo THEN "run" ELSE reg[h]]
  /\ UNCHANGED <<slice, cancelled, objects, due, work, seen, shaken, fails>>

Rollback ==
  /\ Todo # {}
  /\ reg' = [h \in Handlers |-> IF h \in Todo THEN "dropped" ELSE reg[h]]
  /\ UNCHANGED <<slice, cancelled, objects, due, work, seen, shaken, fails>>

\* What append makes of a full array of n slots.
Grown(n) == IF n = 0 THEN 1 ELSE 2 * n

\* Register: a full array is copied to a larger one, and iterations that are under
\* way stay with the old one.
Register(h) ==
  /\ reg[h] = "run" /\ moving = 0
  /\ reg' = [reg EXCEPT ![h] = "added"]
  /\ len' = len + 1
  /\ \/ /\ len < Len(array)
        /\ array' = [array EXCEPT ![len + 1] = h]
        /\ UNCHANGED work
     \/ /\ len = Len(array)
        /\ array' = [i \in 1 .. Grown(len) |-> IF i <= len THEN array[i]
                                               ELSE IF i = len + 1 THEN h ELSE None]
        /\ work' = [w \in Workers |->
                      IF w \in Iterating THEN [work[w] EXCEPT !.old = Slots(w)] ELSE work[w]]
  /\ UNCHANGED <<moving, cancelled, objects, due, seen, shaken, fails>>

\* Mutant: the objects that are there already are left to their next change.
EnqueueNothing(h) ==
  /\ reg[h] = "added"
  /\ reg' = [reg EXCEPT ![h] = "done"]
  /\ UNCHANGED <<slice, cancelled, objects, due, work, seen, shaken, fails>>

\* The rest of RegisterHandler's function: a running controller is asked for all
\* its objects again.
Enqueue(h) ==
  /\ reg[h] = "added"
  /\ reg' = [reg EXCEPT ![h] = "done"]
  /\ due' = IF started THEN Keys ELSE due
  /\ UNCHANGED <<slice, cancelled, objects, work, seen, shaken, fails>>

\* The list fails: the handler's context is cancelled.
EnqueueFails(h) ==
  /\ reg[h] = "added" /\ started /\ Failing
  /\ reg' = [reg EXCEPT ![h] = "done"]
  /\ cancelled' = cancelled \cup {h}
  /\ UNCHANGED <<slice, objects, due, work, seen, shaken>>

\* The caller's context is done.
Cancel(h) ==
  /\ reg[h] \in {"added", "done"} /\ h \notin cancelled
  /\ cancelled' = cancelled \cup {h}
  /\ UNCHANGED <<slice, reg, objects, due, work, seen, shaken, fails>>

\* AfterFunc: the handler is found, and the ones behind it begin to move.
Remove(i) ==
  /\ moving = 0 /\ i \in 1 .. len /\ array[i] \in cancelled
  /\ moving' = i
  /\ shaken' = shaken \cup {<<array[j], work[w].key>> : j \in i + 1 .. len,
                              w \in {v \in Iterating : work[v].old = <<>>}}
  /\ UNCHANGED <<array, len, reg, cancelled, objects, due, work, seen, fails>>

\* Mutant: the slice keeps its length.
MoveKeeps ==
  /\ moving > 0
  /\ \/ /\ moving < len
        /\ array' = [array EXCEPT ![moving] = array[moving + 1]]
        /\ moving' = moving + 1
     \/ /\ moving = len
        /\ moving' = 0
        /\ UNCHANGED array
  /\ UNCHANGED <<len, reg, cancelled, objects, due, work, seen, shaken, fails>>

\* One of them moves; after the last the slice is shorter.
Move ==
  /\ moving > 0
  /\ \/ /\ moving < len
        /\ array' = [array EXCEPT ![moving] = array[moving + 1]]
        /\ moving' = moving + 1
        /\ UNCHANGED len
     \/ /\ moving = len
        /\ len' = len - 1 /\ moving' = 0
        /\ UNCHANGED array
  /\ UNCHANGED <<reg, cancelled, objects, due, work, seen, shaken, fails>>

---------------------------------------------------------------------------
(* A worker: syncHandler and SharedHandler.OnChange.                       *)

\* The queue gives a key to one worker at a time; the object is read.
Get(w, k) ==
  /\ work[w].key = None /\ k \in due /\ \A v \in Workers : work[v].key # k
  /\ due' = due \ {k}
  /\ work' = [work EXCEPT ![w].key = k, ![w].val = ver[k]]
  /\ UNCHANGED <<slice, reg, cancelled, objects, seen, shaken, fails>>

\* OnChange copies the header of the slice under the lock.
OnChange(w) ==
  /\ work[w].key # None /\ work[w].next = 0 /\ moving = 0
  /\ work' = [work EXCEPT ![w].next = 1, ![w].len = len]
  /\ UNCHANGED <<slice, reg, cancelled, objects, due, seen, shaken, fails>>

\* The next handler returns nil or ErrIgnore.
Call(w) ==
  /\ work[w].next \in 1 .. work[w].len
  /\ LET h == Slots(w)[work[w].next] IN
     /\ seen' = [seen EXCEPT ![h][work[w].key] = work[w].val]
     /\ shaken' = IF work[w].val = ver[work[w].key] THEN shaken \ {<<h, work[w].key>>} ELSE shaken
  /\ work' = [work EXCEPT ![w].next = @ + 1]
  /\ UNCHANGED <<slice, reg, cancelled, objects, due, fails>>

\* Mutant: only the last handler's error is returned.
CallFailsQuietly(w) ==
  /\ work[w].next \in 1 .. work[w].len /\ Failing
  /\ work' = [work EXCEPT ![w].next = @ + 1, ![w].err = work[w].next = work[w].len]
  /\ UNCHANGED <<slice, reg, cancelled, objects, due, seen, shaken>>

\* It returns an error; the ones behind it are called nevertheless.
CallFails(w) ==
  /\ work[w].next \in 1 .. work[w].len /\ Failing
  /\ work' = [work EXCEPT ![w].next = @ + 1, ![w].err = TRUE]
  /\ UNCHANGED <<slice, reg, cancelled, objects, due, seen, shaken>>

\* processSingleItem: with an error the key is put back.
Finish(w) ==
  /\ work[w].next > work[w].len
  /\ due' = IF work[w].err THEN due \cup {work[w].key} ELSE due
  /\ work' = [work EXCEPT ![w] = Idle]
  /\ UNCHANGED <<slice, reg, cancelled, objects, seen, shaken, fails>>

---------------------------------------------------------------------------
Next ==
  \/ \E k \in Keys : Change(k)
  \/ Start \/ Commit \/ Rollback \/ Move
  \/ \E h \in Handlers : RegisterHandler(h) \/ Register(h) \/ Enqueue(h) \/ EnqueueFails(h)
                           \/ Cancel(h)
  \/ \E i \in 1 .. len : Remove(i)
  \/ \E w \in Workers : OnChange(w) \/ Call(w) \/ CallFails(w) \/ Finish(w)
                          \/ \E k \in Keys : Get(w, k)

Spec == Init /\ [][Next]_vars

---------------------------------------------------------------------------
(* Properties.                                                             *)

Stages == {"new", "todo", "dropped", "run", "added", "done"}

\* Types; outside a removal the slice holds each handler that was added and not
\* removed once, and an iteration stays within the array it reads.
TypeOK ==
  /\ array \in Seq(Handlers \cup {None}) /\ len \in 0 .. Len(array) /\ moving \in 0 .. len
  /\ reg \in [Handlers -> Stages] /\ cancelled \subseteq Handlers
  /\ moving = 0 =>
       /\ \A i, j \in 1 .. len : array[i] = array[j] => i = j
       /\ \A h \in Handlers : reg[h] \in {"added", "done"} /\ h \notin cancelled => h \in In
       /\ \A h \in In : reg[h] \in {"added", "done"}
  /\ started \in BOOLEAN /\ ver \in [Keys -> 1 .. MaxVer]
  /\ due \subseteq Keys
  /\ \A w \in Workers :
       /\ work[w].key \in Keys \cup {None} /\ work[w].val \in 0 .. MaxVer
       /\ work[w].len <= Len(Slots(w)) /\ work[w].next \in 0 .. work[w].len + 1
       /\ \A i \in 1 .. work[w].len : Slots(w)[i] \in Handlers
  /\ seen \in [Handlers -> [Keys -> 0 .. MaxVer]]
  /\ shaken \subseteq Handlers \X Keys
  /\ fails \in 0 .. MaxFails

\* Nobody misses a change: of an object that is not on the queue and not being
\* handled every handler that is registered has seen the last version, however
\* registrations, commits, failing handlers, new arrays and iterations interleave.
\* The one exception: handlers behind one that was removed during an OnChange.
NoMissedChange ==
  \A k \in Keys, h \in Handlers :
    started /\ k \notin due /\ (\A w \in Workers : work[w].key # k)
      /\ reg[h] = "done" /\ h \notin cancelled /\ <<h, k>> \notin shaken
      => seen[h][k] = ver[k]
=============================================================================
