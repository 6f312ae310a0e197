------------------------------ MODULE Watcher ------------------------------
(***************************************************************************)
(* Watcher.bySelector: wait until a callback is satisfied with one of the  *)
(* objects a selector names.  The objects are listed, then watched from    *)
(* the revision of the list; retryWatch opens a new watch, from the last   *)
(* revision doWatch has reached, whenever one ends.                        *)
(*                                                                         *)
(* The server is a log of changes; the revision of a change is its place   *)
(* in the log.  It may forget the oldest ones (compaction), close a watch, *)
(* refuse one, or answer with an error.  The callback is the caller's: it  *)
(* is done with a change that is in Good, unless it returns an error.      *)
(***************************************************************************)
EXTENDS Naturals, Sequences, FiniteSets

CONSTANTS
  Selected,   \* objects the selector matches
  Others,     \* objects of the kind that it does not match
  Good,       \* values the callback is done with
  Bad,        \* values it is not done with
  MaxLog,     \* bound: changes
  MaxFaults   \* bound: faults of the server, the connection and the callback

NoRev == MaxLog + 1   \* no list yet, or the call has not returned
Gone  == "gone"       \* the value of an object that is deleted or not there yet

ASSUME WatcherAssumption ==
  /\ Selected \cap Others = {}
  /\ Good \cap Bad = {} /\ Gone \notin Bad
  /\ MaxLog \in Nat /\ MaxFaults \in Nat

Values  == Good \cup Bad \cup {Gone}
Changes == [obj : Selected \cup Others, val : Values]

VARIABLES
  log,           \* the server's changes
  compacted,     \* how many of them it has forgotten
  pc,            \* where the call is
  items,         \* <<object, value>>: list items the callback has not had
  doneSet,       \* the callback was done with an item
  revision,      \* retryWatch's revision
  lastRevision,  \* doWatch's, while a watch is open
  cancelled,     \* ctx is done
  listed,        \* the revision of the list
  accepted,      \* revisions the callback had and returned no error for
  faults

server == <<log, compacted>>
vars == <<server, pc, items, doneSet, revision, lastRevision, cancelled, listed, accepted,
          faults>>

Init ==
  /\ log = <<>> /\ compacted = 0
  /\ pc = "list"
  /\ items = {} /\ doneSet = FALSE
  /\ revision = 0 /\ lastRevision = 0
  /\ cancelled = FALSE
  /\ listed = NoRev /\ accepted = {}
  /\ faults = 0

\* The value an object has after the first n changes.
ValueAt(o, n) ==
  LET of == {i \in 1 .. n : log[i].obj = o} IN
  IF of = {} THEN Gone ELSE log[CHOOSE i \in of : \A j \in of : j <= i].val

\* The changes a watch opened at revision n sends.
Events(n) == {i \in n + 1 .. Len(log) : log[i].obj \in Selected}

Fault == faults < MaxFaults /\ faults' = faults + 1

Returned == {"done", "error", "terminal", "cancelled"}

Return(how) == pc' = how /\ UNCHANGED <<revision, lastRevision>>

---------------------------------------------------------------------------
(* The server, and the caller's context, as long as the call lasts.        *)

\* An object is created, updated or deleted; what is gone cannot be deleted again.
Change(o, v) ==
  /\ pc \notin Returned /\ Len(log) < MaxLog
  /\ v = Gone => ValueAt(o, Len(log)) # Gone
  /\ log' = Append(log, [obj |-> o, val |-> v])
  /\ UNCHANGED <<compacted, pc, items, doneSet, revision, lastRevision, cancelled, listed,
                 accepted, faults>>

Compact ==
  /\ pc \notin Returned /\ compacted < Len(log)
  /\ compacted' \in compacted + 1 .. Len(log)
  /\ UNCHANGED <<log, pc, items, doneSet, revision, lastRevision, cancelled, listed,
                 accepted, faults>>

Cancel ==
  /\ pc \notin Returned /\ ~cancelled
  /\ cancelled' = TRUE
  /\ UNCHANGED <<server, pc, items, doneSet, revision, lastRevision, listed, accepted,
                 faults>>

---------------------------------------------------------------------------
(* The list.                                                               *)

List ==
  /\ pc = "list"
  /\ items' = {<<o, ValueAt(o, Len(log))>> : o \in {s \in Selected : ValueAt(s, Len(log)) # Gone}}
  /\ listed' = Len(log)
  /\ pc' = "items"
  /\ UNCHANGED <<server, doneSet, revision, lastRevision, cancelled, accepted, faults>>

ListFails ==
  /\ pc = "list" /\ (cancelled \/ faults < MaxFaults)
  /\ faults' = IF cancelled THEN faults ELSE faults + 1
  /\ Return("error")
  /\ UNCHANGED <<server, items, doneSet, cancelled, listed, accepted>>

\* EachListItem goes on after an item the callback was done with.
Item(it) ==
  /\ pc = "items" /\ it \in items
  /\ items' = items \ {it}
  /\ doneSet' = (doneSet \/ it[2] \in Good)
  /\ UNCHANGED <<server, pc, revision, lastRevision, cancelled, listed, accepted, faults>>

\* Any error of the callback ends the iteration and the call, a conflict too.
ItemFails(it) ==
  /\ pc = "items" /\ it \in items /\ Fault
  /\ Return("error")
  /\ UNCHANGED <<server, items, doneSet, cancelled, listed, accepted>>

\* Mutant: the watch is not told where the list was.
ListForgotten ==
  /\ pc = "items" /\ items = {}
  /\ pc' = IF doneSet THEN "done" ELSE "dial"
  /\ UNCHANGED <<server, items, doneSet, revision, lastRevision, cancelled, listed, accepted,
                 faults>>

ListDone ==
  /\ pc = "items" /\ items = {}
  /\ pc' = IF doneSet THEN "done" ELSE "dial"
  /\ revision' = listed
  /\ UNCHANGED <<server, items, doneSet, lastRevision, cancelled, listed, accepted, faults>>

---------------------------------------------------------------------------
(* doWatch.                                                                *)

\* Mutant: a watch the server cannot serve from is tried again.
DialRetries ==
  /\ pc = "dial"
  /\ \/ /\ revision >= compacted
        /\ pc' = "watch" /\ lastRevision' = revision
     \/ revision < compacted /\ pc' = "restart" /\ lastRevision' = revision
  /\ UNCHANGED <<server, items, doneSet, revision, cancelled, listed, accepted, faults>>

\* watchFunc: a server that has forgotten a change after the revision says so, in
\* its answer (IsGone) or in an event of type Error; both are terminal.
Dial ==
  /\ pc = "dial"
  /\ \/ /\ revision >= compacted
        /\ pc' = "watch" /\ lastRevision' = revision
        /\ UNCHANGED revision
     \/ revision < compacted /\ Return("terminal")
  /\ UNCHANGED <<server, items, doneSet, cancelled, listed, accepted, faults>>

\* Any other error is logged, and the watch opened again.
DialFails ==
  /\ pc = "dial"
  /\ (cancelled \/ faults < MaxFaults)
  /\ faults' = IF cancelled THEN faults ELSE faults + 1
  /\ pc' = "restart" /\ lastRevision' = revision
  /\ UNCHANGED <<server, items, doneSet, revision, cancelled, listed, accepted>>

\* The next event of the watch: the callback accepts it.
Event(i) ==
  /\ pc = "watch" /\ i \in Events(lastRevision) /\ \A j \in Events(lastRevision) : i <= j
  /\ accepted' = accepted \cup {i}
  /\ \/ log[i].val \in Good /\ Return("done")
     \/ log[i].val \notin Good /\ lastRevision' = i /\ UNCHANGED <<pc, revision>>
  /\ UNCHANGED <<server, items, doneSet, cancelled, listed, faults>>

\* Mutant: lastRevision is advanced before the callback is called.
EventSkipped(i) ==
  /\ pc = "watch" /\ i \in Events(lastRevision) /\ \A j \in Events(lastRevision) : i <= j
  /\ Fault
  /\ lastRevision' = i /\ pc' = "restart"
  /\ UNCHANGED <<server, items, doneSet, revision, cancelled, listed, accepted>>

\* The callback returns a conflict: the event comes again with the next watch.
EventConflicts(i) ==
  /\ pc = "watch" /\ i \in Events(lastRevision) /\ \A j \in Events(lastRevision) : i <= j
  /\ Fault
  /\ pc' = "restart" /\ UNCHANGED <<revision, lastRevision>>
  /\ UNCHANGED <<server, items, doneSet, cancelled, listed, accepted>>

\* The callback returns another error, or the event is an Error.
WatchTerminal ==
  /\ pc = "watch" /\ Fault
  /\ Return("terminal")
  /\ UNCHANGED <<server, items, doneSet, cancelled, listed, accepted>>

\* A bookmark: the watch has sent every event up to revision i.
Bookmark(i) ==
  /\ pc = "watch" /\ i \in lastRevision + 1 .. Len(log)
  /\ \A j \in Events(lastRevision) : i < j
  /\ lastRevision' = i
  /\ UNCHANGED <<server, pc, items, doneSet, revision, cancelled, listed, accepted, faults>>

\* The server closes the watch, as it does every few minutes.
Closed ==
  /\ pc = "watch" /\ Fault
  /\ pc' = "restart" /\ UNCHANGED <<revision, lastRevision>>
  /\ UNCHANGED <<server, items, doneSet, cancelled, listed, accepted>>

\* Mutant: the pause between two watches does not look at ctx.
CancelledWatching ==
  /\ pc = "watch" /\ cancelled
  /\ Return("cancelled")
  /\ UNCHANGED <<server, items, doneSet, cancelled, listed, accepted, faults>>

\* ctx is done: doWatch returns a terminal error, retryWatch that of ctx.
Cancelled ==
  /\ pc \in {"watch", "restart"} /\ cancelled
  /\ Return("cancelled")
  /\ UNCHANGED <<server, items, doneSet, cancelled, listed, accepted, faults>>

\* After two seconds retryWatch tries again.
Restart ==
  /\ pc = "restart"
  /\ pc' = "dial" /\ revision' = lastRevision
  /\ UNCHANGED <<server, items, doneSet, lastRevision, cancelled, listed, accepted, faults>>

---------------------------------------------------------------------------
Receive == \E i \in 1 .. Len(log) : Event(i)

Next ==
  \/ \E o \in Selected \cup Others, v \in Values : Change(o, v)
  \/ Compact \/ Cancel
  \/ List \/ ListFails \/ ListDone
  \/ \E it \in items : Item(it) \/ ItemFails(it)
  \/ Dial \/ DialFails
  \/ Receive
  \/ \E i \in 1 .. Len(log) : EventConflicts(i) \/ Bookmark(i)
  \/ WatchTerminal \/ Closed \/ Cancelled \/ Restart

Spec == Init /\ [][Next]_vars

\* The watcher's own steps, and the server sends what it has.  Faults, bookmarks,
\* compactions and the cancellation of ctx need not happen.  A select with several
\* ready cases picks one at random, so that of a done ctx is not passed over for ever.
Fairness ==
  /\ WF_vars(List) /\ WF_vars(\E it \in items : Item(it)) /\ WF_vars(ListDone)
  /\ WF_vars(Dial) /\ WF_vars(Receive) /\ SF_vars(Cancelled) /\ WF_vars(Restart)

FairSpec == Spec /\ Fairness

---------------------------------------------------------------------------
(* Properties.                                                             *)

Pc == {"list", "items", "dial", "watch", "restart"} \cup Returned

\* Where the watch is, or where the next one will begin.
Reached == IF pc = "dial" THEN revision ELSE lastRevision

\* Types; a watch never begins before the list or beyond what has happened.
TypeOK ==
  /\ log \in Seq(Changes) /\ Len(log) <= MaxLog
  /\ compacted \in 0 .. Len(log)
  /\ pc \in Pc
  /\ items \subseteq Selected \X (Values \ {Gone})
  /\ doneSet \in BOOLEAN /\ cancelled \in BOOLEAN
  /\ revision \in 0 .. Len(log) /\ lastRevision \in 0 .. Len(log)
  /\ listed \in 0 .. Len(log) \cup {NoRev}
  /\ pc \in {"dial", "watch", "restart"} =>
       listed <= revision /\ (pc # "dial" => revision <= lastRevision)
  /\ accepted \subseteq 1 .. Len(log)
  /\ faults \in 0 .. MaxFaults

\* "There's no way to recover that wouldn't give the caller an inconsistent view of
\* the data" (comment in doWatch): over closed watches, refused ones, bookmarks and
\* conflicts of the callback, the callback accepts every change of the selected
\* objects after the list up to the revision reached, each of them, and nothing
\* again once it is behind.
NoGapNoRepeat ==
  pc \in {"dial", "watch", "restart"} =>
    accepted = {i \in Events(listed) : i <= Reached}

\* A value the callback is done with ends the call, even if the object has it only
\* for a moment, while a watch is being opened again, say; or an error does.
GoodEnds ==
  (listed # NoRev /\ \E i \in Events(listed) : log[i].val \in Good) ~> pc \in Returned

\* A cancelled ctx ends the call, wherever it is.
CancelEnds == cancelled ~> pc \in Returned
=============================================================================
