---------------------------- MODULE Watcher_proofs ----------------------------
(***************************************************************************)
(* The watcher skips no change and tells none twice, for any objects, any  *)
(* number of changes and of faults.                                        *)
(***************************************************************************)
EXTENDS Watcher, WellFoundedInduction, TLAPS

---------------------------------------------------------------------------
(* The last change of an object, which ValueAt chooses.                    *)

Less == {ss \in Nat \X Nat : ss[1] < ss[2]}

LEMMA SmallestOf ==
  ASSUME NEW T, T \subseteq Nat, T # {}
  PROVE  \E x \in T : \A y \in T : x <= y
<1>1. IsWellFoundedOn(Less, Nat)
  BY NatLessThanWellFounded, Zenon DEF OpToRel, Less
<1>2. PICK x \in T : \A y \in T : <<y, x>> \notin Less
  BY <1>1, WFMin, Zenon
<1>3. ASSUME NEW y \in T PROVE x <= y
  <2>1. x \in Nat /\ y \in Nat
    OBVIOUS
  <2>2. <<y, x>> \notin Less
    BY <1>2
  <2>3. ~(y < x)
    BY <2>1, <2>2 DEF Less
  <2> QED
    BY <2>1, <2>3
<1> QED
  BY <1>3

LEMMA LargestOf ==
  ASSUME NEW n \in Nat, NEW S, S \subseteq 0 .. n, S # {}
  PROVE  \E x \in S : \A y \in S : y <= x
<1> DEFINE T == {i \in 0 .. n : n - i \in S}
<1>1. PICK s \in S : s \in 0 .. n
  OBVIOUS
<1>2. n - s \in T
  BY <1>1
<1>3. T \subseteq Nat /\ T # {}
  BY <1>2
<1> HIDE DEF T
<1>4. PICK t \in T : \A y \in T : t <= y
  BY <1>3, SmallestOf, Zenon
<1>5. n - t \in S /\ t \in 0 .. n
  BY DEF T
<1>6. ASSUME NEW y \in S PROVE y <= n - t
  <2>1. y \in 0 .. n /\ n - (n - y) = y
    OBVIOUS
  <2>2. n - y \in T
    BY <2>1 DEF T
  <2> QED
    BY <1>4, <1>5, <2>1, <2>2
<1> QED
  BY <1>5, <1>6

LEMMA ValueAtType ==
  ASSUME NEW o, log \in Seq(Changes), NEW n \in 0 .. Len(log)
  PROVE  ValueAt(o, n) \in Values
<1> DEFINE of == {i \in 1 .. n : log[i].obj = o}
<1>1. CASE of = {}
  BY <1>1 DEF ValueAt, Values
<1>2. CASE of # {}
  <2>1. n \in Nat /\ of \subseteq 0 .. n
    <3>1. Len(log) \in Nat
      OBVIOUS
    <3> QED
      BY <3>1
  <2>2. \E x \in of : \A y \in of : y <= x
    BY <1>2, <2>1, LargestOf, Zenon
  <2> DEFINE m == CHOOSE i \in of : \A j \in of : j <= i
  <2>3. m \in of
    BY <2>2, Zenon
  <2>4. m \in 1 .. Len(log)
    BY <2>3
  <2> HIDE DEF m
  <2>5. log[m] \in Changes
    BY <2>4
  <2>6. log[m].val \in Values
    BY <2>5 DEF Changes
  <2> QED
    BY <1>2, <2>6 DEF ValueAt, m
<1> QED
  BY <1>1, <1>2

---------------------------------------------------------------------------
(* The invariant.                                                          *)

\* TypeOK, by the part of the state it is about.
Numbers ==
  /\ log \in Seq(Changes) /\ Len(log) <= MaxLog
  /\ compacted \in 0 .. Len(log)
  /\ revision \in 0 .. Len(log) /\ lastRevision \in 0 .. Len(log)
  /\ listed \in 0 .. Len(log) \cup {NoRev}
  /\ pc \in {"dial", "watch", "restart"} =>
       listed <= revision /\ (pc # "dial" => revision <= lastRevision)
  /\ accepted \subseteq 1 .. Len(log)
  /\ faults \in 0 .. MaxFaults

Control ==
  /\ pc \in Pc
  /\ items \subseteq Selected \X (Values \ {Gone})
  /\ doneSet \in BOOLEAN /\ cancelled \in BOOLEAN

LEMMA TypeParts == TypeOK <=> Numbers /\ Control
BY DEF TypeOK, Numbers, Control

\* Nothing is accepted before there is a watch, and the list has a revision by then.
Before ==
  /\ pc \in {"list", "items"} => accepted = {}
  /\ pc \in {"items", "dial", "watch", "restart"} => listed \in 0 .. Len(log)

IInv == Numbers /\ Control /\ Before /\ NoGapNoRepeat

LEMMA InitInv == ASSUME Init PROVE IInv
<1>1. /\ log = <<>> /\ compacted = 0 /\ pc = "list" /\ revision = 0 /\ lastRevision = 0
      /\ listed = NoRev /\ accepted = {} /\ faults = 0 /\ items = {}
  BY Zenon DEF Init
<1>2. Numbers
  BY <1>1, WatcherAssumption DEF Numbers
<1>3. Control
  BY DEF Init, Control, Pc
<1>4. Before /\ NoGapNoRepeat
  BY <1>1 DEF Before, NoGapNoRepeat
<1> QED
  BY <1>2, <1>3, <1>4 DEF IInv

\* The server's changes, and the end of ctx.
LEMMA ServerInv ==
  ASSUME IInv,
         \/ \E o \in Selected \cup Others, v \in Values : Change(o, v)
         \/ Compact \/ Cancel
  PROVE  IInv'
<1>1. ASSUME NEW o \in Selected \cup Others, NEW v \in Values, Change(o, v) PROVE IInv'
  <2> DEFINE c == [obj |-> o, val |-> v]
  <2>1. /\ Len(log) < MaxLog /\ log' = Append(log, c)
        /\ UNCHANGED <<compacted, pc, revision, lastRevision, listed, accepted, faults>>
    BY <1>1, Zenon DEF Change
  <2>2. c \in Changes
    BY DEF Changes
  <2> HIDE DEF c
  <2>3. log \in Seq(Changes) /\ Len(log) \in Nat
    BY DEF IInv, Numbers
  <2>4. /\ log' \in Seq(Changes) /\ Len(log') = Len(log) + 1
        /\ \A i \in 1 .. Len(log) : log'[i] = log[i]
    BY <2>1, <2>2, <2>3
  <2>5. Numbers'
    BY <2>1, <2>4, WatcherAssumption DEF IInv, Numbers, NoRev
  <2>6. Control'
    BY <1>1, <2>1 DEF IInv, Control, Change
  <2>7. Before'
    BY <2>1, <2>3, <2>4 DEF IInv, Before
  <2>8. NoGapNoRepeat'
    BY <2>1, <2>3, <2>4 DEF IInv, Numbers, Before, NoGapNoRepeat, Events, Reached
  <2> QED
    BY <2>5, <2>6, <2>7, <2>8 DEF IInv
<1>2. CASE Compact
  <2>1. /\ compacted < Len(log) /\ compacted' \in compacted + 1 .. Len(log)
        /\ UNCHANGED <<log, pc, revision, lastRevision, listed, accepted, faults>>
    BY <1>2, Zenon DEF Compact
  <2>2. Numbers'
    BY <2>1 DEF IInv, Numbers, NoRev
  <2>3. Control'
    BY <1>2 DEF IInv, Control, Compact
  <2>4. Before' /\ NoGapNoRepeat'
    BY <2>1 DEF IInv, Before, NoGapNoRepeat, Events, Reached
  <2> QED
    BY <2>2, <2>3, <2>4 DEF IInv
<1>3. CASE Cancel
  <2>1. UNCHANGED <<log, compacted, pc, revision, lastRevision, listed, accepted, faults>>
    BY <1>3 DEF Cancel, server
  <2>2. Numbers'
    BY <2>1 DEF IInv, Numbers, NoRev
  <2>3. Control'
    BY <1>3 DEF IInv, Control, Cancel
  <2>4. Before' /\ NoGapNoRepeat'
    BY <2>1 DEF IInv, Before, NoGapNoRepeat, Events, Reached
  <2> QED
    BY <2>2, <2>3, <2>4 DEF IInv
<1> QED
  BY <1>1, <1>2, <1>3

\* The call returns, or fails somewhere and begins again where it was.
LEMMA QuietInv ==
  ASSUME IInv, Control', log' = log, compacted' = compacted, listed' = listed,
         accepted' = accepted, faults' \in 0 .. MaxFaults,
         \/ pc' \in Returned /\ UNCHANGED <<revision, lastRevision>>
         \/ pc = "watch" /\ pc' = "restart" /\ UNCHANGED <<revision, lastRevision>>
         \/ pc = "items" /\ pc' = "items" /\ UNCHANGED <<revision, lastRevision>>
         \/ pc = "dial" /\ pc' \in {"watch", "restart"} /\ lastRevision' = revision
              /\ UNCHANGED revision
         \/ pc = "restart" /\ pc' = "dial" /\ revision' = lastRevision
              /\ UNCHANGED lastRevision
  PROVE  IInv'
<1>1. Numbers'
  BY DEF IInv, Numbers, NoRev, Returned
<1>2. Before'
  BY DEF IInv, Before, Returned
<1>3. NoGapNoRepeat'
  BY DEF IInv, NoGapNoRepeat, Events, Reached, Returned
<1> QED
  BY <1>1, <1>2, <1>3 DEF IInv

LEMMA FaultType == ASSUME IInv, Fault PROVE faults' \in 0 .. MaxFaults
BY WatcherAssumption DEF IInv, Numbers, Fault

LEMMA ListInv == ASSUME IInv, List \/ ListFails \/ ListDone PROVE IInv'
<1>1. CASE List
  <2>1. /\ pc = "list" /\ pc' = "items" /\ listed' = Len(log)
        /\ UNCHANGED <<log, compacted, revision, lastRevision, accepted, faults>>
    BY <1>1, Zenon DEF List, server
  <2>2. log \in Seq(Changes) /\ Len(log) \in Nat
    BY DEF IInv, Numbers
  <2>3. Numbers'
    BY <2>1, <2>2 DEF IInv, Numbers, NoRev
  <2>4. items' \subseteq Selected \X (Values \ {Gone})
    <3>1. \A o : ValueAt(o, Len(log)) \in Values
      BY <2>2, ValueAtType
    <3> QED
      BY <1>1, <3>1 DEF List
  <2>5. Control'
    BY <1>1, <2>1, <2>4 DEF IInv, Control, Pc, List
  <2>6. Before' /\ NoGapNoRepeat'
    BY <2>1, <2>2 DEF IInv, Before, NoGapNoRepeat
  <2> QED
    BY <2>3, <2>5, <2>6 DEF IInv
<1>2. CASE ListFails
  <2>1. Control'
    BY <1>2 DEF IInv, Control, Pc, ListFails, Return, Returned
  <2>2. faults' \in 0 .. MaxFaults
    BY <1>2, WatcherAssumption DEF IInv, Numbers, ListFails
  <2>3. pc' = "error" /\ UNCHANGED <<log, compacted, listed, accepted, revision, lastRevision>>
    BY <1>2, Zenon DEF ListFails, Return, server
  <2> QED
    BY <2>1, <2>2, <2>3, QuietInv DEF Returned
<1>3. CASE ListDone
  <2>1. /\ pc = "items" /\ pc' \in {"done", "dial"} /\ revision' = listed
        /\ UNCHANGED <<log, compacted, lastRevision, listed, accepted, faults>>
    BY <1>3 DEF ListDone, server
  <2>2. Numbers'
    BY <2>1 DEF IInv, Numbers, Before, NoRev
  <2>3. Control'
    BY <1>3 DEF IInv, Control, Pc, ListDone, Returned
  <2>4. Before'
    BY <2>1 DEF IInv, Before
  <2>5. accepted = {} /\ {i \in Events(listed) : i <= listed} = {}
    BY <2>1 DEF IInv, Numbers, Before, Events
  <2>6. NoGapNoRepeat'
    BY <2>1, <2>5 DEF NoGapNoRepeat, Events, Reached
  <2> QED
    BY <2>2, <2>3, <2>4, <2>6 DEF IInv
<1> QED
  BY <1>1, <1>2, <1>3

\* The callback has a list item, or the watch begins or ends.
LEMMA OtherInv ==
  ASSUME IInv,
         \/ \E it \in items : Item(it) \/ ItemFails(it)
         \/ Dial \/ DialFails
         \/ \E i \in 1 .. Len(log) : EventConflicts(i)
         \/ WatchTerminal \/ Closed \/ Cancelled \/ Restart
  PROVE  IInv'
<1>1. Control'
  BY DEF IInv, Control, Pc, Item, ItemFails, Dial, DialFails, EventConflicts, WatchTerminal,
         Closed, Cancelled, Restart, Return, Returned
<1>2. faults \in 0 .. MaxFaults
  BY DEF IInv, Numbers
<1>3. UNCHANGED <<log, compacted, listed, accepted>>
  BY DEF Item, ItemFails, Dial, DialFails, EventConflicts, WatchTerminal, Closed, Cancelled,
         Restart, server
<1>4. faults' \in 0 .. MaxFaults
  <2>1. faults' = faults \/ (faults < MaxFaults /\ faults' = faults + 1)
    BY DEF Item, ItemFails, Dial, DialFails, EventConflicts, WatchTerminal, Closed, Cancelled,
           Restart, Fault
  <2> QED
    BY <1>2, <2>1, WatcherAssumption
<1>5. \/ pc' \in Returned /\ UNCHANGED <<revision, lastRevision>>
      \/ pc = "watch" /\ pc' = "restart" /\ UNCHANGED <<revision, lastRevision>>
      \/ pc = "items" /\ pc' = "items" /\ UNCHANGED <<revision, lastRevision>>
      \/ pc = "dial" /\ pc' \in {"watch", "restart"} /\ lastRevision' = revision
           /\ UNCHANGED revision
      \/ pc = "restart" /\ pc' = "dial" /\ revision' = lastRevision
           /\ UNCHANGED lastRevision
  BY DEF Item, ItemFails, Dial, DialFails, EventConflicts, WatchTerminal, Closed, Cancelled,
         Restart, Return, Returned
<1> QED
  BY <1>1, <1>3, <1>4, <1>5, QuietInv

\* The callback accepts the next event, or the watch says that there was none.
LEMMA WatchInv == ASSUME IInv, NEW i \in 1 .. Len(log), Event(i) \/ Bookmark(i) PROVE IInv'
<1>1. Control'
  <2>1. pc' \in {pc, "done"} /\ UNCHANGED <<items, doneSet, cancelled>>
    BY Zenon DEF Event, Bookmark, Return
  <2> QED
    BY <2>1 DEF IInv, Control, Pc, Returned
<1>2. /\ log \in Seq(Changes) /\ Len(log) \in Nat
      /\ listed \in 0 .. Len(log) /\ revision \in 0 .. Len(log)
      /\ lastRevision \in 0 .. Len(log)
      /\ pc = "watch" => listed <= revision /\ revision <= lastRevision
  BY DEF IInv, Numbers, Before, Event, Bookmark
<1>3. CASE Event(i)
  <2>1. /\ pc = "watch" /\ i \in Events(lastRevision)
        /\ \A j \in Events(lastRevision) : i <= j
        /\ accepted' = accepted \cup {i}
        /\ \/ pc' = "done" /\ UNCHANGED <<revision, lastRevision>>
           \/ pc' = "watch" /\ lastRevision' = i /\ UNCHANGED revision
        /\ UNCHANGED <<log, compacted, listed, faults>>
    BY <1>3, Zenon DEF Event, Return, server
  <2>2. Numbers'
    BY <2>1, <1>2 DEF IInv, Numbers, NoRev, Events
  <2>3. Before'
    BY <2>1 DEF IInv, Before
  <2>4. accepted = {j \in Events(listed) : j <= lastRevision}
    BY <2>1 DEF IInv, NoGapNoRepeat, Reached
  <2>5. accepted \cup {i} = {j \in Events(listed) : j <= i}
    BY <2>1, <2>4, <1>2 DEF Events
  <2>6. NoGapNoRepeat'
    BY <2>1, <2>5 DEF NoGapNoRepeat, Events, Reached
  <2> QED
    BY <1>1, <2>2, <2>3, <2>6 DEF IInv
<1>4. CASE Bookmark(i)
  <2>1. /\ pc = "watch" /\ pc' = "watch" /\ i \in lastRevision + 1 .. Len(log)
        /\ \A j \in Events(lastRevision) : i < j
        /\ lastRevision' = i
        /\ UNCHANGED <<log, compacted, revision, listed, accepted, faults>>
    BY <1>4, Zenon DEF Bookmark, server
  <2>2. Numbers'
    BY <2>1, <1>2 DEF IInv, Numbers, NoRev
  <2>3. Before'
    BY <2>1 DEF IInv, Before
  <2>4. accepted = {j \in Events(listed) : j <= lastRevision}
    BY <2>1 DEF IInv, NoGapNoRepeat, Reached
  <2>5. accepted = {j \in Events(listed) : j <= i}
    BY <2>1, <2>4, <1>2 DEF Events
  <2>6. NoGapNoRepeat'
    BY <2>1, <2>5 DEF NoGapNoRepeat, Events, Reached
  <2> QED
    BY <1>1, <2>2, <2>3, <2>6 DEF IInv
<1> QED
  BY <1>3, <1>4

LEMMA StutterInv == ASSUME IInv, UNCHANGED vars PROVE IInv'
BY DEF IInv, Numbers, Control, Before, NoGapNoRepeat, Events, Reached, NoRev, vars, server

LEMMA StepInv == IInv /\ [Next]_vars => IInv'
BY ServerInv, ListInv, OtherInv, WatchInv, StutterInv, Zenon DEF Next, Receive

LEMMA WatcherInvariant == Spec => []IInv
<1>1. Init => IInv
  BY InitInv
<1> QED
  BY <1>1, StepInv, PTL DEF Spec

---------------------------------------------------------------------------
\* A watch begins at the revision of the list or later and never beyond what has
\* happened (watcher.go), for any objects and any number of changes and faults.
THEOREM WatcherTypes == Spec => []TypeOK
<1>1. IInv => TypeOK
  BY TypeParts DEF IInv
<1> QED
  BY <1>1, WatcherInvariant, PTL

\* However often watches end, are refused or run into conflicts, the callback of
\* retryWatch and doWatch accepts every change after the list once and in order.
THEOREM NothingSkipped == Spec => []NoGapNoRepeat
<1>1. IInv => NoGapNoRepeat
  BY DEF IInv
<1> QED
  BY <1>1, WatcherInvariant, PTL
=============================================================================
