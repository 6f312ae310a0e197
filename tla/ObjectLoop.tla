----------------------------- MODULE ObjectLoop -----------------------------
(***************************************************************************)
(* What pkg/router promises an object that has handlers, whatever keys,    *)
(* queues, limiters, locks and triggers it does it with: the handlers of   *)
(* an object never run twice at the same time, nor while what they asked   *)
(* for is being saved; they are given the object as it is, or they will    *)
(* run again; a run that failed is owed again; and a run that is owed is   *)
(* owed until the handlers begin.                                          *)
(***************************************************************************)
CONSTANTS
  Objects,    \* the objects that have handlers
  Values,     \* what an object may be
  Missing     \* what it is when it is not there

VARIABLES
  state,      \* [Objects -> Values]
  owed,       \* objects whose handlers are to run (again)
  given,      \* the object that the running handlers were given: {v}, or {}
  saving,     \* objects whose run has returned from the handlers
  reconciled  \* what the handlers last ran with without an error

vars == <<state, owed, given, saving, reconciled>>

Init ==
  /\ state \in [Objects -> Values]
  /\ owed = {o \in Objects : state[o] # Missing}
  /\ given = [o \in Objects |-> {}]
  /\ saving = {}
  /\ reconciled = [o \in Objects |-> Missing]

Change(o) ==
  /\ \E v \in Values : state' = [state EXCEPT ![o] = v]
  /\ owed' = owed \cup {o}
  /\ UNCHANGED <<given, saving, reconciled>>

\* Triggers, and the first watch of a kind.
Ask(S) ==
  /\ owed' = owed \cup S
  /\ UNCHANGED <<state, given, saving, reconciled>>

\* A run may still be owed, and is if the object that was read is out of date.
Begin(o) ==
  /\ o \in owed \ saving /\ given[o] = {}
  /\ \E v \in Values :
       /\ given' = [given EXCEPT ![o] = {v}]
       /\ \/ UNCHANGED owed
          \/ v = state[o] /\ owed' = owed \ {o}
  /\ UNCHANGED <<state, saving, reconciled>>

\* An error that is ignored ends the run here.
Return(o) ==
  /\ \E v \in given[o] : reconciled' = [reconciled EXCEPT ![o] = v]
  /\ given' = [given EXCEPT ![o] = {}]
  /\ saving' \in {saving, saving \cup {o}}
  /\ UNCHANGED <<state, owed>>

Fail(o) ==
  /\ given[o] # {}
  /\ given' = [given EXCEPT ![o] = {}]
  /\ owed' = owed \cup {o}
  /\ UNCHANGED <<state, saving, reconciled>>

\* What follows the handlers may fail, or the handlers have asked to run again.
Finish(o) ==
  /\ o \in saving
  /\ saving' = saving \ {o}
  /\ owed' \in {owed, owed \cup {o}}
  /\ UNCHANGED <<state, given, reconciled>>

Next ==
  \/ \E S \in SUBSET Objects : Ask(S)
  \/ \E o \in Objects : Change(o) \/ Begin(o) \/ Return(o) \/ Fail(o) \/ Finish(o)

Spec == Init /\ [][Next]_vars
=============================================================================
