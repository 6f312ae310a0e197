------------------------------ MODULE KeyQueue ------------------------------
(***************************************************************************)
(* What pkg/runtime/controller.go promises its callers, whatever threads,  *)
(* queues and timers it does it with: a key that was asked for is due until*)
(* the handler is called with it, requests for a key that is due already   *)
(* are one request, a key is never served twice at the same time, a failed *)
(* key is due again, and only a controller that is closed drops keys.      *)
(***************************************************************************)
CONSTANT Keys

VARIABLES
  due,       \* keys asked for and not served since
  serving,   \* keys whose handler runs
  closed     \* the controller takes no more requests

vars == <<due, serving, closed>>

Init == due = {} /\ serving = {} /\ closed = FALSE

Request(k) ==
  /\ ~closed
  /\ due' = due \cup {k}
  /\ UNCHANGED <<serving, closed>>

\* A key that was also asked for later, with a delay, stays due.
Serve(k) ==
  /\ k \in due \ serving
  /\ serving' = serving \cup {k}
  /\ due' \in {due, due \ {k}}
  /\ UNCHANGED closed

Finish(k) ==
  /\ k \in serving
  /\ serving' = serving \ {k}
  /\ \/ UNCHANGED due
     \/ ~closed /\ due' = due \cup {k}
  /\ UNCHANGED closed

\* Keys that are due may be dropped, keys being served are not interrupted.
Close ==
  /\ ~closed
  /\ closed' = TRUE
  /\ due' \in SUBSET due
  /\ UNCHANGED serving

Next == Close \/ \E k \in Keys : Request(k) \/ Serve(k) \/ Finish(k)

Spec == Init /\ [][Next]_vars
=============================================================================
