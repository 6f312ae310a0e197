----------------------------- MODULE WorkQueue -----------------------------
(***************************************************************************)
(* The rate limiting work queue of client-go (k8s.io/client-go/util/       *)
(* workqueue) as pkg/runtime/controller.go uses it.  External: modelled    *)
(* from the calls the controller makes.  A queue is a record               *)
(*   dirty       keys that need processing                                 *)
(*   processing  keys handed out by Get and not yet given back with Done   *)
(*   delayed     keys waiting in AddAfter or AddRateLimited                *)
(*   shut        ShutDown has been called                                  *)
(* A key is ready when it is dirty and not being processed.  The order of  *)
(* the ready keys is left out: the fairness of Get stands for it.          *)
(***************************************************************************)
QueueOf(Keys) == [dirty: SUBSET Keys, processing: SUBSET Keys,
                  delayed: SUBSET Keys, shut: BOOLEAN]

EmptyQueue == [dirty |-> {}, processing |-> {}, delayed |-> {}, shut |-> FALSE]

Ready(q) == q.dirty \ q.processing

\* Add of every key of a set: nothing once the queue is shut down.
Add(q, keys) ==
  IF q.shut THEN q ELSE [q EXCEPT !.dirty = @ \cup keys]

\* AddAfter and AddRateLimited: the key becomes dirty when its timer fires.
AddAfter(q, keys) ==
  IF q.shut THEN q ELSE [q EXCEPT !.delayed = @ \cup keys]

\* The timer of a delayed key fires.
Fire(q, key) == Add([q EXCEPT !.delayed = @ \ {key}], {key})

Get(q, key) == [q EXCEPT !.dirty = @ \ {key}, !.processing = @ \cup {key}]

Done(q, key) == [q EXCEPT !.processing = @ \ {key}]

\* ShutDown: delayed keys are dropped, ready ones are still handed out.
ShutDown(q) == [q EXCEPT !.delayed = {}, !.shut = TRUE]
=============================================================================
