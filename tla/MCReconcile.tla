---------------------------- MODULE MCReconcile ----------------------------
(* Three routes: a plain one that asks for objects and for later runs; one *)
(* that is also called when the object is being deleted or is gone, and    *)
(* that updates it; and one behind a selector.  The first and the last     *)
(* have the middleware, so that an Update comes after a condition was set, *)
(* and before one is set again, or is not.                                 *)
EXTENDS Reconcile

Plain    == [removed |-> FALSE, finalizing |-> FALSE, selector |-> FALSE, wrapped |-> TRUE,
             asks |-> TRUE, writes |-> FALSE]
Removed  == [removed |-> TRUE, finalizing |-> FALSE, selector |-> FALSE, wrapped |-> FALSE,
             asks |-> FALSE, writes |-> TRUE]
Selected == [removed |-> FALSE, finalizing |-> TRUE, selector |-> TRUE, wrapped |-> TRUE,
             asks |-> FALSE, writes |-> FALSE]

MCRoutes == <<Plain, Removed, Selected>>
MCBoth   == {TRUE, FALSE}
=============================================================================
