---------------------------- MODULE MCFinalizer ----------------------------
(* An instance of Finalizer for TLC: two routes, and one finalizer of others. *)
EXTENDS Finalizer

CONSTANTS f1, f2, g

\* Two finalizing routes; the second one selects by label.
TwoRoutes ==
  <<[finalizer |-> f1, selector |-> FALSE], [finalizer |-> f2, selector |-> TRUE]>>

\* A new object, and one that was deleted while an earlier process was away.
NewOrDeleted ==
  LET new1 == [rev |-> 1, uid |-> 1, label |-> TRUE, deleting |-> FALSE, finalizers |-> <<>>]
  IN  {new1, [new1 EXCEPT !.deleting = TRUE, !.finalizers = <<f2, f1>>]}
=============================================================================
