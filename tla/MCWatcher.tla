----------------------------- MODULE MCWatcher -----------------------------
(* Two objects the selector matches and one that it does not.              *)
EXTENDS Watcher

CONSTANTS a, b, other

MCSelected == {a, b}
MCOthers   == {other}
=============================================================================
