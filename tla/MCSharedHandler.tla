-------------------------- MODULE MCSharedHandler --------------------------
(* Three handlers, the second of them registered within a transaction.     *)
EXTENDS SharedHandler

CONSTANTS h1, h2, h3, k1, w1

MCHandlers == {h1, h2, h3}
MCDeferred == {h2}
MCKeys     == {k1}
MCWorkers  == {w1}
=============================================================================
