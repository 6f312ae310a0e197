----------------------------- MODULE MCStartup -----------------------------
(* Instances of Startup for TLC: two routers that share a backend. *)
EXTENDS Startup

CONSTANTS r1, r2, App, Secret

\* Both handle Apps, and their handlers read Secrets.
HandledDef == [r \in Routers |-> {App}]
NeedsDef   == [r \in Routers |-> {Secret}]
=============================================================================
