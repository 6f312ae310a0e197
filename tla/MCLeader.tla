------------------------------ MODULE MCLeader ------------------------------
(* Two replicas.                                                           *)
EXTENDS Leader

CONSTANTS a, b

MCReplicas == {a, b}
=============================================================================
