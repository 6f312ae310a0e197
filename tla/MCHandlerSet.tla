---------------------------- MODULE MCHandlerSet ----------------------------
(* Instances of HandlerSet for TLC. *)
EXTENDS HandlerSet, TLC

CONSTANTS app, secret, App, Secret, w1, w2, w3

\* An App handler that gets one Secret by name, or lists Secrets.
GetSecret   == [kind |-> Secret, name |-> {secret}, selector |-> FALSE]
ListSecrets == [kind |-> Secret, name |-> {}, selector |-> FALSE]
BySelector  == [kind |-> Secret, name |-> {}, selector |-> TRUE]

QueriesGet      == {GetSecret}
QueriesList     == {ListSecrets}
QueriesSelector == {BySelector}

AppWorkers == Permutations({w1, w2})

KindOfDef  == [o \in {app, secret} |-> IF o = app THEN App ELSE Secret]
ServesDef  == [w \in Workers |-> IF w = w3 THEN Secret ELSE App]
=============================================================================
