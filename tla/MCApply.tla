------------------------------ MODULE MCApply ------------------------------
(* Instances of Apply for TLC: two owners and the objects they want. *)
EXTENDS Apply

CONSTANTS svc, eps, Service, f, t

KindOfDef == [k \in Keys |-> Service]

Owner(sub, name, ns) == [sub |-> sub, gvk |-> <<"App">>, name |-> name, ns |-> ns]

\* One App under two routers; the second may take over from the first.
Old == Owner(<<"r">>, <<"a">>, <<"x">>)
New == Owner(<<"s">>, <<"a">>, <<"x">>)
RoutersDef == {Old, New}
Handover   == {<<(<<"r">>), (<<"s">>)>>}

\* Two Apps of one router: a in namespace bc, and ab in namespace c.
AppA    == Owner(<<"r">>, <<"a">>, <<"b", "c">>)
AppAB   == Owner(<<"r">>, <<"a", "b">>, <<"c">>)
AppsDef == {AppA, AppAB}

\* One owner alone.
AloneDef == {New}

Thing(vf, vt) == [content |-> [x \in Fields |-> IF x = f THEN vf ELSE vt], note |-> NoNote]
Just(v)       == [k \in {svc} |-> v]

\* The first owner wants a Service or none; so does the second, which never sets f.
OptionsDef ==
  [o \in Owners |-> IF o = Old THEN {Empty, Just(Thing(1, 1))}
                   ELSE {Empty, Just(Thing(Unset, 1))}]

AppOptions == [o \in Owners |-> {Empty, Just(Thing(1, 1))}]

\* A Service of another type, which takes a replacement; and an object with the
\* labels of the first owner's Service.  Neither has annotations.
Bare(hash, content) ==
  [hash |-> hash, owner |-> NoOwner, content |-> content, applied |-> {},
   note |-> NoNote, deleting |-> FALSE]
OtherType == {<<svc, Bare(<<>>, Thing(Unset, 2).content)>>}
Copies    == {<<eps, Bare(objectSetHash(Old), [x \in Fields |-> Unset])>>} \cup OtherType
=============================================================================
