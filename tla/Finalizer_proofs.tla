-------------------------- MODULE Finalizer_proofs --------------------------
(***************************************************************************)
(* The types of the client and of the routes that finalize an object, what *)
(* is remembered included, and that a finalizer of ours goes only after    *)
(* its handler and one of others only by others, for any routes, labels    *)
(* and finalizers.                                                         *)
(***************************************************************************)
EXTENDS Finalizer, SequenceTheorems, TLAPS

Finalizers == Ours \cup Foreign
Objects    == Object \cup {NotFound}

\* What may be sent to the server: an object that is created has no version.
Sent == [rev : Nat, uid : Nat, label : BOOLEAN, deleting : BOOLEAN, finalizers : Seq(Finalizers)]

\* What the process has of the object, anywhere.
Copies == {informer, obj, new} \cup recent \cup pending

\* TypeOK, apart from which object is remembered.
Types ==
  /\ {server, informer, obj, new} \cup pending \subseteq Objects
  /\ recent \subseteq Object
  /\ version \in Nat
  /\ alias \in {"none", "obj", "new"}
  /\ pc \in {"idle", "get", "recent", "handle", "status", "remove"}
  /\ route \in 1 .. Len(Routes) + 1
  /\ due \in BOOLEAN /\ delay \in BOOLEAN /\ returned \in BOOLEAN /\ again \in BOOLEAN
  /\ cleaned \subseteq Nat \X Ours
  /\ inputs \in 0 .. MaxInputs

\* The worker has an object of its own remembered only between the routes and after a
\* write of the status.
Aliases ==
  /\ \A a, b \in recent : a = b
  /\ alias = "obj" => recent = {obj}
  /\ alias = "new" => recent = {new}
  /\ pc \in {"idle", "get", "recent"} => alias = "none"
  /\ alias = "new" => pc = "remove"

\* While a handler's copy is written it is the turn of the route's finalizer.
Turns ==
  pc \in {"status", "remove"} =>
    route \in 1 .. Len(Routes) /\ obj \in Object /\ obj.deleting /\ Turn

\* Versions are given out once; an object without finalizers is not kept.
Versions ==
  /\ server.rev <= version /\ \A v \in Copies : v.rev <= version
  /\ ~ Gone(server)

\* Version v, with the finalizers q, lacks no finalizer of the object s of the same
\* version, but for those whose handlers have succeeded (c).
Covers(v, q, s, c) ==
  v.rev = s.rev =>
    /\ v.uid = s.uid
    /\ \A f \in Finalizers :
         Contains(s.finalizers, f) => Contains(q, f) \/ <<s.uid, f>> \in c

Covered ==
  /\ \A v \in Copies : Covers(v, v.finalizers, server, cleaned)
  /\ pc = "status" => new = obj
  /\ pc = "remove" => new.uid = obj.uid /\ Covers(new, obj.finalizers, server, cleaned)
  /\ pc \in {"status", "remove"} /\ ~ delay => <<obj.uid, finalizer>> \in cleaned

TInv == Types /\ Aliases /\ Turns /\ Versions

---------------------------------------------------------------------------
(* Objects.                                                                *)

LEMMA Fields ==
  ASSUME NEW o \in Objects
  PROVE  /\ o.rev \in Nat /\ o.uid \in Nat /\ o.label \in BOOLEAN /\ o.deleting \in BOOLEAN
         /\ o.finalizers \in Seq(Finalizers)
         /\ o \in Object <=> o.rev > 0
         /\ o.rev = 0 <=> o = NotFound
<1>1. CASE o \in Object
  <2>1. o.rev \in Nat \ {0} /\ NotFound.rev = 0
    BY <1>1 DEF Object, NotFound
  <2> QED
    BY <1>1, <2>1 DEF Object, Finalizers
<1>2. CASE o = NotFound
  <2>1. NotFound.finalizers \in Seq(Finalizers)
    BY EmptySeq DEF NotFound
  <2>2. NotFound.rev = 0 /\ NotFound \notin Object
    BY DEF NotFound, Object
  <2>3. NotFound.uid \in Nat /\ NotFound.label \in BOOLEAN /\ NotFound.deleting \in BOOLEAN
    BY DEF NotFound
  <2> QED
    BY <1>2, <2>1, <2>2, <2>3
<1> QED
  BY <1>1, <1>2 DEF Objects

LEMMA ObjectsSent == Objects \subseteq Sent
<1>1. NotFound \in Sent
  <2>1. <<>> \in Seq(Finalizers)
    BY EmptySeq
  <2> QED
    BY <2>1 DEF NotFound, Sent
<1>2. Object \subseteq Sent
  BY DEF Object, Sent, Finalizers
<1> QED
  BY <1>1, <1>2 DEF Objects

LEMMA NotFoundFields ==
  /\ NotFound \in Objects /\ NotFound \notin Object /\ NotFound.rev = 0 /\ NotFound.uid = 0
  /\ NotFound.finalizers = <<>> /\ ~ Gone(NotFound) /\ ~ Exists(NotFound)
  /\ \A f : ~ Contains(NotFound.finalizers, f)
BY DEF Objects, Object, NotFound, Gone, Exists, Contains

LEMMA SetFinalizers ==
  ASSUME NEW o \in Object, NEW q \in Seq(Finalizers)
  PROVE  LET n == [o EXCEPT !.finalizers = q] IN
         /\ n \in Object /\ n.rev = o.rev /\ n.uid = o.uid /\ n.deleting = o.deleting
         /\ n.finalizers = q
BY DEF Object, Finalizers

\* A list keeps every finalizer but one, or gets one more.
LEMMA RemoveAtFields ==
  ASSUME NEW q \in Seq(Finalizers), NEW i \in 1 .. Len(q)
  PROVE  /\ RemoveAt(q, i) \in Seq(Finalizers)
         /\ \A f : Contains(q, f) /\ f # q[i] => Contains(RemoveAt(q, i), f)
<1> DEFINE a == SubSeq(q, 1, i - 1)
           b == SubSeq(q, i + 1, Len(q))
<1>1. Len(q) \in Nat /\ \A j \in 1 .. Len(q) : q[j] \in Finalizers
  BY ElementOfSeq, LenProperties
<1>2. a \in Seq(Finalizers) /\ Len(a) = i - 1 /\ \A j \in 1 .. i - 1 : a[j] = q[j]
  <2>1. \A j \in 1 .. i - 1 : q[j] \in Finalizers
    BY <1>1
  <2>2. /\ a \in Seq(Finalizers) /\ Len(a) = IF 1 <= i - 1 THEN i - 1 - 1 + 1 ELSE 0
        /\ \A j \in 1 .. i - 1 - 1 + 1 : a[j] = q[1 + j - 1]
    BY <2>1, SubSeqProperties
  <2> QED
    BY <2>2
<1>3. b \in Seq(Finalizers) /\ Len(b) = Len(q) - i /\ \A j \in 1 .. Len(q) - i : b[j] = q[i + j]
  <2>1. \A j \in i + 1 .. Len(q) : q[j] \in Finalizers
    BY <1>1
  <2>2. /\ b \in Seq(Finalizers)
        /\ Len(b) = IF i + 1 <= Len(q) THEN Len(q) - (i + 1) + 1 ELSE 0
        /\ \A j \in 1 .. Len(q) - (i + 1) + 1 : b[j] = q[(i + 1) + j - 1]
    BY <1>1, <2>1, SubSeqProperties
  <2> QED
    BY <1>1, <2>2
<1>4. RemoveAt(q, i) = a \o b
  BY DEF RemoveAt
<1> HIDE DEF a, b
<1>5. /\ a \o b \in Seq(Finalizers) /\ Len(a \o b) = Len(q) - 1
      /\ \A j \in 1 .. i - 1 : (a \o b)[j] = q[j]
      /\ \A j \in i .. Len(q) - 1 : (a \o b)[j] = q[j + 1]
  BY <1>1, <1>2, <1>3, ConcatProperties
<1>6. ASSUME NEW f, Contains(q, f), f # q[i] PROVE Contains(a \o b, f)
  <2>1. PICK j \in 1 .. Len(q) : q[j] = f /\ j # i
    BY <1>6 DEF Contains
  <2>2. CASE j < i
    <3>1. j \in 1 .. Len(q) - 1 /\ (a \o b)[j] = f
      BY <1>1, <1>5, <2>1, <2>2
    <3> QED
      BY <1>5, <3>1 DEF Contains
  <2>3. CASE j > i
    <3>1. j - 1 \in i .. Len(q) - 1 /\ (j - 1) + 1 = j
      BY <1>1, <2>1, <2>3
    <3>2. (a \o b)[j - 1] = f
      BY <1>5, <2>1, <3>1
    <3>3. j - 1 \in 1 .. Len(a \o b)
      BY <1>1, <1>5, <3>1
    <3> QED
      BY <3>2, <3>3 DEF Contains
  <2> QED
    BY <2>1, <2>2, <2>3
<1> QED
  BY <1>4, <1>5, <1>6

LEMMA AppendFields ==
  ASSUME NEW q \in Seq(Finalizers), NEW g \in Finalizers
  PROVE  /\ Append(q, g) \in Seq(Finalizers) /\ Append(q, g) # <<>>
         /\ \A f : Contains(q, f) => Contains(Append(q, g), f)
BY DEF Contains

LEMMA TailFields ==
  ASSUME NEW q \in Seq(Finalizers), q # <<>>
  PROVE  /\ Tail(q) \in Seq(Finalizers)
         /\ \A f : Contains(q, f) /\ f # Head(q) => Contains(Tail(q), f)
<1>1. /\ Tail(q) \in Seq(Finalizers) /\ Len(Tail(q)) = Len(q) - 1 /\ Len(q) \in Nat
      /\ \A i \in 1 .. Len(Tail(q)) : Tail(q)[i] = q[i + 1]
      /\ Head(q) = q[1]
  BY HeadTailProperties, LenProperties
<1>2. ASSUME NEW f, Contains(q, f), f # Head(q) PROVE Contains(Tail(q), f)
  <2>1. PICK i \in 1 .. Len(q) : q[i] = f /\ i # 1
    BY <1>1, <1>2 DEF Contains
  <2>2. i - 1 \in 1 .. Len(Tail(q)) /\ Tail(q)[i - 1] = f
    BY <1>1, <2>1
  <2> QED
    BY <2>2 DEF Contains
<1> QED
  BY <1>1, <1>2

LEMMA WrittenFields ==
  ASSUME NEW o \in Sent, version \in Nat
  PROVE  /\ Written(o) \in Object /\ Written(o).rev = version + 1 /\ Written(o).uid = o.uid
         /\ Written(o).finalizers = o.finalizers /\ Gone(Written(o)) = Gone(o)
<1>1. version + 1 \in Nat \ {0}
  OBVIOUS
<1> QED
  BY <1>1 DEF Sent, Finalizers, Object, Written, Gone

\* A write gives out a new version, and what it writes is there, unless it is gone.
LEMMA WriteFields ==
  ASSUME NEW o \in Sent, version \in Nat, Write(o)
  PROVE  /\ server' \in Objects /\ version' = version + 1 /\ version' \in Nat
         /\ server' = NotFound \/ server' = Written(o)
         /\ server'.rev <= version' /\ (server'.rev = 0 \/ server'.rev = version + 1)
         /\ ~ Gone(server')
         /\ \A f : Contains(server'.finalizers, f) <=> Contains(o.finalizers, f)
         /\ \A f : Contains(o.finalizers, f) => server'.uid = o.uid
<1>1. version + 1 \in Nat /\ version' = version + 1
  BY DEF Write
<1>2. CASE Gone(o)
  <2>1. \A f : ~ Contains(o.finalizers, f)
    BY <1>2 DEF Gone, Contains
  <2> QED
    BY <1>1, <1>2, <2>1, NotFoundFields DEF Write
<1>3. CASE ~ Gone(o)
  BY <1>1, <1>3, WrittenFields DEF Write, Objects
<1> QED
  BY <1>2, <1>3

LEMMA AnswerFields ==
  ASSUME NEW o \in Object, version \in Nat
  PROVE  /\ Answer(o) \in Object /\ Answer(o).uid = o.uid
         /\ Answer(o).finalizers = o.finalizers
         /\ Answer(o).rev = o.rev \/ Answer(o).rev = version + 1
BY WrittenFields, ObjectsSent DEF Answer, Objects

\* A call either writes, from the latest version, or leaves the server alone; when it
\* says that it succeeded it has written.
LEMMA CallCases ==
  ASSUME NEW base, NEW o, NEW ok \in BOOLEAN, Call(base, o, ok), inputs \in 0 .. MaxInputs
  PROVE  /\ \/ Accepts(base) /\ Write(o)
            \/ ~ ok /\ UNCHANGED <<server, version>>
         /\ inputs' \in 0 .. MaxInputs
BY CacheClientAssumption DEF Call, Input

\* Versions that were given out before a write say nothing of the new one.
LEMMA CoversAfterWrite ==
  ASSUME NEW o \in Sent, version \in Nat, Write(o),
         NEW v \in Objects, v.rev <= version, NEW q, NEW c
  PROVE  Covers(v, q, server', c)
<1> SUFFICES ASSUME v.rev = server'.rev
             PROVE  /\ v.uid = server'.uid /\ \A f : ~ Contains(server'.finalizers, f)
  BY DEF Covers
<1>1. server' \in Objects /\ server'.rev = 0 /\ v.rev = 0
  BY WriteFields, Fields
<1>2. server' = NotFound /\ v = NotFound
  BY <1>1, Fields
<1> QED
  BY <1>2, NotFoundFields

\* What the writer gets back is the new version, or a version of what is gone.
LEMMA CoversAnswer ==
  ASSUME NEW o \in Object, version \in Nat, Write(o), o.rev <= version, NEW c
  PROVE  /\ Answer(o).rev <= version'
         /\ Covers(Answer(o), Answer(o).finalizers, server', c)
<1>1. CASE Gone(o)
  <2>1. Answer(o) = o /\ server' = NotFound /\ o.rev # 0
    BY <1>1, Fields DEF Answer, Write, Objects
  <2> QED
    BY <1>1, <2>1, NotFoundFields, Fields DEF Covers, Write, Objects
<1>2. CASE ~ Gone(o)
  <2>1. Answer(o) = server'
    BY <1>2 DEF Answer, Write
  <2> QED
    BY <2>1, WriteFields, ObjectsSent DEF Covers, Objects
<1> QED
  BY <1>1, <1>2

LEMMA RoutesTyped ==
  /\ Len(Routes) \in Nat
  /\ \A i \in 1 .. Len(Routes) : Routes[i].finalizer \in Ours
<1>1. \A i \in 1 .. Len(Routes) : Routes[i] \in [finalizer : Ours, selector : BOOLEAN]
  BY FinalizerAssumption, ElementOfSeq
<1> QED
  BY <1>1, FinalizerAssumption, LenProperties

\* All the process has after a write of o is old, or the answer.
LEMMA CopiesAfterWrite ==
  ASSUME TInv, NEW o \in Object, o.rev <= version, Write(o),
         Copies' \subseteq Copies \cup {o, Written(o), Answer(o), NotFound}
  PROVE  \A v \in Copies' :
           v.rev <= version' /\ Covers(v, v.finalizers, server', cleaned')
<1> USE DEF TInv, Types, Versions
<1> SUFFICES ASSUME NEW v \in Copies'
             PROVE  v.rev <= version' /\ Covers(v, v.finalizers, server', cleaned')
  OBVIOUS
<1>1. version \in Nat /\ version' = version + 1 /\ o \in Objects /\ o \in Sent
  BY ObjectsSent DEF Write, Objects
<1>2. CASE v \in Copies \cup {o, NotFound}
  <2>1. v \in Objects /\ v.rev <= version /\ v.rev \in Nat
    <3>1. \A u \in Copies : u \in Objects
      BY DEF Copies, Objects
    <3> QED
      BY <1>1, <1>2, <3>1, NotFoundFields, Fields
  <2>2. v.rev <= version'
    BY <1>1, <2>1
  <2>3. Covers(v, v.finalizers, server', cleaned')
    BY <1>1, <2>1, CoversAfterWrite
  <2> QED
    BY <2>2, <2>3
<1>3. CASE v = Answer(o)
  <2>1. v.rev <= version' /\ Covers(v, v.finalizers, server', cleaned')
    BY <1>1, <1>3, CoversAnswer
  <2> QED
    BY <2>1
<1>4. CASE v = Written(o)
  <2>1. v.rev = version + 1
    BY <1>1, <1>4, WrittenFields
  <2>2. server' = v \/ server' = NotFound
    BY <1>1, <1>4, WriteFields
  <2>3. Covers(v, v.finalizers, server', cleaned')
    BY <1>1, <2>1, <2>2, NotFoundFields DEF Covers
  <2> QED
    BY <1>1, <2>1, <2>3
<1> QED
  BY <1>2, <1>3, <1>4

\* Without a write they are what they were, what the server has, or one more (o).
LEMMA CopiesKept ==
  ASSUME TInv, UNCHANGED <<server, version>>, cleaned \subseteq cleaned',
         NEW o \in Objects, o.rev <= version, Copies' \subseteq Copies \cup {o, server, NotFound}
  PROVE  /\ Versions'
         /\ Covered /\ Covers(o, o.finalizers, server, cleaned) =>
              \A v \in Copies' : Covers(v, v.finalizers, server', cleaned')
<1>1. Versions'
  <2>1. NotFound.rev <= version
    BY NotFoundFields DEF TInv, Types
  <2> QED
    BY <2>1 DEF TInv, Versions, Gone
<1>2. ASSUME Covered, Covers(o, o.finalizers, server, cleaned), NEW v \in Copies'
      PROVE  Covers(v, v.finalizers, server, cleaned')
  <2>1. CASE v \in Copies \cup {o}
    BY <1>2, <2>1 DEF Covered, Covers
  <2>2. CASE v = server
    BY <2>2 DEF Covers
  <2>3. CASE v = NotFound /\ server.rev = 0
    <3>1. server = NotFound
      BY <2>3, Fields DEF TInv, Types
    <3> QED
      BY <2>3, <3>1 DEF Covers
  <2>4. CASE v = NotFound /\ server.rev # 0
    BY <2>4, NotFoundFields DEF Covers
  <2> QED
    BY <2>1, <2>2, <2>3, <2>4
<1> QED
  BY <1>1, <1>2

---------------------------------------------------------------------------
(* The initial state, and the steps of others.                             *)

LEMMA InitTInv == ASSUME Init PROVE TInv
<1>1. server \in Object /\ server \in Objects /\ server.rev \in Nat
  BY FinalizerAssumption, Fields DEF Init, Objects
<1>2. NotFound \in Objects /\ NotFound.rev = 0
  BY NotFoundFields
<1>3. 1 \in 1 .. Len(Routes) + 1 /\ 0 \in 0 .. MaxInputs
  BY RoutesTyped, CacheClientAssumption
<1>4. Types
  BY <1>1, <1>2, <1>3, Zenon DEF Init, Types
<1>5. Aliases /\ Turns
  BY DEF Init, Aliases, Turns
<1>6. Versions
  BY <1>1, <1>2 DEF Init, Versions, Copies
<1> QED
  BY <1>4, <1>5, <1>6 DEF TInv

LEMMA InitCovered == ASSUME Init PROVE Covered
<1>1. server.rev # NotFound.rev
  BY FinalizerAssumption, Fields, NotFoundFields DEF Init, Objects
<1> QED
  BY <1>1 DEF Init, Covered, Covers, Copies

LEMMA OthersWrite ==
  ASSUME TInv, NEW o \in Sent, Write(o),
         pending' \subseteq pending \cup {Written(o), NotFound}, inputs' \in 0 .. MaxInputs,
         UNCHANGED <<informer, recent, alias, worker>>
  PROVE  TInv' /\ (Covered => Covered')
<1>1. /\ informer' = informer /\ recent' = recent /\ alias' = alias /\ due' = due /\ pc' = pc
      /\ route' = route /\ obj' = obj /\ new' = new /\ delay' = delay /\ returned' = returned
      /\ again' = again /\ cleaned' = cleaned
  BY DEF worker
<1>2. /\ version \in Nat /\ version' \in Nat /\ version' = version + 1
      /\ server' \in Objects /\ server'.rev <= version' /\ ~ Gone(server')
      /\ Written(o) \in Objects /\ NotFound \in Objects
  BY WriteFields, WrittenFields, NotFoundFields DEF TInv, Types, Objects
<1>3. Types'
  BY <1>1, <1>2, Zenon DEF TInv, Types
<1>4. Aliases' /\ Turns'
  BY <1>1 DEF TInv, Aliases, Turns, Turn, finalizer
<1>5. \A v \in Copies : v \in Objects /\ v.rev <= version /\ v.rev \in Nat
  BY Fields DEF TInv, Types, Versions, Copies, Objects
<1>6. Copies' \subseteq Copies \cup {Written(o), NotFound}
  BY <1>1 DEF Copies
<1>7. Written(o).rev = version + 1 /\ NotFound.rev = 0
  BY <1>2, WrittenFields, NotFoundFields
<1>8. \A v \in Copies' : v.rev <= version'
  BY <1>2, <1>5, <1>6, <1>7
<1>9. Versions'
  BY <1>2, <1>8 DEF Versions, Gone
<1>10. ASSUME Covered PROVE Covered'
  <2>1. \A v \in Copies \cup {NotFound} : \A q : Covers(v, q, server', cleaned)
    BY <1>2, <1>5, <1>7, CoversAfterWrite
  <2>2. Covers(Written(o), Written(o).finalizers, server', cleaned)
    <3>1. server' = Written(o) \/ server' = NotFound
      BY <1>2, WriteFields
    <3> QED
      BY <1>2, <1>7, <3>1 DEF Covers
  <2>3. \A v \in Copies' : Covers(v, v.finalizers, server', cleaned')
    BY <1>1, <1>6, <2>1, <2>2
  <2>4. new \in Copies
    BY DEF Copies
  <2> QED
    BY <1>1, <1>10, <2>1, <2>3, <2>4 DEF Covered, finalizer
<1> QED
  BY <1>3, <1>4, <1>9, <1>10 DEF TInv

\* Others read, store or forget.
LEMMA OthersRead ==
  ASSUME TInv, UNCHANGED <<server, version, inputs>>,
         UNCHANGED <<pc, route, obj, new, delay, returned, again, cleaned>>,
         due' \in BOOLEAN, informer' \in {informer, server}, pending' \subseteq pending,
         \/ UNCHANGED <<recent, alias>>
         \/ recent' = {} /\ alias' = "none"
         \/ \E o \in pending : recent' = {o} \ {NotFound} /\ alias' = "none"
  PROVE  TInv' /\ (Covered => Covered')
<1>1. \A o \in pending : {o} \ {NotFound} \subseteq Object
  BY DEF TInv, Types, Objects
<1>2. Types'
  BY <1>1 DEF TInv, Types
<1>3. Aliases' /\ Turns'
  BY DEF TInv, Aliases, Turns, Turn, finalizer
<1>4. /\ server \in Objects /\ server.rev <= version /\ Covers(server, server.finalizers, server, cleaned)
      /\ Copies' \subseteq Copies \cup {server, NotFound}
  BY DEF Copies, TInv, Types, Versions, Covers
<1>5. Versions'
  BY <1>4, CopiesKept
<1>6. ASSUME Covered PROVE Covered'
  <2>1. \A v \in Copies' : Covers(v, v.finalizers, server', cleaned')
    BY <1>4, <1>6, CopiesKept
  <2> QED
    BY <1>6, <2>1 DEF Covered, finalizer
<1> QED
  BY <1>2, <1>3, <1>5, <1>6 DEF TInv

LEMMA EventInv == ASSUME TInv, Event PROVE TInv' /\ (Covered => Covered')
BY OthersRead DEF Event, Sync

LEMMA OthersInv == ASSUME TInv, Others, UNCHANGED worker PROVE TInv' /\ (Covered => Covered')
<1> USE DEF TInv, Types
<1>1. ASSUME NEW o \in Sent, NEW local \in BOOLEAN, Edit(o, local)
      PROVE  TInv' /\ (Covered => Covered')
  <2>1. inputs' \in 0 .. MaxInputs
    BY <1>1, CacheClientAssumption DEF Edit, Input
  <2> QED
    BY <1>1, <2>1, OthersWrite DEF Edit
<1>2. server \in Sent /\ NotFound \in Sent
  BY ObjectsSent, NotFoundFields
<1>3. CASE \E label \in Labels, local \in BOOLEAN : Create(label, local) \/ Patch(label, local)
  <2>1. PICK label \in Labels, local \in BOOLEAN : Create(label, local) \/ Patch(label, local)
    BY <1>3
  <2>2. label \in BOOLEAN /\ inputs + 2 \in Nat
    BY CacheClientAssumption
  <2>3. /\ [NotFound EXCEPT !.uid = inputs + 2, !.label = label] \in Sent
        /\ [server EXCEPT !.label = label] \in Sent
    BY <1>2, <2>2 DEF Sent
  <2> QED
    BY <1>1, <2>1, <2>3 DEF Create, Patch
<1>4. CASE \E local \in BOOLEAN : Delete(local)
  <2>1. PICK local \in BOOLEAN : Delete(local)
    BY <1>4
  <2>2. [server EXCEPT !.deleting = TRUE] \in Sent
    BY <1>2 DEF Sent
  <2>3. inputs' \in 0 .. MaxInputs
    BY <2>1, CacheClientAssumption DEF Delete, Input
  <2> QED
    BY <2>1, <2>2, <2>3, OthersWrite DEF Delete
<1>5. CASE \E o \in pending : Store(o)
  BY <1>5, OthersRead DEF Store, worker
<1>6. CASE Purge
  BY <1>6, OthersRead DEF Purge, worker
<1>7. CASE \E f \in Foreign : AddForeign(f)
  <2>1. PICK f \in Foreign : AddForeign(f)
    BY <1>7
  <2>2. server.finalizers \in Seq(Finalizers) /\ f \in Finalizers
    BY Fields DEF Finalizers
  <2>3. Append(server.finalizers, f) \in Seq(Finalizers)
    BY <2>2
  <2>4. [server EXCEPT !.finalizers = Append(@, f)] \in Sent
    BY <1>2, <2>3 DEF Sent
  <2> QED
    BY <1>1, <2>1, <2>4 DEF AddForeign
<1>8. CASE \E f \in Foreign : RemoveForeign(f)
  <2>1. PICK f \in Foreign : RemoveForeign(f)
    BY <1>8
  <2>2. PICK i \in 1 .. Len(server.finalizers) :
          Write([server EXCEPT !.finalizers = RemoveAt(@, i)])
    BY <2>1 DEF RemoveForeign
  <2>3. RemoveAt(server.finalizers, i) \in Seq(Finalizers)
    BY <2>2, Fields, RemoveAtFields
  <2>4. [server EXCEPT !.finalizers = RemoveAt(@, i)] \in Sent
    BY <1>2, <2>3 DEF Sent
  <2> QED
    BY <2>1, <2>2, <2>4, OthersWrite DEF RemoveForeign
<1> QED
  BY <1>3, <1>4, <1>5, <1>6, <1>7, <1>8 DEF Others

---------------------------------------------------------------------------
(* The steps of the worker that leave the server alone.                    *)

LEMMA FoundIn == ASSUME NEW o PROVE Found(o) \in {o} \cup recent
BY DEF Found

\* The worker is between the routes, or before them, again.
LEMMA QuietInv ==
  ASSUME TInv, UNCHANGED <<server, version>>, cleaned' = cleaned,
         Copies' \subseteq Copies \cup {NotFound}, pc' \notin {"status", "remove"}
  PROVE  Versions' /\ Turns' /\ (Covered => Covered')
<1>1. /\ NotFound \in Objects /\ NotFound.rev <= version
      /\ Covered => Covers(NotFound, NotFound.finalizers, server, cleaned)
  <2>1. server.rev = 0 => server = NotFound
    BY Fields DEF TInv, Types
  <2> QED
    BY <2>1, NotFoundFields DEF TInv, Types, Covers
<1>2. Versions'
  BY <1>1, CopiesKept
<1>3. ASSUME Covered PROVE \A v \in Copies' : Covers(v, v.finalizers, server', cleaned')
  BY <1>1, <1>3, CopiesKept
<1> QED
  BY <1>2, <1>3 DEF Turns, Covered

LEMMA TakeInv == ASSUME TInv, Take PROVE TInv' /\ (Covered => Covered')
<1> USE DEF TInv, Take, client
<1>1. Types'
  BY NotFoundFields DEF Types
<1>2. Aliases'
  BY DEF Aliases
<1>3. Copies' \subseteq Copies \cup {NotFound}
  BY DEF Copies
<1> QED
  BY <1>1, <1>2, <1>3, QuietInv

LEMMA GetInv == ASSUME TInv, GetCached \/ GetRecent PROVE TInv' /\ (Covered => Covered')
<1> USE DEF TInv, GetCached, GetRecent, client
<1>1. obj' \in {obj, informer} \cup recent
  BY FoundIn
<1>2. Types'
  BY <1>1 DEF Types, Objects
<1>3. Aliases'
  BY DEF Aliases
<1>4. Copies' \subseteq Copies \cup {NotFound}
  BY <1>1 DEF Copies
<1> QED
  BY <1>2, <1>3, <1>4, QuietInv

\* Errors and delays add up.
LEMMA Booleans == ASSUME NEW a \in BOOLEAN, NEW b \in BOOLEAN PROVE (a \/ b) \in BOOLEAN
OBVIOUS

LEMMA DoneInv == ASSUME TInv, Done PROVE TInv' /\ (Covered => Covered')
<1> USE DEF TInv, Done
<1>1. Types'
  <2>1. due' \in BOOLEAN /\ again' \in BOOLEAN
    <3>1. due' = (due \/ again) /\ again' = FALSE /\ due \in BOOLEAN /\ again \in BOOLEAN
      BY DEF Types
    <3> QED
      BY <3>1, Booleans, Zenon
  <2> QED
    BY <2>1, NotFoundFields, RoutesTyped DEF Types
<1>2. Aliases'
  BY DEF Aliases
<1>3. Copies' \subseteq Copies \cup {NotFound}
  BY DEF Copies
<1> QED
  BY <1>1, <1>2, <1>3, QuietInv

LEMMA SkipInv == ASSUME TInv, Skip \/ HandleFails PROVE TInv' /\ (Covered => Covered')
<1> USE DEF TInv, NextRoute
<1>1. /\ UNCHANGED <<server, version, informer, recent, pending, alias, due, obj, cleaned>>
      /\ pc = "handle" /\ route <= Len(Routes) /\ \E failed \in BOOLEAN : NextRoute(failed)
      /\ pc' = "handle" /\ route' = route + 1
      /\ new' = NotFound /\ delay' = FALSE /\ returned' = FALSE
  BY DEF Skip, HandleFails, Handling, client
<1>2. inputs' \in 0 .. MaxInputs
  BY CacheClientAssumption DEF Skip, HandleFails, Input, client, Types
<1>3. Types'
  <2>1. again' \in BOOLEAN
    <3>1. PICK failed \in BOOLEAN : again' = (again \/ failed)
      BY <1>1
    <3> QED
      BY <3>1, Booleans, Zenon DEF Types
  <2>2. route' \in 1 .. Len(Routes) + 1
    BY <1>1, RoutesTyped DEF Types
  <2> HIDE DEF NextRoute
  <2> QED
    BY <1>1, <1>2, <2>1, <2>2, NotFoundFields, Zenon DEF Types
<1>4. Aliases'
  BY <1>1 DEF Aliases
<1>5. Copies' \subseteq Copies \cup {NotFound}
  BY <1>1 DEF Copies
<1> QED
  BY <1>1, <1>3, <1>4, <1>5, QuietInv

LEMMA KeepInv == ASSUME TInv, Keep PROVE TInv' /\ (Covered => Covered')
<1> USE DEF TInv, Keep, NextRoute, Return
<1>1. route \in 1 .. Len(Routes)
  BY DEF Turns
<1>2. recent' = recent /\ obj' \in {obj, new}
  BY DEF Aliases
<1>3. Types'
  <2>1. again' \in BOOLEAN
    BY Booleans, Zenon DEF Types
  <2>2. route' \in 1 .. Len(Routes) + 1
    BY <1>1, RoutesTyped
  <2>3. /\ UNCHANGED <<server, version, informer, pending, inputs, due, cleaned>>
        /\ new' = NotFound /\ delay' = FALSE /\ returned' = FALSE /\ pc' = "handle"
        /\ alias' \in {alias, "none", "obj"}
    OBVIOUS
  <2> HIDE DEF NextRoute, Return, Keep
  <2> QED
    BY <1>2, <2>1, <2>2, <2>3, NotFoundFields DEF Types
<1>4. Aliases'
  BY <1>2 DEF Aliases
<1>5. Copies' \subseteq Copies \cup {NotFound}
  BY <1>2 DEF Copies
<1> QED
  BY <1>3, <1>4, <1>5, QuietInv

\* A handler that does not read its object again has that of its request.
LEMMA HandleInv ==
  ASSUME TInv, Handle PROVE TInv' /\ (TRUE \notin Refresh /\ Covered => Covered')
<1> USE DEF TInv
<1>1. /\ route \in 1 .. Len(Routes) /\ route' = route /\ obj' = obj /\ obj.deleting /\ Turn
      /\ obj \in Object /\ finalizer' = finalizer /\ finalizer \in Ours
  <2>1. route \in 1 .. Len(Routes)
    BY RoutesTyped DEF Handle, Handling, Types
  <2>2. obj \in Object
    BY Fields DEF Handle, Selected, Exists, Types
  <2> QED
    BY <2>1, <2>2, RoutesTyped DEF Handle, finalizer
<1>2. new' \in {obj, informer} \cup recent
  BY FoundIn DEF Handle
<1>3. /\ pc = "handle" /\ pc' = "status" /\ returned' \in BOOLEAN /\ again' = (again \/ delay')
      /\ UNCHANGED <<server, version, informer, recent, pending, alias, due, route, obj>>
  BY DEF Handle, Handling
<1>4. /\ delay' \in BOOLEAN /\ inputs' \in 0 .. MaxInputs /\ cleaned \subseteq cleaned'
      /\ cleaned' \subseteq Nat \X Ours /\ (~ delay' => <<obj.uid, finalizer>> \in cleaned')
  <2>1. <<obj.uid, finalizer>> \in Nat \X Ours
    BY <1>1, Fields DEF Types
  <2>2. \/ /\ delay' = FALSE /\ cleaned' = cleaned \cup {<<obj.uid, finalizer>>}
           /\ inputs' = inputs
        \/ delay' = TRUE /\ Input /\ cleaned' = cleaned
    BY DEF Handle
  <2>3. inputs' \in 0 .. MaxInputs
    BY <2>2, CacheClientAssumption DEF Input, Types
  <2>4. CASE delay' = FALSE /\ cleaned' = cleaned \cup {<<obj.uid, finalizer>>}
    BY <2>1, <2>3, <2>4 DEF Types
  <2>5. CASE delay' = TRUE /\ cleaned' = cleaned
    BY <2>3, <2>5 DEF Types
  <2> QED
    BY <2>2, <2>4, <2>5
<1>5. Types'
  <2>1. again' \in BOOLEAN
    BY <1>3, <1>4, Booleans, Zenon DEF Types
  <2> QED
    BY <1>2, <1>3, <1>4, <2>1 DEF Types, Objects
<1>6. Aliases'
  BY <1>3 DEF Aliases
<1>7. Turns'
  BY <1>1, <1>3 DEF Turns, Turn
<1>8. /\ server \in Objects /\ server.rev <= version /\ Covers(server, server.finalizers, server, cleaned)
      /\ Copies' \subseteq Copies \cup {server, NotFound}
  BY <1>2, <1>3 DEF Copies, Types, Versions, Covers
<1>9. Versions'
  BY <1>3, <1>4, <1>8, CopiesKept
<1>10. ASSUME TRUE \notin Refresh, Covered PROVE Covered'
  <2>1. \A v \in Copies' : Covers(v, v.finalizers, server', cleaned')
    BY <1>3, <1>4, <1>8, <1>10, CopiesKept
  <2>2. new' = obj'
    BY <1>10, <1>3 DEF Handle
  <2>3. pc' = "status" /\ (~ delay' => <<obj'.uid, finalizer'>> \in cleaned')
    BY <1>1, <1>3, <1>4
  <2> QED
    BY <2>1, <2>2, <2>3 DEF Covered
<1> QED
  BY <1>5, <1>6, <1>7, <1>9, <1>10

LEMMA StatusUnchangedInv ==
  ASSUME TInv, StatusUnchanged PROVE TInv' /\ (Covered => Covered')
<1> USE DEF TInv, StatusUnchanged, client
<1>1. Types' /\ Aliases' /\ Turns' /\ Versions'
  BY DEF Types, Aliases, Turns, Turn, finalizer, Versions, Copies, Gone
<1>2. ASSUME Covered PROVE Covered'
  <2>1. new = obj /\ obj \in Copies
    BY <1>2 DEF Covered, Copies
  <2>2. \A v \in Copies' : Covers(v, v.finalizers, server', cleaned')
    BY <1>2 DEF Covered, Copies
  <2> QED
    BY <1>2, <2>1, <2>2 DEF Covered, finalizer
<1> QED
  BY <1>1, <1>2

---------------------------------------------------------------------------
(* The worker's calls.                                                     *)

\* What the worker is about to send has the version it read, and its types.
LEMMA Added ==
  ASSUME TInv, Handling, Selected
  PROVE  LET o == [obj EXCEPT !.finalizers = Append(@, finalizer)] IN
         /\ o \in Object /\ o.rev = obj.rev /\ o.rev <= version /\ o.uid = obj.uid
         /\ obj \in Copies
         /\ \A f : Contains(obj.finalizers, f) => Contains(o.finalizers, f)
<1> USE DEF TInv
<1>1. obj \in Object /\ obj \in Objects /\ obj \in Copies
  BY Fields DEF Selected, Exists, Types, Objects, Copies
<1>2. finalizer \in Finalizers
  BY RoutesTyped DEF Handling, Types, finalizer, Finalizers
<1>3. obj.finalizers \in Seq(Finalizers)
  BY <1>1, Fields
<1>4. /\ Append(obj.finalizers, finalizer) \in Seq(Finalizers)
      /\ \A f : Contains(obj.finalizers, f) => Contains(Append(obj.finalizers, finalizer), f)
  BY <1>2, <1>3, AppendFields
<1>5. obj.rev <= version
  BY <1>1 DEF Versions
<1> QED
  BY <1>1, <1>4, <1>5, SetFinalizers

LEMMA AddFinalizerInv ==
  ASSUME TInv, NEW ok \in BOOLEAN, AddFinalizer(ok) PROVE TInv' /\ (Covered => Covered')
<1> DEFINE o == [obj EXCEPT !.finalizers = Append(@, finalizer)]
<1> USE DEF TInv
<1>1. /\ o \in Object /\ o.rev = obj.rev /\ o.rev <= version /\ o.uid = obj.uid
      /\ obj \in Copies
      /\ \A f : Contains(obj.finalizers, f) => Contains(o.finalizers, f)
  BY Added DEF AddFinalizer
<1>2. /\ pc = "handle" /\ route \in 1 .. Len(Routes) /\ Call(o, o, ok)
      /\ obj' = (IF ok THEN Answer(o) ELSE o)
      /\ recent' = (IF ok \/ alias = "obj" THEN {obj'} ELSE recent)
      /\ alias' = (IF ok THEN "obj" ELSE alias)
      /\ UNCHANGED <<informer, pending, due, cleaned>>
      /\ pc' = "handle" /\ route' = route + 1
      /\ new' = NotFound /\ delay' = FALSE /\ returned' = FALSE /\ again' = (again \/ ~ ok)
  BY RoutesTyped DEF AddFinalizer, Handling, NextRoute, Types
<1> HIDE DEF o
<1>3. /\ \/ Accepts(o) /\ Write(o)
         \/ ~ ok /\ UNCHANGED <<server, version>>
      /\ inputs' \in 0 .. MaxInputs
  BY <1>2, CallCases DEF Types
<1>4. Answer(o) \in Object /\ o \in Objects /\ o \in Sent
  BY <1>1, AnswerFields, ObjectsSent DEF Types, Objects
<1>5. server' \in Objects /\ version' \in Nat
  BY <1>3, <1>4, WriteFields DEF Types
<1>6. obj' \in Object /\ recent' \subseteq Object
  BY <1>1, <1>2, <1>4 DEF Types
<1>7. Types'
  <2>1. again' \in BOOLEAN
    <3>1. (~ ok) \in BOOLEAN
      OBVIOUS
    <3> QED
      BY <1>2, <3>1, Booleans, Zenon DEF Types
  <2>2. route' \in 1 .. Len(Routes) + 1
    BY <1>2, RoutesTyped
  <2>3. alias' \in {"none", "obj", "new"}
    BY <1>2 DEF Types
  <2>4. obj' \in Objects /\ new' \in Objects
    BY <1>2, <1>6, NotFoundFields DEF Objects
  <2> QED
    BY <1>2, <1>3, <1>5, <1>6, <2>1, <2>2, <2>3, <2>4 DEF Types
<1>8. Aliases'
  BY <1>2 DEF Aliases
<1>9. Turns'
  BY <1>2 DEF Turns
<1>10. CASE Accepts(o) /\ Write(o)
  <2>1. Copies' \subseteq Copies \cup {o, Written(o), Answer(o), NotFound}
    BY <1>2 DEF Copies
  <2>2. \A v \in Copies' : v.rev <= version' /\ Covers(v, v.finalizers, server', cleaned')
    BY <1>1, <1>10, <2>1, CopiesAfterWrite
  <2>3. server'.rev <= version' /\ ~ Gone(server')
    BY <1>4, <1>10, WriteFields DEF Types
  <2> QED
    BY <1>2, <1>7, <1>8, <1>9, <2>2, <2>3 DEF Versions, Gone, Covered
<1>11. CASE ~ ok /\ UNCHANGED <<server, version>>
  <2>1. Copies' \subseteq Copies \cup {o, server, NotFound}
    BY <1>2, <1>11 DEF Copies
  <2>2. Covered => Covers(o, o.finalizers, server, cleaned)
    BY <1>1 DEF Covered, Covers
  <2> QED
    BY <1>1, <1>2, <1>4, <1>7, <1>8, <1>9, <1>11, <2>1, <2>2, CopiesKept DEF Covered
<1> QED
  BY <1>3, <1>10, <1>11

\* A write that the server accepts is from its latest version: the object that it is of
\* is what the server has, or what the handler has.
LEMMA StatusAccepted ==
  ASSUME TInv, NEW o \in {server, new}, Accepts(new)
  PROVE  /\ server \in Object /\ new \in Object /\ new.rev = server.rev
         /\ o \in Object /\ o \in Objects /\ o \in Sent /\ o.rev = server.rev /\ o.rev <= version
<1>1. server.rev > 0 /\ server.rev = new.rev
  BY DEF Accepts, Exists
<1> QED
  BY <1>1, Fields, ObjectsSent DEF TInv, Types, Versions, Objects

\* What has been written is what the handler was called with, but for finalizers that it
\* has seen to.
LEMMA StatusCovered ==
  ASSUME TInv, Covered, pc = "status", NEW o \in {server, new}, Accepts(new)
  PROVE  /\ o.uid = server.uid /\ obj.uid = server.uid
         /\ \A f \in Finalizers : Contains(server.finalizers, f) =>
              /\ Contains(obj.finalizers, f) \/ <<server.uid, f>> \in cleaned
              /\ Contains(o.finalizers, f) \/ <<server.uid, f>> \in cleaned
         /\ \A f \in Finalizers : Contains(o.finalizers, f) =>
              Contains(obj.finalizers, f) \/ <<server.uid, f>> \in cleaned
<1>1. new = obj /\ obj \in Copies /\ obj.rev = server.rev
  BY DEF Covered, Copies, Accepts
<1>2. Covers(obj, obj.finalizers, server, cleaned)
  BY <1>1 DEF Covered
<1> QED
  BY <1>1, <1>2 DEF Covers

LEMMA UpdateStatusInv ==
  ASSUME TInv, NEW ok \in BOOLEAN, UpdateStatus(ok) PROVE TInv' /\ (Covered => Covered')
<1> USE DEF TInv
<1>1. PICK o \in {server, new} :
        /\ Call(new, o, ok)
        /\ \/ /\ ok
              /\ new' = Answer(o)
              /\ recent' = {new'} /\ alias' = "new"
              /\ pc' = "remove"
              /\ UNCHANGED <<route, obj, delay, returned, again>>
           \/ ~ ok /\ Return(new) /\ NextRoute(TRUE)
  BY DEF UpdateStatus
<1>2. /\ pc = "status" /\ UNCHANGED <<informer, pending, due, cleaned>>
      /\ route \in 1 .. Len(Routes) /\ alias # "new"
  BY DEF UpdateStatus, Turns, Aliases
<1>3. /\ \/ Accepts(new) /\ Write(o)
         \/ ~ ok /\ UNCHANGED <<server, version>>
      /\ inputs' \in 0 .. MaxInputs
  BY <1>1, CallCases DEF Types
<1>4. CASE ok
  <2>1. Accepts(new) /\ Write(o)
    BY <1>3, <1>4
  <2>2. /\ o \in Object /\ o \in Objects /\ o \in Sent /\ o.rev = server.rev
        /\ o.rev <= version /\ o.rev > 0
    BY <2>1, StatusAccepted, Fields
  <2>3. /\ new' = Answer(o) /\ recent' = {new'} /\ alias' = "new" /\ pc' = "remove"
        /\ UNCHANGED <<route, obj, delay, returned, again>>
    BY <1>1, <1>4
  <2>4. /\ Answer(o) \in Object /\ server' \in Objects /\ version' \in Nat
        /\ server'.rev <= version' /\ ~ Gone(server')
    BY <2>1, <2>2, AnswerFields, WriteFields DEF Types
  <2>5. Types'
    BY <1>2, <1>3, <2>3, <2>4 DEF Types, Objects
  <2>6. Aliases' /\ Turns'
    BY <1>2, <2>3 DEF Aliases, Turns, Turn, finalizer
  <2>7. Copies' \subseteq Copies \cup {o, Written(o), Answer(o), NotFound}
    BY <1>2, <2>3 DEF Copies
  <2>8. \A v \in Copies' : v.rev <= version' /\ Covers(v, v.finalizers, server', cleaned')
    BY <2>1, <2>2, <2>7, CopiesAfterWrite
  <2>9. Versions'
    BY <2>4, <2>8 DEF Versions, Gone
  <2>10. ASSUME Covered PROVE Covered'
    <3>1. new'.uid = o.uid /\ o.uid = obj.uid /\ obj.uid = server.uid
      BY <1>2, <2>1, <2>2, <2>3, <2>10, AnswerFields, StatusCovered DEF Types
    <3>2. ASSUME NEW f \in Finalizers, Contains(server'.finalizers, f)
          PROVE  Contains(obj.finalizers, f) \/ <<server'.uid, f>> \in cleaned
      <4>1. Contains(o.finalizers, f) /\ server'.uid = o.uid
        BY <2>1, <2>2, <3>2, WriteFields DEF Types
      <4> QED
        BY <1>2, <2>1, <2>10, <3>1, <4>1, StatusCovered
    <3>3. Covers(new', obj.finalizers, server', cleaned)
      <4>1. Covers(new', new'.finalizers, server', cleaned)
        BY <1>2, <2>8 DEF Copies
      <4> QED
        BY <3>2, <4>1 DEF Covers
    <3>4. ~ delay => <<obj.uid, finalizer>> \in cleaned
      BY <1>2, <2>10 DEF Covered
    <3> QED
      BY <1>2, <2>3, <2>8, <3>1, <3>3, <3>4 DEF Covered, finalizer
  <2> QED
    BY <2>5, <2>6, <2>9, <2>10
<1>5. CASE ~ ok
  <2>1. /\ recent' = recent /\ obj' \in {obj, new} /\ alias' \in {alias, "none"}
        /\ alias' = "obj" => alias = "obj" /\ obj' = obj
        /\ pc' = "handle" /\ route' = route + 1
        /\ new' = NotFound /\ delay' = FALSE /\ returned' = FALSE /\ again' = (again \/ TRUE)
    BY <1>1, <1>2, <1>5 DEF Return, NextRoute
  <2>2. again' \in BOOLEAN
    BY <2>1, Booleans, Zenon DEF Types
  <2>3. Aliases'
    BY <1>2, <2>1 DEF Aliases
  <2>4. Copies' \subseteq Copies \cup {NotFound}
    BY <1>2, <2>1 DEF Copies
  <2>5. route' \in 1 .. Len(Routes) + 1
    BY <1>2, <2>1, RoutesTyped
  <2>6. ASSUME server' \in Objects, version' \in Nat PROVE Types'
    BY <1>2, <1>3, <2>1, <2>2, <2>5, <2>6, NotFoundFields DEF Types
  <2>7. CASE Accepts(new) /\ Write(o)
    <3>1. o \in Object /\ o \in Sent /\ o.rev <= version
      BY <2>7, StatusAccepted
    <3>2. /\ server' \in Objects /\ version' \in Nat
          /\ server'.rev <= version' /\ ~ Gone(server')
      BY <2>7, <3>1, WriteFields DEF Types
    <3>3. \A v \in Copies' : v.rev <= version' /\ Covers(v, v.finalizers, server', cleaned')
      BY <2>4, <2>7, <3>1, CopiesAfterWrite
    <3> QED
      BY <2>1, <2>3, <2>6, <3>2, <3>3 DEF Versions, Gone, Covered, Turns
  <2>8. CASE UNCHANGED <<server, version>>
    <3>1. server' \in Objects /\ version' \in Nat
      BY <2>8 DEF Types
    <3> QED
      BY <1>2, <2>1, <2>3, <2>4, <2>6, <2>8, <3>1, QuietInv
  <2> QED
    BY <1>3, <2>7, <2>8
<1> QED
  BY <1>4, <1>5

LEMMA Removed ==
  ASSUME TInv, pc = "remove", Removes
  PROVE  LET o == [new EXCEPT !.finalizers = Tail(obj.finalizers)] IN
         /\ o \in Object /\ o.rev = new.rev /\ o.rev <= version /\ o.uid = new.uid
         /\ Covered => /\ new.uid = obj.uid /\ Covers(new, obj.finalizers, server, cleaned)
                       /\ \A f \in Finalizers : Contains(obj.finalizers, f) =>
                            Contains(o.finalizers, f) \/ <<obj.uid, f>> \in cleaned
<1> USE DEF TInv
<1>1. new \in Object
  BY NotFoundFields DEF Removes, Types, Objects
<1>2. new.rev <= version
  BY DEF Versions, Copies
<1>3. obj.finalizers \in Seq(Finalizers) /\ obj.finalizers # <<>> /\ Head(obj.finalizers) = finalizer
  BY Fields DEF Turns, Turn, Types
<1>4. /\ Tail(obj.finalizers) \in Seq(Finalizers)
      /\ \A f : Contains(obj.finalizers, f) /\ f # finalizer => Contains(Tail(obj.finalizers), f)
  BY <1>3, TailFields
<1>5. Covered => <<obj.uid, finalizer>> \in cleaned
  BY DEF Removes, Covered
<1> QED
  BY <1>1, <1>2, <1>4, <1>5, SetFinalizers DEF Covered

LEMMA RemoveFinalizerInv ==
  ASSUME TInv, NEW ok \in BOOLEAN, RemoveFinalizer(ok) PROVE TInv' /\ (Covered => Covered')
<1> DEFINE o == [new EXCEPT !.finalizers = Tail(obj.finalizers)]
<1> USE DEF TInv
<1>1. /\ o \in Object /\ o.rev = new.rev /\ o.rev <= version /\ o.uid = new.uid
      /\ Covered => /\ new.uid = obj.uid /\ Covers(new, obj.finalizers, server, cleaned)
                    /\ \A f \in Finalizers : Contains(obj.finalizers, f) =>
                         Contains(o.finalizers, f) \/ <<obj.uid, f>> \in cleaned
  BY Removed DEF RemoveFinalizer
<1>2. /\ pc = "remove" /\ route \in 1 .. Len(Routes) /\ Call(o, o, ok)
      /\ \/ ok /\ obj' = Answer(o) /\ recent' = {obj'} /\ alias' = "obj"
         \/ ~ ok /\ Return(o)
      /\ UNCHANGED <<informer, pending, due, cleaned>>
      /\ pc' = "handle" /\ route' = route + 1
      /\ new' = NotFound /\ delay' = FALSE /\ returned' = FALSE /\ again' = (again \/ ~ ok)
  BY DEF RemoveFinalizer, NextRoute, Turns
<1> HIDE DEF o
<1>3. /\ \/ Accepts(o) /\ Write(o)
         \/ ~ ok /\ UNCHANGED <<server, version>>
      /\ inputs' \in 0 .. MaxInputs
  BY <1>2, CallCases DEF Types
<1>4. Answer(o) \in Object /\ o \in Objects /\ o \in Sent
  BY <1>1, AnswerFields, ObjectsSent DEF Types, Objects
<1>5. server' \in Objects /\ version' \in Nat
  BY <1>3, <1>4, WriteFields DEF Types
<1>6. /\ obj' \in {obj, o, Answer(o)} /\ (ok \/ obj' \in {obj, o})
      /\ recent' \in {recent, {o}, {obj'}} /\ (ok \/ recent' \in {recent, {o}})
      /\ alias' \in {"none", "obj", alias} /\ alias' # "new"
  BY <1>2 DEF Return
<1>7. obj' \in Objects /\ recent' \subseteq Object
  BY <1>1, <1>2, <1>4, <1>6 DEF Types, Objects
<1>8. Types'
  <2>1. again' \in BOOLEAN
    <3>1. (~ ok) \in BOOLEAN
      OBVIOUS
    <3> QED
      BY <1>2, <3>1, Booleans, Zenon DEF Types
  <2>2. route' \in 1 .. Len(Routes) + 1
    BY <1>2, RoutesTyped
  <2>3. alias' \in {"none", "obj", "new"}
    BY <1>6 DEF Types
  <2> QED
    BY <1>2, <1>3, <1>5, <1>7, <2>1, <2>2, <2>3, NotFoundFields DEF Types
<1>9. Aliases'
  BY <1>2, <1>6 DEF Aliases, Return
<1>10. Turns'
  BY <1>2 DEF Turns
<1>11. CASE Accepts(o) /\ Write(o)
  <2>1. Copies' \subseteq Copies \cup {o, Written(o), Answer(o), NotFound}
    BY <1>2, <1>6 DEF Copies
  <2>2. \A v \in Copies' : v.rev <= version' /\ Covers(v, v.finalizers, server', cleaned')
    BY <1>1, <1>11, <2>1, CopiesAfterWrite
  <2>3. server'.rev <= version' /\ ~ Gone(server')
    BY <1>4, <1>11, WriteFields DEF Types
  <2> QED
    BY <1>2, <1>8, <1>9, <1>10, <2>2, <2>3 DEF Versions, Gone, Covered
<1>12. CASE ~ ok /\ UNCHANGED <<server, version>>
  <2>1. Copies' \subseteq Copies \cup {o, server, NotFound}
    BY <1>2, <1>6, <1>12 DEF Copies
  <2>2. Covered => Covers(o, o.finalizers, server, cleaned)
    BY <1>1 DEF Covers
  <2> QED
    BY <1>1, <1>2, <1>4, <1>8, <1>9, <1>10, <1>12, <2>1, <2>2, CopiesKept DEF Covered
<1> QED
  BY <1>3, <1>11, <1>12

---------------------------------------------------------------------------
(* The theorems.                                                           *)

LEMMA UnchangedInv ==
  ASSUME TInv, UNCHANGED client, UNCHANGED worker PROVE TInv' /\ (Covered => Covered')
<1> USE DEF client, worker
<1>1. Types' /\ Aliases'
  BY DEF TInv, Types, Aliases
<1>2. Turns'
  BY DEF TInv, Turns, Turn, finalizer
<1>3. Copies' = Copies
  BY DEF Copies
<1>4. Versions'
  BY <1>3 DEF TInv, Versions, Gone
<1>5. Covered => Covered'
  <2>1. finalizer' = finalizer
    BY DEF finalizer
  <2> QED
    BY <1>3, <2>1 DEF Covered
<1> QED
  BY <1>1, <1>2, <1>4, <1>5 DEF TInv

LEMMA StepInv ==
  ASSUME TInv, [Next]_vars PROVE TInv' /\ (TRUE \notin Refresh /\ Covered => Covered')
<1>1. CASE Event
  BY <1>1, EventInv
<1>2. CASE Others /\ UNCHANGED worker
  BY <1>2, OthersInv
<1>3. CASE Take
  BY <1>3, TakeInv
<1>4. CASE GetCached \/ GetRecent
  BY <1>4, GetInv
<1>5. CASE Skip \/ HandleFails
  BY <1>5, SkipInv
<1>6. CASE Handle
  BY <1>6, HandleInv
<1>7. CASE StatusUnchanged
  BY <1>7, StatusUnchangedInv
<1>8. CASE Keep
  BY <1>8, KeepInv
<1>9. CASE Done
  BY <1>9, DoneInv
<1>10. CASE \E ok \in BOOLEAN : AddFinalizer(ok) \/ UpdateStatus(ok) \/ RemoveFinalizer(ok)
  BY <1>10, AddFinalizerInv, UpdateStatusInv, RemoveFinalizerInv
<1>11. CASE UNCHANGED vars
  <2>1. UNCHANGED client /\ UNCHANGED worker
    BY <1>11 DEF vars
  <2> QED
    BY <2>1, UnchangedInv
<1> QED
  BY <1>1, <1>2, <1>3, <1>4, <1>5, <1>6, <1>7, <1>8, <1>9, <1>10, <1>11 DEF Next, Step

\* The types of the object, wherever it is, and what is remembered: at most one object,
\* and where the worker changes it in place, the one that the worker has.
THEOREM OneRemembered == Spec => []TypeOK
<1>1. Init => TInv
  BY InitTInv
<1>2. TInv /\ [Next]_vars => TInv'
  BY StepInv
<1>3. TInv => TypeOK
  BY DEF TInv, Types, Aliases, Versions, TypeOK, Objects
<1> QED
  BY <1>1, <1>2, <1>3, PTL DEF Spec

\* A write keeps the finalizers it sends, and whose they are.
LEMMA WriteKeeps ==
  ASSUME version \in Nat, NEW o \in Sent, Write(o), NEW f, Contains(o.finalizers, f)
  PROVE  server'.uid = o.uid /\ Contains(server'.finalizers, f)
BY WriteFields

\* Nobody else takes a finalizer off but who removes it as one of others.
LEMMA OthersLose ==
  ASSUME TInv, Others, NEW f \in Finalizers, Contains(server.finalizers, f)
  PROVE  \/ server'.uid = server.uid /\ Contains(server'.finalizers, f)
         \/ f \in Foreign /\ RemoveForeign(f)
<1> USE DEF TInv, Types
<1>1. server \in Sent /\ Exists(server)
  BY ObjectsSent, Fields, NotFoundFields DEF Exists
<1>2. ASSUME NEW o \in Sent, Write(o), o.uid = server.uid, Contains(o.finalizers, f)
      PROVE  server'.uid = server.uid /\ Contains(server'.finalizers, f)
  BY <1>2, WriteKeeps
<1>3. ASSUME NEW label \in Labels, NEW local \in BOOLEAN, Create(label, local) \/ Patch(label, local)
      PROVE  server'.uid = server.uid /\ Contains(server'.finalizers, f)
  <2> DEFINE o == [server EXCEPT !.label = label]
  <2>1. Write(o)
    BY <1>1, <1>3 DEF Create, Patch, Edit
  <2>2. o \in Sent /\ o.uid = server.uid /\ o.finalizers = server.finalizers
    BY <1>1, CacheClientAssumption DEF Sent
  <2> QED
    BY <1>2, <2>1, <2>2
<1>4. ASSUME NEW local \in BOOLEAN, Delete(local)
      PROVE  server'.uid = server.uid /\ Contains(server'.finalizers, f)
  <2> DEFINE o == [server EXCEPT !.deleting = TRUE]
  <2>1. o \in Sent /\ o.uid = server.uid /\ o.finalizers = server.finalizers
    BY <1>1 DEF Sent
  <2> QED
    BY <1>2, <1>4, <2>1 DEF Delete
<1>5. ASSUME (\E o \in pending : Store(o)) \/ Purge
      PROVE  server'.uid = server.uid /\ Contains(server'.finalizers, f)
  BY <1>5 DEF Store, Purge
<1>6. ASSUME NEW g \in Foreign, AddForeign(g)
      PROVE  server'.uid = server.uid /\ Contains(server'.finalizers, f)
  <2> DEFINE o == [server EXCEPT !.finalizers = Append(@, g)]
  <2>1. /\ Append(server.finalizers, g) \in Seq(Finalizers)
        /\ Contains(Append(server.finalizers, g), f)
    <3>1. server.finalizers \in Seq(Finalizers) /\ g \in Finalizers
      BY Fields DEF Finalizers
    <3> QED
      BY <3>1, AppendFields
  <2>2. o \in Sent /\ o.uid = server.uid /\ o.finalizers = Append(server.finalizers, g)
    BY <1>1, <2>1 DEF Sent
  <2> QED
    BY <1>2, <1>6, <2>1, <2>2 DEF AddForeign, Edit
<1>7. ASSUME NEW g \in Foreign, RemoveForeign(g)
      PROVE  \/ server'.uid = server.uid /\ Contains(server'.finalizers, f)
             \/ f \in Foreign /\ RemoveForeign(f)
  <2>1. PICK i \in 1 .. Len(server.finalizers) :
          server.finalizers[i] = g /\ Write([server EXCEPT !.finalizers = RemoveAt(@, i)])
    BY <1>7 DEF RemoveForeign
  <2>2. CASE f = g
    BY <1>7, <2>2
  <2>3. CASE f # g
    <3> DEFINE o == [server EXCEPT !.finalizers = RemoveAt(@, i)]
    <3>1. /\ RemoveAt(server.finalizers, i) \in Seq(Finalizers)
          /\ Contains(RemoveAt(server.finalizers, i), f)
      BY <2>1, <2>3, Fields, RemoveAtFields
    <3>2. o \in Sent /\ o.uid = server.uid /\ o.finalizers = RemoveAt(server.finalizers, i)
      BY <1>1, <3>1 DEF Sent
    <3> QED
      BY <1>2, <2>1, <3>1, <3>2
  <2> QED
    BY <2>2, <2>3
<1> QED
  BY <1>3, <1>4, <1>5, <1>6, <1>7 DEF Others

\* The worker takes one off only after its handler.
LEMMA WorkerLoses ==
  ASSUME TInv, Covered, Step, NEW f \in Finalizers, Contains(server.finalizers, f)
  PROVE  \/ server'.uid = server.uid /\ Contains(server'.finalizers, f)
         \/ <<server.uid, f>> \in cleaned
<1> USE DEF TInv, Types
<1>1. CASE UNCHANGED server
  BY <1>1
<1>2. ASSUME NEW ok \in BOOLEAN, AddFinalizer(ok), server' # server
      PROVE  \/ server'.uid = server.uid /\ Contains(server'.finalizers, f)
             \/ <<server.uid, f>> \in cleaned
  <2> DEFINE o == [obj EXCEPT !.finalizers = Append(@, finalizer)]
  <2>1. /\ o \in Object /\ o.rev = obj.rev /\ o.uid = obj.uid /\ obj \in Copies
        /\ \A g : Contains(obj.finalizers, g) => Contains(o.finalizers, g)
    BY <1>2, Added DEF AddFinalizer
  <2>2. Call(o, o, ok)
    BY <1>2 DEF AddFinalizer
  <2> HIDE DEF o
  <2>3. Accepts(o) /\ Write(o)
    BY <1>2, <2>2, CallCases
  <2>4. obj.uid = server.uid /\ (Contains(obj.finalizers, f) \/ <<server.uid, f>> \in cleaned)
    BY <2>1, <2>3 DEF Accepts, Covered, Covers
  <2>5. o \in Sent
    BY <2>1, ObjectsSent DEF Objects
  <2> QED
    BY <2>1, <2>3, <2>4, <2>5, WriteKeeps
<1>3. ASSUME NEW ok \in BOOLEAN, UpdateStatus(ok), server' # server
      PROVE  \/ server'.uid = server.uid /\ Contains(server'.finalizers, f)
             \/ <<server.uid, f>> \in cleaned
  <2>1. PICK o \in {server, new} : Call(new, o, ok)
    BY <1>3 DEF UpdateStatus
  <2>2. Accepts(new) /\ Write(o) /\ pc = "status"
    BY <1>3, <2>1, CallCases DEF UpdateStatus
  <2>3. o \in Sent /\ o.uid = server.uid
    BY <2>2, StatusAccepted, StatusCovered
  <2>4. Contains(o.finalizers, f) \/ <<server.uid, f>> \in cleaned
    BY <2>2, StatusCovered
  <2> QED
    BY <2>2, <2>3, <2>4, WriteKeeps
<1>4. ASSUME NEW ok \in BOOLEAN, RemoveFinalizer(ok), server' # server
      PROVE  \/ server'.uid = server.uid /\ Contains(server'.finalizers, f)
             \/ <<server.uid, f>> \in cleaned
  <2> DEFINE o == [new EXCEPT !.finalizers = Tail(obj.finalizers)]
  <2>1. /\ o \in Object /\ o.rev = new.rev /\ o.uid = new.uid
        /\ new.uid = obj.uid /\ Covers(new, obj.finalizers, server, cleaned)
        /\ \A g \in Finalizers : Contains(obj.finalizers, g) =>
             Contains(o.finalizers, g) \/ <<obj.uid, g>> \in cleaned
    BY <1>4, Removed DEF RemoveFinalizer
  <2>2. Call(o, o, ok)
    BY <1>4 DEF RemoveFinalizer
  <2> HIDE DEF o
  <2>3. Accepts(o) /\ Write(o)
    BY <1>4, <2>2, CallCases
  <2>4. new.uid = server.uid /\ (Contains(obj.finalizers, f) \/ <<server.uid, f>> \in cleaned)
    BY <2>1, <2>3 DEF Accepts, Covers
  <2>5. o \in Sent
    BY <2>1, ObjectsSent DEF Objects
  <2> QED
    BY <2>1, <2>3, <2>4, <2>5, WriteKeeps
<1>5. ASSUME Take \/ GetCached \/ GetRecent \/ Skip \/ Handle \/ HandleFails
               \/ StatusUnchanged \/ Keep \/ Done
      PROVE  UNCHANGED server
  BY <1>5 DEF Take, GetCached, GetRecent, Skip, Handle, HandleFails, StatusUnchanged, Keep,
              Done, client
<1> QED
  BY <1>1, <1>2, <1>3, <1>4, <1>5 DEF Step

LEMMA Loses ==
  ASSUME TInv, Covered, [Next]_vars, NEW f \in Finalizers, Contains(server.finalizers, f),
         server'.uid # server.uid \/ ~ Contains(server'.finalizers, f)
  PROVE  <<server.uid, f>> \in cleaned \/ (f \in Foreign /\ RemoveForeign(f))
<1>1. ~ UNCHANGED server
  OBVIOUS
<1>2. CASE Event
  BY <1>1, <1>2 DEF Event, Sync
<1>3. CASE UNCHANGED vars
  BY <1>1, <1>3 DEF vars, client
<1>4. CASE Others /\ UNCHANGED worker
  BY <1>4, OthersLose
<1>5. CASE Step
  BY <1>5, WorkerLoses
<1> QED
  BY <1>2, <1>3, <1>4, <1>5 DEF Next

LEMMA CoveredAlways == TRUE \notin Refresh => (Spec => [](TInv /\ Covered))
<1> SUFFICES ASSUME TRUE \notin Refresh PROVE Spec => [](TInv /\ Covered)
  OBVIOUS
<1>1. Init => TInv /\ Covered
  BY InitTInv, InitCovered
<1>2. TInv /\ Covered /\ [Next]_vars => (TInv /\ Covered)'
  BY StepInv
<1> QED
  BY <1>1, <1>2, PTL DEF Spec

\* A finalizer of ours leaves the object only after its handler has succeeded for this
\* object, for handlers that do not read their object again.
THEOREM CleanedBeforeGone == TRUE \notin Refresh => (Spec => CleanedFirst)
<1>1. TInv /\ Covered /\ [Next]_vars =>
        [\A f \in Ours :
           Contains(server.finalizers, f)
             /\ (server'.uid # server.uid \/ ~Contains(server'.finalizers, f)) =>
               <<server.uid, f>> \in cleaned]_vars
  BY Loses, CacheClientAssumption DEF Finalizers
<1> QED
  BY <1>1, CoveredAlways, PTL DEF Spec, CleanedFirst

\* No write of the process takes a finalizer of others off, for such handlers.
THEOREM OthersFinalizersStay == TRUE \notin Refresh => (Spec => ForeignKept)
<1>1. TInv /\ Covered /\ [Next]_vars =>
        [\A f \in Foreign :
           Contains(server.finalizers, f)
             /\ (server'.uid # server.uid \/ ~Contains(server'.finalizers, f)) =>
               RemoveForeign(f)]_vars
  BY Loses, CacheClientAssumption DEF Finalizers, TInv, Types
<1> QED
  BY <1>1, CoveredAlways, PTL DEF Spec, ForeignKept
=============================================================================
