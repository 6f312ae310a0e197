------------------------ MODULE SharedHandler_proofs ------------------------
(***************************************************************************)
(* The slice of handlers is well formed outside a removal, an iteration    *)
(* stays within the array it reads, and no handler misses a change, for    *)
(* any handlers, transactions, objects and workers.                        *)
(***************************************************************************)
EXTENDS SharedHandler, SequenceTheorems, TLAPS

Entries == Handlers \cup {None}

Registered(h) == reg[h] \in {"added", "done"}

\* The slice, at every step of a removal: but for the slot that is to be overwritten
\* it holds each handler once, and every handler that has not been cancelled.
SliceInv ==
  /\ array \in Seq(Entries) /\ len \in 0 .. Len(array) /\ moving \in 0 .. len
  /\ \A i \in 1 .. len : array[i] \in Handlers /\ Registered(array[i])
  /\ \A i, j \in 1 .. len : array[i] = array[j] /\ i # moving /\ j # moving => i = j
  /\ \A h \in Handlers : Registered(h) /\ h \notin cancelled =>
       \E j \in 1 .. len : j # moving /\ array[j] = h

\* The types of the rest.
ObjectInv ==
  /\ reg \in [Handlers -> Stages] /\ cancelled \subseteq Handlers
  /\ started \in BOOLEAN /\ ver \in [Keys -> 1 .. MaxVer]
  /\ due \subseteq Keys
  /\ seen \in [Handlers -> [Keys -> 0 .. MaxVer]]
  /\ shaken \subseteq Handlers \X Keys
  /\ fails \in 0 .. MaxFails

Work == [key : Keys \cup {None}, val : 0 .. MaxVer, next : Nat, len : Nat,
         old : Seq(Entries), err : BOOLEAN]

\* A worker reads handlers only; it has no array of its own before it iterates.
WorkInv ==
  /\ work \in [Workers -> Work]
  /\ \A w \in Workers :
       /\ work[w].key = None => work[w].next = 0
       /\ work[w].next = 0 => work[w].len = 0 /\ work[w].old = <<>>
       /\ work[w].next <= work[w].len + 1 /\ work[w].len <= Len(Slots(w))
       /\ \A i \in 1 .. work[w].len : Slots(w)[i] \in Handlers

\* A key is handled by one worker at a time,
OneWorker ==
  \A v, w \in Workers : work[v].key = work[w].key /\ work[v].key # None => v = w

Settled(k) == started /\ k \notin due

\* who has read the last version of the object if the key is not queued again.
Current ==
  \A w \in Workers : work[w].key # None /\ Settled(work[w].key)
                       => work[w].val = ver[work[w].key]

\* During a removal, the handlers that are yet to be moved in an array that is
\* iterated over: their calls may be lost, unless they were made before.
MovedAreShaken ==
  moving > 0 =>
    \A w \in Workers, j \in 1 .. len :
      j >= moving /\ work[w].next > 0 /\ work[w].old = <<>> /\ Settled(work[w].key)
        => \/ array[j] \in cancelled
           \/ <<array[j], work[w].key>> \in shaken
           \/ seen[array[j]][work[w].key] = ver[work[w].key]

\* The worker has handler h before it, in a slot that is in use.
Ahead(w, h) ==
  \E j \in 1 .. work[w].len :
    j >= work[w].next /\ Slots(w)[j] = h /\ (work[w].old = <<>> => j <= len)

\* A handler that has not seen the last version of an object that is not queued is
\* going to be called by the worker that has the object, or the object is going to be
\* queued again, for an error.
SeenOrAhead ==
  \A k \in Keys, h \in Handlers :
    Settled(k) /\ reg[h] = "done" /\ h \notin cancelled /\ <<h, k>> \notin shaken
      => \/ seen[h][k] = ver[k]
         \/ \E w \in Workers : work[w].key = k /\ (work[w].next = 0 \/ work[w].err \/ Ahead(w, h))

Types == SliceInv /\ ObjectInv /\ WorkInv
Calls == OneWorker /\ Current /\ MovedAreShaken /\ SeenOrAhead
IInv  == Types /\ Calls

---------------------------------------------------------------------------
(* The invariant says what the properties say.                             *)

LEMMA WorkFields ==
  ASSUME work \in [Workers -> Work], NEW w \in Workers
  PROVE  /\ work[w].key \in Keys \cup {None} /\ work[w].val \in 0 .. MaxVer
         /\ work[w].next \in Nat /\ work[w].len \in Nat
         /\ work[w].old \in Seq(Entries) /\ work[w].err \in BOOLEAN
BY DEF Work

LEMMA TypesImply == ASSUME Types PROVE TypeOK
<1> USE DEF Types
<1>1. /\ array \in Seq(Handlers \cup {None}) /\ len \in 0 .. Len(array) /\ moving \in 0 .. len
  BY DEF SliceInv, Entries
<1>2. ASSUME moving = 0
      PROVE  /\ \A i, j \in 1 .. len : array[i] = array[j] => i = j
             /\ \A h \in Handlers : reg[h] \in {"added", "done"} /\ h \notin cancelled => h \in In
             /\ \A h \in In : reg[h] \in {"added", "done"}
  BY <1>2 DEF SliceInv, In, Registered
<1>3. ASSUME NEW w \in Workers
      PROVE  /\ work[w].key \in Keys \cup {None} /\ work[w].val \in 0 .. MaxVer
             /\ work[w].len <= Len(Slots(w)) /\ work[w].next \in 0 .. work[w].len + 1
             /\ \A i \in 1 .. work[w].len : Slots(w)[i] \in Handlers
  BY WorkFields DEF WorkInv
<1> QED
  BY <1>1, <1>2, <1>3 DEF ObjectInv, TypeOK

LEMMA InvImplies == ASSUME IInv PROVE NoMissedChange
<1> SUFFICES ASSUME NEW k \in Keys, NEW h \in Handlers, Settled(k),
                    \A w \in Workers : work[w].key # k,
                    reg[h] = "done", h \notin cancelled, <<h, k>> \notin shaken
             PROVE  seen[h][k] = ver[k]
  BY DEF NoMissedChange, Settled
<1> QED
  BY DEF IInv, Calls, SeenOrAhead

LEMMA InitInv == ASSUME Init PROVE IInv
<1> USE SharedHandlerAssumption
<1>1. SliceInv
  BY DEF Init, SliceInv, Registered, Entries
<1>2. 1 \in 1 .. MaxVer /\ 0 \in 0 .. MaxVer /\ 0 \in 0 .. MaxFails /\ "new" \in Stages
  BY DEF Stages
<1>6. ObjectInv
  BY <1>2, Zenon DEF Init, ObjectInv
<1>3. work = [w \in Workers |-> Idle] /\ Idle \in Work
  BY DEF Init, Idle, Work, Entries
<1>4. WorkInv
  BY <1>3, EmptySeq DEF Init, Idle, WorkInv, Slots
<1>5. Calls
  BY <1>3 DEF Init, Idle, Calls, OneWorker, Current, MovedAreShaken, SeenOrAhead, Settled
<1> QED
  BY <1>1, <1>6, <1>4, <1>5 DEF IInv, Types

---------------------------------------------------------------------------
(* What steps have in common.                                              *)

LEMMA SliceKept ==
  ASSUME SliceInv, UNCHANGED slice, cancelled \subseteq cancelled',
         \A h \in Handlers : Registered(h)' = Registered(h)
  PROVE  SliceInv'
<1>1. array' = array /\ len' = len /\ moving' = moving
  BY DEF slice
<1> QED
  BY <1>1 DEF SliceInv, Entries

LEMMA WorkKept == ASSUME WorkInv, UNCHANGED <<array, work>> PROVE WorkInv'
BY DEF WorkInv, Slots, Work, Entries

LEMMA KeysAreKeys == \A k \in Keys : k # None
BY SharedHandlerAssumption

\* Steps that leave every handler's calls as they are: nothing but the queue grows,
\* more handlers are cancelled or shaken.
LEMMA CallsKept ==
  ASSUME IInv, UNCHANGED <<slice, work, seen>>,
         due \subseteq due', cancelled \subseteq cancelled', shaken' = shaken,
         \A k \in Keys : Settled(k)' => Settled(k) /\ ver'[k] = ver[k],
         \A h \in Handlers, k \in Keys :
           Settled(k)' /\ reg'[h] = "done" /\ h \notin cancelled' => reg[h] = "done"
  PROVE  Calls'
<1>1. array' = array /\ len' = len /\ moving' = moving /\ work' = work /\ seen' = seen
  BY DEF slice
<1>2. \A w \in Workers : work[w].key \in Keys \cup {None} /\ (work[w].next > 0 => work[w].key \in Keys)
  BY WorkFields DEF IInv, Types, WorkInv
<1>3. OneWorker'
  BY <1>1 DEF IInv, Calls, OneWorker
<1>4. Current'
  BY <1>1, <1>2 DEF IInv, Calls, Current
<1>5. MovedAreShaken'
  BY <1>1, <1>2 DEF IInv, Calls, MovedAreShaken
<1>6. \A w \in Workers, h \in Handlers : Ahead(w, h)' = Ahead(w, h)
  BY <1>1 DEF Ahead, Slots
<1>7. SeenOrAhead'
  BY <1>1, <1>6 DEF IInv, Calls, SeenOrAhead
<1> QED
  BY <1>3, <1>4, <1>5, <1>7 DEF Calls

---------------------------------------------------------------------------
(* Objects, transactions and contexts.                                     *)

LEMMA ChangeInv == ASSUME IInv, NEW k \in Keys, Change(k) PROVE IInv'
<1> USE DEF IInv, Types, Change
<1>1. SliceInv'
  BY SliceKept DEF Registered
<1>2. ver[k] + 1 \in 1 .. MaxVer /\ ver' = [ver EXCEPT ![k] = ver[k] + 1]
  BY SharedHandlerAssumption DEF ObjectInv
<1>3. ObjectInv'
  BY <1>2, Zenon DEF ObjectInv, objects, slice, Stages
<1>4. WorkInv'
  BY WorkKept DEF slice
<1>5. \A l \in Keys : Settled(l)' => Settled(l) /\ ver'[l] = ver[l]
  BY DEF Settled, ObjectInv
<1>6. Calls'
  BY <1>5, CallsKept
<1> QED
  BY <1>1, <1>3, <1>4, <1>6

LEMMA StartInv == ASSUME IInv, Start PROVE IInv'
<1> USE DEF IInv, Types, Start
<1>1. SliceInv'
  BY SliceKept DEF Registered
<1>2. ObjectInv'
  BY DEF ObjectInv, slice, Stages
<1>3. WorkInv'
  BY WorkKept DEF slice
<1>4. \A l \in Keys : ~ Settled(l)'
  BY DEF Settled
<1>5. Calls'
  BY <1>4, CallsKept DEF ObjectInv
<1> QED
  BY <1>1, <1>2, <1>3, <1>5

\* A registration that is not added yet moves to another stage.
LEMMA StageInv ==
  ASSUME IInv, reg' \in [Handlers -> Stages],
         \A h \in Handlers : Registered(h)' = Registered(h),
         \A h \in Handlers : reg'[h] = "done" => reg[h] = "done",
         UNCHANGED <<slice, cancelled, objects, due, work, seen, shaken, fails>>
  PROVE  IInv'
<1> USE DEF IInv, Types
<1>1. SliceInv'
  BY SliceKept
<1>2. ObjectInv'
  BY DEF ObjectInv, objects, Stages
<1>3. WorkInv'
  BY WorkKept DEF slice
<1>4. Calls'
  BY CallsKept DEF Settled, objects
<1> QED
  BY <1>1, <1>2, <1>3, <1>4

LEMMA RegisterHandlerInv == ASSUME IInv, NEW h \in Handlers, RegisterHandler(h) PROVE IInv'
<1>1. reg \in [Handlers -> Stages]
  BY DEF IInv, Types, ObjectInv
<1>2. /\ reg' \in [Handlers -> Stages]
      /\ \A g \in Handlers : reg'[g] # reg[g] => reg[g] = "new" /\ reg'[g] \in {"todo", "run"}
  BY <1>1 DEF RegisterHandler, Stages
<1> QED
  BY <1>2, StageInv DEF RegisterHandler, Registered

LEMMA TransactionInv == ASSUME IInv, Commit \/ Rollback PROVE IInv'
<1>1. reg \in [Handlers -> Stages]
  BY DEF IInv, Types, ObjectInv
<1>2. /\ reg' \in [Handlers -> Stages]
      /\ \A g \in Handlers : reg'[g] # reg[g] => reg[g] = "todo" /\ reg'[g] \in {"run", "dropped"}
  BY <1>1 DEF Commit, Rollback, Todo, Stages
<1> QED
  BY <1>2, StageInv DEF Commit, Rollback, Registered

LEMMA EnqueueInv == ASSUME IInv, NEW h \in Handlers, Enqueue(h) PROVE IInv'
<1> USE DEF IInv, Types, Enqueue
<1>1. SliceInv'
  BY SliceKept DEF ObjectInv, Registered
<1>2. ObjectInv'
  BY DEF ObjectInv, objects, Stages
<1>3. WorkInv'
  BY WorkKept DEF slice
<1>4. \A l \in Keys : ~ Settled(l)'
  BY DEF Settled, objects
<1>5. Calls'
  BY <1>4, CallsKept DEF ObjectInv
<1> QED
  BY <1>1, <1>2, <1>3, <1>5

LEMMA EnqueueFailsInv == ASSUME IInv, NEW h \in Handlers, EnqueueFails(h) PROVE IInv'
<1> USE DEF IInv, Types, EnqueueFails
<1>1. SliceInv'
  BY SliceKept DEF ObjectInv, Registered
<1>2. fails' \in 0 .. MaxFails
  BY SharedHandlerAssumption DEF Failing, ObjectInv
<1>3. ObjectInv'
  BY <1>2 DEF ObjectInv, objects, Stages
<1>4. WorkInv'
  BY WorkKept DEF slice
<1>5. \A g \in Handlers : reg'[g] = "done" /\ g \notin cancelled' => reg[g] = "done"
  BY DEF ObjectInv
<1>6. Calls'
  BY <1>5, CallsKept DEF Settled, objects
<1> QED
  BY <1>1, <1>3, <1>4, <1>6

LEMMA CancelInv == ASSUME IInv, NEW h \in Handlers, Cancel(h) PROVE IInv'
<1> USE DEF IInv, Types, Cancel
<1>1. SliceInv'
  BY SliceKept DEF Registered
<1>2. ObjectInv'
  BY DEF ObjectInv, objects, Stages
<1>3. WorkInv'
  BY WorkKept DEF slice
<1>4. Calls'
  BY CallsKept DEF Settled, objects
<1> QED
  BY <1>1, <1>2, <1>3, <1>4

---------------------------------------------------------------------------
(* Register: the array has room, or workers keep the one they read.        *)

LEMMA RegisteredArray ==
  ASSUME SliceInv, NEW h \in Handlers, Register(h)
  PROVE  /\ array' \in Seq(Entries) /\ len + 1 \in 1 .. Len(array') /\ array'[len + 1] = h
         /\ \A j \in 1 .. len : array'[j] = array[j]
<1> USE DEF SliceInv, Entries
<1>1. Len(array) \in Nat /\ array \in [1 .. Len(array) -> Entries] /\ len \in Nat
  BY LenProperties
<1>2. CASE len < Len(array) /\ array' = [array EXCEPT ![len + 1] = h]
  BY <1>1, <1>2, ExceptSeq
<1>3. CASE /\ len = Len(array)
           /\ array' = [i \in 1 .. Grown(len) |-> IF i <= len THEN array[i]
                                                  ELSE IF i = len + 1 THEN h ELSE None]
  <2>1. Grown(len) \in Nat /\ len + 1 <= Grown(len)
    BY <1>1 DEF Grown
  <2>2. array' \in [1 .. Grown(len) -> Entries]
    BY <1>1, <1>3, <2>1
  <2>3. array' \in Seq(Entries) /\ Len(array') = Grown(len)
    BY <2>1, <2>2
  <2> QED
    BY <1>1, <1>3, <2>1, <2>3
<1> QED
  BY <1>2, <1>3 DEF Register

LEMMA RegisterSlice == ASSUME Types, NEW h \in Handlers, Register(h) PROVE SliceInv'
<1>1. /\ array' \in Seq(Entries) /\ len + 1 \in 1 .. Len(array') /\ array'[len + 1] = h
      /\ \A j \in 1 .. len : array'[j] = array[j]
  BY RegisteredArray DEF Types
<1>2. /\ reg[h] = "run" /\ len' = len + 1 /\ moving = 0 /\ moving' = 0 /\ cancelled' = cancelled
      /\ reg' = [reg EXCEPT ![h] = "added"] /\ reg \in [Handlers -> Stages]
  BY DEF Register, Types, ObjectInv
<1>3. SliceInv /\ len \in Nat
  BY DEF Types, SliceInv
<1>4. ~ Registered(h) /\ \A g \in Handlers : Registered(g)' = (g = h \/ Registered(g))
  BY <1>2 DEF Registered, Stages
<1>5. ASSUME NEW i \in 1 .. len + 1
      PROVE  array'[i] \in Handlers /\ reg'[array'[i]] \in {"added", "done"}
  <2>1. CASE i \in 1 .. len
    BY <1>1, <1>2, <1>3, <2>1 DEF SliceInv, Registered
  <2>2. CASE i = len + 1
    BY <1>1, <1>2, <2>2
  <2> QED
    BY <1>3, <2>1, <2>2
<1>6. \A i \in 1 .. len : array[i] # h
  BY <1>3, <1>4 DEF SliceInv
<1>7. \A i, j \in 1 .. len + 1 : array'[i] = array'[j] => i = j
  <2> SUFFICES ASSUME NEW i \in 1 .. len + 1, NEW j \in 1 .. len + 1, array'[i] = array'[j]
               PROVE  i = j
    OBVIOUS
  <2>1. CASE i \in 1 .. len /\ j \in 1 .. len
    BY <1>1, <1>2, <1>3, <2>1 DEF SliceInv
  <2>2. CASE i = len + 1 \/ j = len + 1
    BY <1>1, <1>3, <1>6, <2>2
  <2> QED
    BY <1>3, <2>1, <2>2
<1>8. ASSUME NEW g \in Handlers, Registered(g)', g \notin cancelled
      PROVE  \E j \in 1 .. len + 1 : j # 0 /\ array'[j] = g
  <2>1. CASE g = h
    BY <1>1, <1>3, <2>1
  <2>2. CASE g # h
    <3>1. PICK j \in 1 .. len : array[j] = g
      BY <1>3, <1>4, <1>8, <2>2 DEF SliceInv
    <3> QED
      BY <1>1, <1>3, <3>1
  <2> QED
    BY <2>1, <2>2
<1>9. len + 1 \in 0 .. Len(array') /\ 0 \in 0 .. len + 1
  BY <1>1, <1>3
<1>10. \A g \in Handlers : Registered(g)' /\ g \notin cancelled =>
         \E j \in 1 .. len + 1 : j # 0 /\ array'[j] = g
  BY <1>8
<1> HIDE DEF Registered
<1>11. /\ array' \in Seq(Handlers \cup {None}) /\ len' \in 0 .. Len(array') /\ moving' \in 0 .. len'
       /\ \A i \in 1 .. len' : array'[i] \in Handlers /\ reg'[array'[i]] \in {"added", "done"}
       /\ \A i, j \in 1 .. len' : array'[i] = array'[j] /\ i # moving' /\ j # moving' => i = j
  BY <1>1, <1>2, <1>5, <1>7, <1>9 DEF Entries
<1>12. \A g \in Handlers : Registered(g)' /\ g \notin cancelled' =>
         \E j \in 1 .. len' : j # moving' /\ array'[j] = g
  BY <1>2, <1>10
<1> QED
  BY <1>11, <1>12 DEF SliceInv, Entries, Registered

\* What the workers read stays what it was.
LEMMA RegisterSlots ==
  ASSUME Types, NEW h \in Handlers, Register(h), NEW w \in Workers
  PROVE  /\ work'[w] \in Work
         /\ work'[w].key = work[w].key /\ work'[w].val = work[w].val
         /\ work'[w].next = work[w].next /\ work'[w].len = work[w].len
         /\ work'[w].err = work[w].err
         /\ work[w].next = 0 => work'[w].old = work[w].old
         /\ work[w].len <= Len(Slots(w)')
         /\ \A j \in 1 .. work[w].len : Slots(w)'[j] = Slots(w)[j] \/ (j = len + 1 /\ Slots(w)'[j] = h)
         /\ work[w].len > 0 /\ work'[w].old = <<>> => work[w].old = <<>>
         /\ work[w].len > 0 => \A j \in 1 .. work[w].len :
              j <= len \/ work[w].old # <<>> => Slots(w)'[j] = Slots(w)[j]
<1>1. /\ array' \in Seq(Entries) /\ len + 1 \in 1 .. Len(array') /\ array'[len + 1] = h
      /\ \A j \in 1 .. len : array'[j] = array[j]
  BY RegisteredArray DEF Types
<1>2. /\ array \in Seq(Entries) /\ Len(array) \in Nat /\ len \in Nat /\ Len(array') \in Nat
  BY <1>1, LenProperties DEF Types, SliceInv
<1>3. /\ work \in [Workers -> Work] /\ work[w] \in Work
      /\ work[w].next \in Nat /\ work[w].len \in Nat /\ work[w].old \in Seq(Entries)
      /\ work[w].next = 0 => work[w].len = 0 /\ work[w].old = <<>>
      /\ work[w].len <= Len(Slots(w))
  BY WorkFields DEF Types, WorkInv
<1>4. CASE len < Len(array) /\ array' = [array EXCEPT ![len + 1] = h] /\ UNCHANGED work
  <2>1. /\ Len(array') = Len(array)
        /\ \A j \in 1 .. Len(array) : array'[j] = IF j = len + 1 THEN h ELSE array[j]
    BY <1>2, <1>4, ExceptSeq DEF Entries
  <2>2. Slots(w) = (IF work[w].old = <<>> THEN array ELSE work[w].old)
    BY DEF Slots
  <2>3. Slots(w)' = (IF work[w].old = <<>> THEN array' ELSE work[w].old)
    BY <1>4 DEF Slots
  <2> HIDE DEF Slots
  <2> QED
    BY <1>2, <1>3, <1>4, <2>1, <2>2, <2>3
<1>5. CASE len = Len(array) /\ work' = [v \in Workers |->
             IF v \in Iterating THEN [work[v] EXCEPT !.old = Slots(v)] ELSE work[v]]
  <2>1. Slots(w) \in Seq(Entries)
    BY <1>2, <1>3 DEF Slots
  <2>2. CASE work[w].next > 0
    <3>1. work'[w] = [work[w] EXCEPT !.old = Slots(w)]
      BY <1>5, <2>2 DEF Iterating
    <3>2. /\ work'[w] \in Work /\ work'[w].old = Slots(w)
          /\ work'[w].key = work[w].key /\ work'[w].val = work[w].val
          /\ work'[w].next = work[w].next /\ work'[w].len = work[w].len
          /\ work'[w].err = work[w].err
      BY <1>3, <2>1, <3>1 DEF Work
    <3>3. work[w].len > 0 => Slots(w) # <<>>
      BY <1>3
    <3>4. work[w].len > 0 => Slots(w)' = Slots(w)
      BY <3>2, <3>3 DEF Slots
    <3>5. work[w].len = 0 => Slots(w)' \in Seq(Entries)
      BY <1>1, <2>1, <3>2 DEF Slots
    <3>6. work[w].len <= Len(Slots(w)')
      BY <1>3, <3>4, <3>5, LenProperties
    <3> QED
      BY <1>3, <2>2, <3>2, <3>3, <3>4, <3>6
  <2>3. CASE work[w].next = 0
    <3>1. work'[w] = work[w] /\ work[w].len = 0 /\ work[w].old = <<>>
      BY <1>3, <1>5, <2>3 DEF Iterating
    <3>2. Slots(w)' = array'
      BY <3>1 DEF Slots
    <3> QED
      BY <1>2, <1>3, <3>1, <3>2
  <2> QED
    BY <1>3, <2>2, <2>3
<1> QED
  BY <1>4, <1>5 DEF Register

LEMMA RegisterInv == ASSUME IInv, NEW h \in Handlers, Register(h) PROVE IInv'
<1> USE DEF IInv
<1>1. /\ moving' = 0 /\ len' = len + 1 /\ reg' = [reg EXCEPT ![h] = "added"]
      /\ work' \in [Workers -> Work]
      /\ UNCHANGED <<cancelled, started, ver, due, seen, shaken, fails>>
  <2>1. work' = [w \in Workers |-> work'[w]]
    BY DEF Register, Types, WorkInv
  <2>2. \A w \in Workers : work'[w] \in Work
    BY RegisterSlots
  <2>3. work' \in [Workers -> Work]
    BY <2>1, <2>2, Zenon
  <2> QED
    BY <2>3 DEF Register, objects
<1>2. SliceInv'
  BY RegisterSlice
<1>3. ObjectInv'
  BY <1>1 DEF Types, ObjectInv, Stages
<1>4. WorkInv'
  <2>1. ASSUME NEW w \in Workers, NEW i \in 1 .. work'[w].len PROVE Slots(w)'[i] \in Handlers
    BY <2>1, RegisterSlots DEF Types, WorkInv
  <2> QED
    BY <1>1, <2>1, RegisterSlots DEF Types, WorkInv
<1>5. OneWorker'
  BY RegisterSlots DEF Calls, OneWorker
<1>6. Current'
  BY <1>1, RegisterSlots DEF Calls, Current, Settled
<1>7. MovedAreShaken'
  BY <1>1 DEF MovedAreShaken
<1>8. ASSUME NEW w \in Workers, NEW g \in Handlers, Ahead(w, g)
      PROVE  Ahead(w, g)'
  <2>1. PICK j \in 1 .. work[w].len :
          j >= work[w].next /\ Slots(w)[j] = g /\ (work[w].old = <<>> => j <= len)
    BY <1>8 DEF Ahead
  <2>2. work[w].len \in Nat /\ len \in Nat
    BY WorkFields DEF Types, WorkInv, SliceInv
  <2>3. Slots(w)'[j] = g
    BY <2>1, <2>2, RegisterSlots
  <2>4. work'[w].old = <<>> => j <= len + 1
    BY <2>1, <2>2, RegisterSlots
  <2> QED
    BY <1>1, <2>1, <2>3, <2>4, RegisterSlots DEF Ahead
<1>9. SeenOrAhead'
  <2> SUFFICES ASSUME NEW k \in Keys, NEW g \in Handlers, Settled(k)', reg'[g] = "done",
                      g \notin cancelled', <<g, k>> \notin shaken'
               PROVE  \/ seen'[g][k] = ver'[k]
                      \/ \E w \in Workers :
                           work'[w].key = k /\ (work'[w].next = 0 \/ work'[w].err \/ Ahead(w, g)')
    BY DEF SeenOrAhead
  <2>1. Settled(k) /\ reg[g] = "done" /\ g \notin cancelled /\ <<g, k>> \notin shaken
    BY <1>1 DEF Settled, Types, ObjectInv
  <2>2. CASE seen[g][k] = ver[k]
    BY <1>1, <2>2
  <2>3. CASE \E w \in Workers : work[w].key = k /\ (work[w].next = 0 \/ work[w].err \/ Ahead(w, g))
    BY <2>3, <1>8, RegisterSlots
  <2> QED
    BY <2>1, <2>2, <2>3 DEF Calls, SeenOrAhead
<1> QED
  BY <1>2, <1>3, <1>4, <1>5, <1>6, <1>7, <1>9 DEF Types, Calls

---------------------------------------------------------------------------
(* A removal.                                                              *)

LEMMA RemoveInv == ASSUME IInv, NEW i \in 1 .. len, Remove(i) PROVE IInv'
<1> USE DEF IInv
<1>1. /\ moving = 0 /\ array[i] \in cancelled /\ moving' = i
      /\ UNCHANGED <<array, len, reg, cancelled, started, ver, due, work, seen, fails>>
      /\ shaken' = shaken \cup {<<array[j], work[w].key>> : j \in i + 1 .. len,
                                  w \in {v \in Iterating : work[v].old = <<>>}}
  BY DEF Remove, objects
<1>2. len \in Nat
  BY DEF Types, SliceInv
<1>3. SliceInv'
  BY <1>1 DEF Types, SliceInv, Registered, Entries
<1>4. shaken' \subseteq Handlers \X Keys
  <2>1. \A j \in i + 1 .. len : array[j] \in Handlers
    BY <1>2 DEF Types, SliceInv
  <2>2. \A w \in Iterating : work[w].key \in Keys
    BY WorkFields DEF Types, WorkInv, Iterating
  <2> QED
    BY <1>1, <2>1, <2>2 DEF Types, ObjectInv
<1>5. ObjectInv'
  BY <1>1, <1>4 DEF Types, ObjectInv, Stages
<1>6. WorkInv'
  BY <1>1, WorkKept DEF Types
<1>7. OneWorker' /\ Current'
  BY <1>1 DEF Calls, OneWorker, Current, Settled
<1>8. MovedAreShaken'
  <2> SUFFICES ASSUME NEW w \in Workers, NEW j \in 1 .. len, j >= i,
                      work[w].next > 0, work[w].old = <<>>
               PROVE  array[j] \in cancelled \/ <<array[j], work[w].key>> \in shaken'
    BY <1>1 DEF MovedAreShaken
  <2>1. CASE j = i
    BY <1>1, <2>1
  <2>2. CASE j > i
    <3>1. j \in i + 1 .. len /\ w \in {v \in Iterating : work[v].old = <<>>}
      BY <1>2, <2>2 DEF Iterating
    <3> QED
      BY <1>1, <3>1
  <2> QED
    BY <1>2, <2>1, <2>2
<1>9. SeenOrAhead'
  <2>1. \A w \in Workers, h \in Handlers : Ahead(w, h)' = Ahead(w, h)
    BY <1>1 DEF Ahead, Slots
  <2>2. shaken \subseteq shaken'
    BY <1>1
  <2> QED
    BY <1>1, <2>1, <2>2 DEF Calls, SeenOrAhead, Settled
<1> QED
  BY <1>3, <1>5, <1>6, <1>7, <1>8, <1>9 DEF Types, Calls

\* One handler takes the slot before its own.
MoveOne ==
  /\ moving < len
  /\ array' = [array EXCEPT ![moving] = array[moving + 1]]
  /\ moving' = moving + 1
  /\ UNCHANGED len

LEMMA MovedArray ==
  ASSUME SliceInv, moving > 0, MoveOne
  PROVE  /\ array' \in Seq(Entries) /\ Len(array') = Len(array)
         /\ moving \in 1 .. len /\ moving + 1 \in 1 .. len
         /\ \A j \in 1 .. Len(array) :
              array'[j] = IF j = moving THEN array[moving + 1] ELSE array[j]
<1>1. array \in Seq(Entries) /\ Len(array) \in Nat /\ len \in 0 .. Len(array) /\ moving \in 1 .. len
  BY LenProperties DEF SliceInv
<1>2. moving \in 1 .. Len(array) /\ moving + 1 \in 1 .. len /\ moving + 1 \in 1 .. Len(array)
  BY <1>1 DEF MoveOne
<1>3. array[moving + 1] \in Entries
  BY <1>1, <1>2, ElementOfSeq
<1> QED
  BY <1>1, <1>2, <1>3, ExceptSeq DEF MoveOne

LEMMA MoveOneSlice == ASSUME Types, Move, MoveOne PROVE SliceInv'
<1>1. /\ array' \in Seq(Entries) /\ Len(array') = Len(array)
      /\ moving \in 1 .. len /\ moving + 1 \in 1 .. len
      /\ \A j \in 1 .. Len(array) : array'[j] = IF j = moving THEN array[moving + 1] ELSE array[j]
  BY MovedArray DEF Types, Move
<1>2. SliceInv /\ Len(array) \in Nat /\ len \in 0 .. Len(array)
  BY LenProperties DEF Types, SliceInv
<1>3. UNCHANGED <<reg, cancelled>> /\ len' = len /\ moving' = moving + 1
  BY DEF Move, MoveOne
<1>4. \A j \in 1 .. len : array'[j] = IF j = moving THEN array[moving + 1] ELSE array[j]
  BY <1>1, <1>2
<1>5. \A i \in 1 .. len : array'[i] \in Handlers /\ Registered(array'[i])
  BY <1>1, <1>2, <1>4 DEF SliceInv
<1>6. \A i, j \in 1 .. len :
        array'[i] = array'[j] /\ i # moving + 1 /\ j # moving + 1 => i = j
  <2> SUFFICES ASSUME NEW i \in 1 .. len, NEW j \in 1 .. len,
                      array'[i] = array'[j], i # moving + 1, j # moving + 1, i # j
               PROVE  FALSE
    OBVIOUS
  <2>1. CASE i = moving
    <3>1. array[moving + 1] = array[j] /\ j # moving
      BY <1>4, <2>1
    <3> QED
      BY <1>1, <1>2, <3>1 DEF SliceInv
  <2>2. CASE j = moving
    <3>1. array[i] = array[moving + 1] /\ i # moving
      BY <1>4, <2>2
    <3> QED
      BY <1>1, <1>2, <3>1 DEF SliceInv
  <2>3. CASE i # moving /\ j # moving
    BY <1>2, <1>4, <2>3 DEF SliceInv
  <2> QED
    BY <2>1, <2>2, <2>3
<1>7. ASSUME NEW h \in Handlers, Registered(h), h \notin cancelled
      PROVE  \E j \in 1 .. len : j # moving + 1 /\ array'[j] = h
  <2>1. PICK j \in 1 .. len : j # moving /\ array[j] = h
    BY <1>2, <1>7 DEF SliceInv
  <2>2. CASE j = moving + 1
    BY <1>1, <1>4, <2>1, <2>2
  <2>3. CASE j # moving + 1
    BY <1>4, <2>1, <2>3
  <2> QED
    BY <2>2, <2>3
<1>8. \A h \in Handlers : Registered(h) /\ h \notin cancelled =>
         \E j \in 1 .. len : j # moving + 1 /\ array'[j] = h
  BY <1>7
<1>9. len \in 0 .. Len(array') /\ moving + 1 \in 0 .. len
  BY <1>1, <1>2
<1> QED
  BY <1>1, <1>3, <1>5, <1>6, <1>8, <1>9 DEF SliceInv, Entries, Registered

LEMMA MoveOneInv == ASSUME IInv, Move, MoveOne PROVE IInv'
<1> USE DEF IInv
<1>1. /\ array' \in Seq(Entries) /\ Len(array') = Len(array)
      /\ moving \in 1 .. len /\ moving + 1 \in 1 .. len
      /\ \A j \in 1 .. Len(array) : array'[j] = IF j = moving THEN array[moving + 1] ELSE array[j]
  BY MovedArray DEF Types, Move
<1>2. SliceInv /\ Len(array) \in Nat /\ len \in 0 .. Len(array)
  BY LenProperties DEF Types, SliceInv
<1>3. /\ len' = len /\ moving' = moving + 1
      /\ UNCHANGED <<reg, cancelled, started, ver, due, work, seen, shaken, fails>>
  BY DEF Move, MoveOne, objects
<1>4. SliceInv'
  BY MoveOneSlice
<1>5. ObjectInv'
  BY <1>3 DEF Types, ObjectInv, Stages
<1>6. ASSUME NEW w \in Workers
      PROVE  /\ Len(Slots(w)') = Len(Slots(w))
             /\ work[w].old # <<>> => Slots(w)' = Slots(w)
             /\ work[w].old = <<>> => Slots(w) = array /\ Slots(w)' = array'
  BY <1>1, <1>3 DEF Slots
<1>7. WorkInv'
  <2>1. WorkInv
    BY DEF Types
  <2>2. ASSUME NEW w \in Workers, NEW i \in 1 .. work[w].len PROVE Slots(w)'[i] \in Handlers
    <3>1. CASE work[w].old # <<>>
      BY <1>6, <2>1, <2>2, <3>1 DEF WorkInv
    <3>2. CASE work[w].old = <<>>
      <4>1. array[moving + 1] \in Handlers
        BY <1>1, <1>2 DEF SliceInv
      <4>2. i \in 1 .. Len(array) /\ array[i] \in Handlers
        BY <1>2, <1>6, <2>1, <2>2, <3>2, WorkFields DEF WorkInv
      <4> QED
        BY <1>1, <1>6, <3>2, <4>1, <4>2
    <3> QED
      BY <3>1, <3>2
  <2> QED
    BY <1>3, <1>6, <2>1, <2>2 DEF WorkInv, Work, Entries
<1>8. OneWorker' /\ Current'
  BY <1>3 DEF Calls, OneWorker, Current, Settled
<1>9. MovedAreShaken'
  <2> SUFFICES ASSUME NEW w \in Workers, NEW j \in 1 .. len, j >= moving + 1,
                      work[w].next > 0, work[w].old = <<>>, Settled(work[w].key)
               PROVE  \/ array'[j] \in cancelled
                      \/ <<array'[j], work[w].key>> \in shaken
                      \/ seen[array'[j]][work[w].key] = ver[work[w].key]
    BY <1>3 DEF MovedAreShaken, Settled
  <2>1. array'[j] = array[j] /\ j >= moving /\ moving > 0
    BY <1>1, <1>2
  <2> QED
    BY <2>1 DEF Calls, MovedAreShaken
<1>10. SeenOrAhead'
  <2> SUFFICES ASSUME NEW k \in Keys, NEW h \in Handlers, Settled(k), reg[h] = "done",
                      h \notin cancelled, <<h, k>> \notin shaken, seen[h][k] # ver[k]
               PROVE  \E w \in Workers :
                        work[w].key = k /\ (work[w].next = 0 \/ work[w].err \/ Ahead(w, h)')
    BY <1>3 DEF SeenOrAhead, Settled
  <2>1. PICK w \in Workers : work[w].key = k /\ (work[w].next = 0 \/ work[w].err \/ Ahead(w, h))
    BY DEF Calls, SeenOrAhead
  <2>2. CASE work[w].next > 0 /\ Ahead(w, h)
    <3>1. PICK j \in 1 .. work[w].len :
            j >= work[w].next /\ Slots(w)[j] = h /\ (work[w].old = <<>> => j <= len)
      BY <2>2 DEF Ahead
    <3>2. CASE work[w].old # <<>>
      BY <1>3, <1>6, <2>1, <3>1, <3>2 DEF Ahead
    <3>3. CASE work[w].old = <<>>
      <4>1. j \in 1 .. len /\ array[j] = h /\ moving > 0
        BY <1>1, <1>2, <1>6, <3>1, <3>3, WorkFields DEF Types, WorkInv
      <4>2. ~ (j >= moving)
        BY <2>1, <2>2, <3>3, <4>1 DEF Calls, MovedAreShaken
      <4>3. array'[j] = h
        BY <1>1, <1>2, <4>1, <4>2
      <4> QED
        BY <1>3, <1>6, <2>1, <3>1, <3>3, <4>3 DEF Ahead
    <3> QED
      BY <3>2, <3>3
  <2> QED
    BY <2>1, <2>2, WorkFields DEF Types, WorkInv
<1> QED
  BY <1>4, <1>5, <1>7, <1>8, <1>9, <1>10 DEF Types, Calls

\* The slice gets shorter: its last entry is the one that has moved, or was removed.
LEMMA MoveLastInv ==
  ASSUME IInv, Move, moving = len, len' = len - 1, moving' = 0, UNCHANGED array
  PROVE  IInv'
<1> USE DEF IInv
<1>1. /\ moving > 0
      /\ UNCHANGED <<reg, cancelled, started, ver, due, work, seen, shaken, fails>>
  BY DEF Move, objects
<1>2. SliceInv /\ Len(array) \in Nat /\ len \in 1 .. Len(array)
  BY <1>1, LenProperties DEF Types, SliceInv
<1>3. SliceInv'
  <2>1. len - 1 \in 0 .. Len(array) /\ 0 \in 0 .. len - 1
    BY <1>2
  <2>2. \A j \in 1 .. len - 1 : j \in 1 .. len /\ j # moving /\ j # 0
    BY <1>2
  <2>3. \A j \in 1 .. len : j # moving => j \in 1 .. len - 1
    BY <1>2
  <2> QED
    BY <1>1, <1>2, <2>1, <2>2, <2>3 DEF SliceInv, Registered, Entries
<1>4. ObjectInv'
  BY <1>1 DEF Types, ObjectInv, Stages
<1>5. WorkInv'
  BY <1>1, WorkKept DEF Types
<1>6. OneWorker' /\ Current' /\ MovedAreShaken'
  BY <1>1 DEF Calls, OneWorker, Current, MovedAreShaken, Settled
<1>7. SeenOrAhead'
  <2> SUFFICES ASSUME NEW k \in Keys, NEW h \in Handlers, Settled(k), reg[h] = "done",
                      h \notin cancelled, <<h, k>> \notin shaken, seen[h][k] # ver[k]
               PROVE  \E w \in Workers :
                        work[w].key = k /\ (work[w].next = 0 \/ work[w].err \/ Ahead(w, h)')
    BY <1>1 DEF SeenOrAhead, Settled
  <2>1. PICK w \in Workers : work[w].key = k /\ (work[w].next = 0 \/ work[w].err \/ Ahead(w, h))
    BY DEF Calls, SeenOrAhead
  <2>2. CASE work[w].next > 0 /\ Ahead(w, h)
    <3>1. PICK j \in 1 .. work[w].len :
            j >= work[w].next /\ Slots(w)[j] = h /\ (work[w].old = <<>> => j <= len)
      BY <2>2 DEF Ahead
    <3>2. work[w].old = <<>> => array[j] = h
      BY <3>1 DEF Slots
    <3>3. work[w].old = <<>> => ~ (j >= moving)
      BY <1>1, <2>1, <2>2, <3>1, <3>2, WorkFields DEF Types, WorkInv, Calls, MovedAreShaken
    <3>4. work[w].old = <<>> => j <= len - 1
      BY <1>2, <3>1, <3>3, WorkFields DEF Types, WorkInv
    <3>5. Slots(w)' = Slots(w)
      BY <1>1 DEF Slots
    <3> QED
      BY <1>1, <2>1, <3>1, <3>4, <3>5 DEF Ahead
  <2> QED
    BY <2>1, <2>2, WorkFields DEF Types, WorkInv
<1> QED
  BY <1>3, <1>4, <1>5, <1>6, <1>7 DEF Types, Calls

LEMMA MoveInv == ASSUME IInv, Move PROVE IInv'
BY MoveOneInv, MoveLastInv DEF Move, MoveOne

---------------------------------------------------------------------------
(* The workers.                                                            *)

\* Steps of a worker that leave the slice and the handlers alone.
LEMMA WorkerTypes ==
  ASSUME IInv, UNCHANGED <<slice, reg, cancelled, objects>>, NEW w \in Workers,
         work' \in [Workers -> Work], \A v \in Workers \ {w} : work'[v] = work[v],
         work'[w].key = None => work'[w].next = 0,
         work'[w].next = 0 => work'[w].len = 0 /\ work'[w].old = <<>>,
         work'[w].next <= work'[w].len + 1,
         \/ work'[w].len = 0
         \/ work'[w].len = work[w].len /\ work'[w].old = work[w].old
         \/ work'[w].len = len /\ work'[w].old = <<>>
  PROVE  SliceInv' /\ WorkInv'
<1> DEFINE r == work'[w]
<1> USE DEF IInv, Types
<1>1. array' = array /\ len' = len
  BY DEF slice
<1>2. SliceInv'
  BY SliceKept DEF Registered
<1>3. r \in Work
  OBVIOUS
<1>4. \A v \in Workers \ {w} : Slots(v)' = Slots(v)
  BY <1>1, <1>3 DEF Slots
<1>5. Slots(w)' = (IF r.old = <<>> THEN array ELSE r.old)
  BY <1>1, <1>3 DEF Slots
<1>6. array \in Seq(Entries) /\ r.old \in Seq(Entries) /\ r.len \in Nat /\ work[w].len \in Nat
  BY WorkFields DEF SliceInv, Work, WorkInv
<1>7. r.len <= Len(Slots(w)') /\ \A i \in 1 .. r.len : Slots(w)'[i] \in Handlers
  <2>1. CASE r.len = 0
    <3>1. Slots(w)' \in Seq(Entries)
      BY <1>5, <1>6
    <3> QED
      BY <2>1, <3>1, LenProperties
  <2>2. CASE r.len = work[w].len /\ r.old = work[w].old
    <3>1. Slots(w)' = Slots(w)
      BY <1>5, <2>2 DEF Slots
    <3> QED
      BY <2>2, <3>1 DEF WorkInv
  <2>3. CASE r.old = <<>> /\ r.len = len
    BY <1>5, <2>3 DEF SliceInv
  <2> QED
    BY <2>1, <2>2, <2>3
<1>8. WorkInv'
  <2>1. ASSUME NEW v \in Workers
        PROVE  /\ work'[v].key = None => work'[v].next = 0
               /\ work'[v].next = 0 => work'[v].len = 0 /\ work'[v].old = <<>>
               /\ work'[v].next <= work'[v].len + 1 /\ work'[v].len <= Len(Slots(v)')
               /\ \A i \in 1 .. work'[v].len : Slots(v)'[i] \in Handlers
    <3>1. CASE v = w
      BY <1>3, <1>7, <3>1
    <3>2. CASE v # w
      BY <1>3, <1>4, <3>2 DEF WorkInv
    <3> QED
      BY <3>1, <3>2
  <2> QED
    BY <1>3, <2>1 DEF WorkInv, Work, Entries
<1> QED
  BY <1>2, <1>8

LEMMA GetInv == ASSUME IInv, NEW w \in Workers, NEW k \in Keys, Get(w, k) PROVE IInv'
<1> USE DEF IInv
<1>1. /\ work[w].key = None /\ k \in due /\ \A v \in Workers : work[v].key # k
      /\ due' = due \ {k}
      /\ work' = [work EXCEPT ![w].key = k, ![w].val = ver[k]]
      /\ UNCHANGED <<slice, reg, cancelled, objects, seen, shaken, fails>>
  BY DEF Get
<1>2. work \in [Workers -> Work] /\ ver[k] \in 0 .. MaxVer
  BY DEF Types, WorkInv, ObjectInv
<1>3. work[w].key = None /\ work[w].next = 0 /\ work[w].len = 0 /\ work[w].old = <<>>
  BY <1>1 DEF Types, WorkInv
<1>4. work' \in [Workers -> Work] /\ work'[w] \in Work
  BY <1>1, <1>2 DEF Work
<1>6. /\ work'[w].key = k /\ work'[w].val = ver[k] /\ work'[w].next = 0
      /\ work'[w].len = 0 /\ work'[w].old = <<>>
  BY <1>1, <1>2, <1>3 DEF Work
<1>7. \A v \in Workers \ {w} : work'[v] = work[v]
  BY <1>1, <1>2
<1>8. SliceInv' /\ WorkInv'
  BY <1>1, <1>4, <1>6, <1>7, KeysAreKeys, WorkerTypes, 0 <= 0 + 1
<1>9. ObjectInv'
  BY <1>1 DEF Types, ObjectInv, objects, Stages
<1>10. OneWorker'
  <2> SUFFICES ASSUME NEW u \in Workers, NEW v \in Workers, work'[u].key = work'[v].key,
                      work'[u].key # None
               PROVE  u = v
    BY DEF OneWorker
  <2>1. u # w => work'[u].key = work[u].key /\ work[u].key # k
    BY <1>1, <1>7
  <2>2. v # w => work'[v].key = work[v].key /\ work[v].key # k
    BY <1>1, <1>7
  <2> QED
    BY <1>6, <2>1, <2>2 DEF Calls, OneWorker
<1>11. started' = started /\ ver' = ver /\ array' = array /\ len' = len /\ moving' = moving
  BY <1>1 DEF objects, slice
<1>12. \A l \in Keys : Settled(l)' => Settled(l) \/ l = k
  BY <1>1, <1>11 DEF Settled
<1>13. \A v \in Workers \ {w} : work[v].key \in Keys \cup {None} /\ work[v].key # k
  BY <1>1, <1>2, WorkFields
<1>14. Current'
  BY <1>6, <1>7, <1>11, <1>12, <1>13 DEF Calls, Current
<1>15. MovedAreShaken'
  <2> SUFFICES ASSUME moving > 0, NEW v \in Workers, NEW j \in 1 .. len, j >= moving,
                      work'[v].next > 0, work'[v].old = <<>>,
                      started', work'[v].key \notin due'
               PROVE  \/ array[j] \in cancelled
                      \/ <<array[j], work'[v].key>> \in shaken
                      \/ seen[array[j]][work'[v].key] = ver[work'[v].key]
    BY <1>1, <1>11 DEF MovedAreShaken, Settled
  <2>1. v # w /\ work'[v] = work[v]
    BY <1>6, <1>7
  <2>2. work[v].key \in Keys
    BY <1>13, <2>1 DEF Types, WorkInv
  <2>3. Settled(work[v].key)
    BY <1>1, <1>11, <1>13, <2>1, <2>2 DEF Settled
  <2> QED
    BY <2>1, <2>3 DEF Calls, MovedAreShaken
<1>16. \A v \in Workers \ {w}, h \in Handlers : Ahead(v, h)' = Ahead(v, h)
  BY <1>7, <1>11 DEF Ahead, Slots
<1>17. SeenOrAhead'
  <2>0. UNCHANGED <<reg, cancelled, shaken, seen, ver>>
    BY <1>1, <1>11
  <2> SUFFICES ASSUME NEW l \in Keys, NEW h \in Handlers, Settled(l)', reg'[h] = "done",
                      h \notin cancelled', <<h, l>> \notin shaken', seen'[h][l] # ver'[l]
               PROVE  \E v \in Workers :
                        work'[v].key = l /\ (work'[v].next = 0 \/ work'[v].err \/ Ahead(v, h)')
    BY DEF SeenOrAhead
  <2>1. CASE l = k
    BY <1>6, <1>7, <2>1
  <2>2. CASE l # k
    <3>1. PICK v \in Workers : work[v].key = l /\ (work[v].next = 0 \/ work[v].err \/ Ahead(v, h))
      BY <1>12, <2>0, <2>2 DEF Calls, SeenOrAhead
    <3>2. v # w
      BY <1>1, <3>1, KeysAreKeys
    <3> QED
      BY <1>7, <1>16, <3>1, <3>2
  <2> QED
    BY <2>1, <2>2
<1> QED
  BY <1>8, <1>9, <1>10, <1>14, <1>15, <1>17 DEF Types, Calls

LEMMA OnChangeInv == ASSUME IInv, NEW w \in Workers, OnChange(w) PROVE IInv'
<1> USE DEF IInv
<1>1. /\ work[w].key # None /\ work[w].next = 0 /\ moving = 0
      /\ work' = [work EXCEPT ![w].next = 1, ![w].len = len]
      /\ UNCHANGED <<slice, reg, cancelled, objects, due, seen, shaken, fails>>
  BY DEF OnChange
<1>2. work \in [Workers -> Work] /\ len \in Nat
  BY DEF Types, WorkInv, SliceInv
<1>3. work[w].old = <<>>
  BY <1>1 DEF Types, WorkInv
<1>4. work' \in [Workers -> Work] /\ work'[w] \in Work
  BY <1>1, <1>2 DEF Work
<1>6. /\ work'[w].key = work[w].key /\ work'[w].val = work[w].val /\ work'[w].next = 1
      /\ work'[w].len = len /\ work'[w].old = <<>>
  BY <1>1, <1>2, <1>3 DEF Work
<1>7. \A v \in Workers \ {w} : work'[v] = work[v]
  BY <1>1, <1>2
<1>8. SliceInv' /\ WorkInv'
  BY <1>1, <1>2, <1>3, <1>4, <1>6, <1>7, WorkerTypes, 1 <= len + 1
<1>9. ObjectInv'
  BY <1>1 DEF Types, ObjectInv, objects, Stages
<1>10. \A v \in Workers : work'[v].key = work[v].key /\ work'[v].val = work[v].val
  BY <1>6, <1>7
<1>11. OneWorker'
  BY <1>10 DEF Calls, OneWorker
<1>12. /\ started' = started /\ ver' = ver /\ due' = due
       /\ array' = array /\ len' = len /\ moving' = 0
  BY <1>1 DEF objects, slice
<1>13. Current'
  <2> SUFFICES ASSUME NEW v \in Workers, work'[v].key # None, started', work'[v].key \notin due'
               PROVE  work'[v].val = ver'[work'[v].key]
    BY DEF Current, Settled
  <2>1. work[v].key # None /\ Settled(work[v].key)
    BY <1>10, <1>12 DEF Settled
  <2>2. work[v].val = ver[work[v].key]
    BY <2>1 DEF Calls, Current
  <2> QED
    BY <1>10, <1>12, <2>2
<1>14. MovedAreShaken'
  BY <1>12 DEF MovedAreShaken
<1>15. \A v \in Workers \ {w}, h \in Handlers : Ahead(v, h)' = Ahead(v, h)
  BY <1>7, <1>12 DEF Ahead, Slots
<1>16. SeenOrAhead'
  <2> SUFFICES ASSUME NEW k \in Keys, NEW h \in Handlers, Settled(k)', reg'[h] = "done",
                      h \notin cancelled', <<h, k>> \notin shaken', seen'[h][k] # ver'[k]
               PROVE  \E v \in Workers :
                        work'[v].key = k /\ (work'[v].next = 0 \/ work'[v].err \/ Ahead(v, h)')
    BY DEF SeenOrAhead
  <2>0. /\ Settled(k) /\ reg[h] = "done" /\ h \notin cancelled /\ <<h, k>> \notin shaken
        /\ seen[h][k] # ver[k]
    BY <1>1, <1>12 DEF Settled
  <2>1. PICK v \in Workers : work[v].key = k /\ (work[v].next = 0 \/ work[v].err \/ Ahead(v, h))
    BY <2>0 DEF Calls, SeenOrAhead
  <2>2. CASE v = w
    <3>1. PICK j \in 1 .. len : array[j] = h
      BY <2>0 DEF Types, SliceInv, Registered
    <3>2. Slots(w)' = array
      BY <1>6, <1>7, <1>12 DEF Slots
    <3>3. Ahead(w, h)'
      BY <1>2, <1>6, <1>7, <1>12, <3>1, <3>2 DEF Ahead
    <3> QED
      BY <1>10, <2>1, <2>2, <3>3
  <2>3. CASE v # w
    BY <1>7, <1>15, <2>1, <2>3
  <2> QED
    BY <2>2, <2>3
<1> QED
  BY <1>8, <1>9, <1>11, <1>13, <1>14, <1>16 DEF Types, Calls

\* What the calls of a handler have in common: the worker goes on to the next one.
GoesOn(w) ==
  /\ work[w].next \in 1 .. work[w].len
  /\ work' \in [Workers -> Work] /\ \A v \in Workers \ {w} : work'[v] = work[v]
  /\ work'[w].key = work[w].key /\ work'[w].val = work[w].val
  /\ work'[w].next = work[w].next + 1
  /\ work'[w].len = work[w].len /\ work'[w].old = work[w].old
  /\ UNCHANGED <<slice, reg, cancelled, objects, due>>

LEMMA GoesOnInv ==
  ASSUME IInv, NEW w \in Workers, GoesOn(w)
  PROVE  SliceInv' /\ WorkInv' /\ OneWorker' /\ Current'
<1>1. work \in [Workers -> Work] /\ work[w].next \in Nat /\ work[w].len \in Nat
  BY WorkFields DEF IInv, Types, WorkInv
<1>2. work[w].next > 0 /\ work[w].next <= work[w].len
  BY <1>1 DEF GoesOn
<1>3. work[w].key # None
  BY <1>2 DEF IInv, Types, WorkInv
<1>4. SliceInv' /\ WorkInv'
  <2>1. work'[w].next # 0 /\ work'[w].next <= work'[w].len + 1
    BY <1>1, <1>2 DEF GoesOn
  <2> QED
    BY <1>3, <2>1, WorkerTypes DEF GoesOn
<1>5. \A v \in Workers : work'[v].key = work[v].key /\ work'[v].val = work[v].val
  BY DEF GoesOn
<1>6. OneWorker'
  BY <1>5 DEF IInv, Calls, OneWorker
<1>7. started' = started /\ ver' = ver /\ due' = due
  BY DEF GoesOn, objects
<1>8. Current'
  <2> SUFFICES ASSUME NEW v \in Workers, work'[v].key # None, started', work'[v].key \notin due'
               PROVE  work'[v].val = ver'[work'[v].key]
    BY DEF Current, Settled
  <2> QED
    BY <1>5, <1>7 DEF IInv, Calls, Current, Settled
<1> QED
  BY <1>4, <1>6, <1>8

LEMMA CallInv == ASSUME IInv, NEW w \in Workers, Call(w) PROVE IInv'
<1> DEFINE h0 == Slots(w)[work[w].next]
           k0 == work[w].key
<1> USE DEF IInv
<1>1. /\ work[w].next \in 1 .. work[w].len
      /\ seen' = [seen EXCEPT ![h0][k0] = work[w].val]
      /\ shaken' = IF work[w].val = ver[k0] THEN shaken \ {<<h0, k0>>} ELSE shaken
      /\ work' = [work EXCEPT ![w].next = work[w].next + 1]
      /\ UNCHANGED <<slice, reg, cancelled, objects, due, fails>>
  BY DEF Call
<1>2. work \in [Workers -> Work] /\ work[w].next \in Nat /\ work[w].len \in Nat
  BY WorkFields DEF Types, WorkInv
<1>3. h0 \in Handlers /\ k0 \in Keys /\ work[w].val \in 0 .. MaxVer
  BY <1>1, <1>2, WorkFields DEF Types, WorkInv
<1>4. GoesOn(w) /\ work'[w].err = work[w].err
  <2>1. work[w].next + 1 \in Nat
    BY <1>2
  <2> QED
    BY <1>1, <1>2, <2>1 DEF GoesOn, Work
<1>5. SliceInv' /\ WorkInv' /\ OneWorker' /\ Current'
  BY <1>4, GoesOnInv
<1>6. /\ started' = started /\ ver' = ver /\ array' = array /\ len' = len /\ moving' = moving
      /\ cancelled' = cancelled /\ reg' = reg /\ due' = due
  BY <1>1 DEF objects, slice
<1>7. seen \in [Handlers -> [Keys -> 0 .. MaxVer]]
  BY DEF Types, ObjectInv
<1> HIDE DEF h0, k0
<1>8. seen' \in [Handlers -> [Keys -> 0 .. MaxVer]] /\ shaken' \subseteq Handlers \X Keys
  BY <1>1, <1>3, <1>7, Zenon DEF Types, ObjectInv
<1>9. ObjectInv'
  BY <1>1, <1>6, <1>8 DEF Types, ObjectInv, Stages
<1>10. seen'[h0][k0] = work[w].val
  BY <1>1, <1>3, <1>7
<1>11. \A h \in Handlers, k \in Keys : h # h0 \/ k # k0 =>
         seen'[h][k] = seen[h][k] /\ (<<h, k>> \in shaken => <<h, k>> \in shaken')
  BY <1>1, <1>3, <1>7
<1>12. Settled(k0) => work[w].val = ver[k0]
  BY <1>3, KeysAreKeys DEF Calls, Current, k0
<1>13. MovedAreShaken'
  <2> SUFFICES ASSUME moving > 0, NEW v \in Workers, NEW j \in 1 .. len, j >= moving,
                      work'[v].next > 0, work'[v].old = <<>>,
                      started, work'[v].key \notin due
               PROVE  \/ array[j] \in cancelled
                      \/ <<array[j], work'[v].key>> \in shaken'
                      \/ seen'[array[j]][work'[v].key] = ver[work'[v].key]
    BY <1>6 DEF MovedAreShaken, Settled
  <2>1. work'[v].key = work[v].key /\ work'[v].old = work[v].old /\ work[v].next > 0
    BY <1>1, <1>2, <1>4 DEF GoesOn
  <2>2. array[j] \in Handlers /\ work[v].key \in Keys /\ Settled(work[v].key)
    BY <2>1, WorkFields DEF Types, SliceInv, WorkInv, Settled
  <2>3. CASE array[j] = h0 /\ work[v].key = k0
    BY <1>10, <1>12, <2>1, <2>2, <2>3
  <2>4. CASE array[j] # h0 \/ work[v].key # k0
    <3>1. \/ array[j] \in cancelled \/ <<array[j], work[v].key>> \in shaken
          \/ seen[array[j]][work[v].key] = ver[work[v].key]
      BY <2>1, <2>2 DEF Calls, MovedAreShaken
    <3> QED
      BY <1>11, <2>1, <2>2, <2>4, <3>1
  <2> QED
    BY <2>3, <2>4
<1>14. SeenOrAhead'
  <2>0. \A k \in Keys : Settled(k)' = Settled(k)
    BY <1>6 DEF Settled
  <2> SUFFICES ASSUME NEW k \in Keys, NEW h \in Handlers, Settled(k), reg[h] = "done",
                      h \notin cancelled, <<h, k>> \notin shaken', seen'[h][k] # ver[k]
               PROVE  \E v \in Workers :
                        work'[v].key = k /\ (work'[v].next = 0 \/ work'[v].err \/ Ahead(v, h)')
    BY <1>6, <2>0 DEF SeenOrAhead
  <2>1. h # h0 \/ k # k0
    BY <1>10, <1>12
  <2>2. seen[h][k] # ver[k] /\ <<h, k>> \notin shaken
    BY <1>11, <2>1
  <2>3. PICK v \in Workers : work[v].key = k /\ (work[v].next = 0 \/ work[v].err \/ Ahead(v, h))
    BY <2>2 DEF Calls, SeenOrAhead
  <2>4. CASE v = w
    <3>1. CASE work[w].err
      BY <1>4, <2>3, <2>4, <3>1 DEF GoesOn
    <3>2. CASE Ahead(w, h)
      <4>1. PICK j \in 1 .. work[w].len :
              j >= work[w].next /\ Slots(w)[j] = h /\ (work[w].old = <<>> => j <= len)
        BY <3>2 DEF Ahead
      <4>2. j # work[w].next
        BY <2>1, <2>3, <2>4, <4>1 DEF h0, k0
      <4>3. j >= work[w].next + 1
        BY <1>2, <4>1, <4>2
      <4>4. Slots(w)' = Slots(w)
        BY <1>4, <1>6 DEF Slots, GoesOn
      <4>5. Ahead(w, h)'
        BY <1>4, <1>6, <4>1, <4>3, <4>4 DEF Ahead, GoesOn
      <4> QED
        BY <1>4, <2>3, <2>4, <4>5 DEF GoesOn
    <3> QED
      BY <1>1, <2>3, <2>4, <3>1, <3>2
  <2>5. CASE v # w
    <3>1. work'[v] = work[v]
      BY <1>4, <2>5 DEF GoesOn
    <3>2. Ahead(v, h)' = Ahead(v, h)
      BY <1>6, <3>1 DEF Ahead, Slots
    <3> QED
      BY <2>3, <3>1, <3>2
  <2> QED
    BY <2>4, <2>5
<1> QED
  BY <1>5, <1>9, <1>13, <1>14 DEF Types, Calls

LEMMA CallFailsInv == ASSUME IInv, NEW w \in Workers, CallFails(w) PROVE IInv'
<1> USE DEF IInv
<1>1. /\ work[w].next \in 1 .. work[w].len /\ Failing
      /\ work' = [work EXCEPT ![w].next = work[w].next + 1, ![w].err = TRUE]
      /\ UNCHANGED <<slice, reg, cancelled, objects, due, seen, shaken>>
  BY DEF CallFails
<1>2. work \in [Workers -> Work] /\ work[w].next \in Nat /\ work[w].len \in Nat
  BY WorkFields DEF Types, WorkInv
<1>3. GoesOn(w) /\ work'[w].err = TRUE
  <2>1. work[w].next + 1 \in Nat
    BY <1>2
  <2> QED
    BY <1>1, <1>2, <2>1 DEF GoesOn, Work
<1>4. SliceInv' /\ WorkInv' /\ OneWorker' /\ Current'
  BY <1>3, GoesOnInv
<1>5. /\ started' = started /\ ver' = ver /\ array' = array /\ len' = len /\ moving' = moving
      /\ cancelled' = cancelled /\ reg' = reg /\ due' = due /\ seen' = seen /\ shaken' = shaken
  BY <1>1 DEF objects, slice
<1>6. fails' \in 0 .. MaxFails
  BY <1>1, SharedHandlerAssumption DEF Failing, Types, ObjectInv
<1>7. ObjectInv'
  BY <1>5, <1>6 DEF Types, ObjectInv, Stages
<1>8. MovedAreShaken'
  <2>1. \A v \in Workers : work'[v].key = work[v].key /\ work'[v].old = work[v].old
                            /\ (work'[v].next > 0 => work[v].next > 0)
    BY <1>1, <1>2, <1>3 DEF GoesOn
  <2> SUFFICES ASSUME moving > 0, NEW v \in Workers, NEW j \in 1 .. len, j >= moving,
                      work'[v].next > 0, work'[v].old = <<>>,
                      started, work'[v].key \notin due
               PROVE  \/ array[j] \in cancelled
                      \/ <<array[j], work'[v].key>> \in shaken
                      \/ seen[array[j]][work'[v].key] = ver[work'[v].key]
    BY <1>5 DEF MovedAreShaken, Settled
  <2> QED
    BY <2>1 DEF Calls, MovedAreShaken, Settled
<1>9. SeenOrAhead'
  <2>0. \A k \in Keys : Settled(k)' = Settled(k)
    BY <1>5 DEF Settled
  <2> SUFFICES ASSUME NEW k \in Keys, NEW h \in Handlers, Settled(k), reg[h] = "done",
                      h \notin cancelled, <<h, k>> \notin shaken, seen[h][k] # ver[k]
               PROVE  \E v \in Workers :
                        work'[v].key = k /\ (work'[v].next = 0 \/ work'[v].err \/ Ahead(v, h)')
    BY <1>5, <2>0 DEF SeenOrAhead
  <2>1. PICK v \in Workers : work[v].key = k /\ (work[v].next = 0 \/ work[v].err \/ Ahead(v, h))
    BY DEF Calls, SeenOrAhead
  <2>2. CASE v = w
    BY <1>3, <2>1, <2>2 DEF GoesOn
  <2>3. CASE v # w
    <3>1. work'[v] = work[v]
      BY <1>3, <2>3 DEF GoesOn
    <3>2. Ahead(v, h)' = Ahead(v, h)
      BY <1>5, <3>1 DEF Ahead, Slots
    <3> QED
      BY <2>1, <3>1, <3>2
  <2> QED
    BY <2>2, <2>3
<1> QED
  BY <1>4, <1>7, <1>8, <1>9 DEF Types, Calls

LEMMA FinishInv == ASSUME IInv, NEW w \in Workers, Finish(w) PROVE IInv'
<1> DEFINE k0 == work[w].key
<1> USE DEF IInv
<1>1. /\ work[w].next > work[w].len
      /\ due' = IF work[w].err THEN due \cup {k0} ELSE due
      /\ work' = [work EXCEPT ![w] = Idle]
      /\ UNCHANGED <<slice, reg, cancelled, objects, seen, shaken, fails>>
  BY DEF Finish
<1>2. work \in [Workers -> Work] /\ work[w].next \in Nat /\ work[w].len \in Nat
  BY WorkFields DEF Types, WorkInv
<1>3. Idle \in Work
  BY SharedHandlerAssumption, EmptySeq DEF Idle, Work
<1>4. /\ work' \in [Workers -> Work] /\ work'[w] = Idle
      /\ \A v \in Workers \ {w} : work'[v] = work[v]
  BY <1>1, <1>2, <1>3
<1>5. /\ work'[w].key = None /\ work'[w].next = 0 /\ work'[w].len = 0 /\ work'[w].old = <<>>
  BY <1>4 DEF Idle
<1>6. k0 \in Keys
  BY <1>1, <1>2, WorkFields DEF Types, WorkInv
<1> HIDE DEF k0
<1>7. SliceInv' /\ WorkInv'
  BY <1>1, <1>4, <1>5, WorkerTypes, 0 <= 0 + 1
<1>8. /\ started' = started /\ ver' = ver /\ array' = array /\ len' = len /\ moving' = moving
      /\ cancelled' = cancelled /\ reg' = reg /\ seen' = seen /\ shaken' = shaken
  BY <1>1 DEF objects, slice
<1>9. due \subseteq due' /\ due' \subseteq Keys
  BY <1>1, <1>6 DEF Types, ObjectInv
<1>10. ObjectInv'
  BY <1>1, <1>8, <1>9 DEF Types, ObjectInv, Stages
<1>11. OneWorker'
  <2> SUFFICES ASSUME NEW u \in Workers, NEW v \in Workers, work'[u].key = work'[v].key,
                      work'[u].key # None
               PROVE  u = v
    BY DEF OneWorker
  <2>1. u # w /\ v # w
    BY <1>5
  <2> QED
    BY <1>4, <2>1 DEF Calls, OneWorker
<1>12. Current'
  <2> SUFFICES ASSUME NEW v \in Workers, work'[v].key # None, started', work'[v].key \notin due'
               PROVE  work'[v].val = ver'[work'[v].key]
    BY DEF Current, Settled
  <2>1. v # w /\ work'[v] = work[v]
    BY <1>4, <1>5
  <2> QED
    BY <1>8, <1>9, <2>1 DEF Calls, Current, Settled
<1>13. MovedAreShaken'
  <2> SUFFICES ASSUME moving > 0, NEW v \in Workers, NEW j \in 1 .. len, j >= moving,
                      work'[v].next > 0, work'[v].old = <<>>,
                      started, work'[v].key \notin due'
               PROVE  \/ array[j] \in cancelled
                      \/ <<array[j], work'[v].key>> \in shaken
                      \/ seen[array[j]][work'[v].key] = ver[work'[v].key]
    BY <1>8 DEF MovedAreShaken, Settled
  <2>1. v # w /\ work'[v] = work[v]
    BY <1>4, <1>5
  <2> QED
    BY <1>9, <2>1 DEF Calls, MovedAreShaken, Settled
<1>14. SeenOrAhead'
  <2>0. \A k \in Keys : Settled(k)' => Settled(k) /\ k \notin due'
    BY <1>8, <1>9 DEF Settled
  <2> SUFFICES ASSUME NEW k \in Keys, NEW h \in Handlers, Settled(k), k \notin due', reg[h] = "done",
                      h \notin cancelled, <<h, k>> \notin shaken, seen[h][k] # ver[k]
               PROVE  \E v \in Workers :
                        work'[v].key = k /\ (work'[v].next = 0 \/ work'[v].err \/ Ahead(v, h)')
    BY <1>8, <2>0 DEF SeenOrAhead
  <2>1. PICK v \in Workers : work[v].key = k /\ (work[v].next = 0 \/ work[v].err \/ Ahead(v, h))
    BY DEF Calls, SeenOrAhead
  <2>2. CASE v = w
    <3>1. ~ work[w].err
      BY <1>1, <2>1, <2>2 DEF k0
    <3>2. ~ Ahead(w, h)
      BY <1>1, <1>2 DEF Ahead
    <3> QED
      BY <1>1, <1>2, <2>1, <2>2, <3>1, <3>2
  <2>3. CASE v # w
    <3>1. work'[v] = work[v]
      BY <1>4, <2>3
    <3>2. Ahead(v, h)' = Ahead(v, h)
      BY <1>8, <3>1 DEF Ahead, Slots
    <3> QED
      BY <2>1, <3>1, <3>2
  <2> QED
    BY <2>2, <2>3
<1> QED
  BY <1>7, <1>10, <1>11, <1>12, <1>13, <1>14 DEF Types, Calls

---------------------------------------------------------------------------
(* The theorems.                                                           *)

LEMMA StepInv == ASSUME IInv, [Next]_vars PROVE IInv'
<1>1. CASE \E k \in Keys : Change(k)
  BY <1>1, ChangeInv
<1>2. CASE Start \/ Commit \/ Rollback \/ Move
  BY <1>2, StartInv, TransactionInv, MoveInv
<1>3. CASE \E h \in Handlers : RegisterHandler(h) \/ Register(h) \/ Enqueue(h) \/ EnqueueFails(h)
                                 \/ Cancel(h)
  BY <1>3, RegisterHandlerInv, RegisterInv, EnqueueInv, EnqueueFailsInv, CancelInv
<1>4. CASE \E i \in 1 .. len : Remove(i)
  BY <1>4, RemoveInv
<1>5. CASE \E w \in Workers : OnChange(w) \/ Call(w) \/ CallFails(w) \/ Finish(w)
                                \/ \E k \in Keys : Get(w, k)
  BY <1>5, OnChangeInv, CallInv, CallFailsInv, FinishInv, GetInv
<1>6. CASE UNCHANGED vars
  BY <1>6, StageInv DEF IInv, Types, ObjectInv, vars, slice, objects, Registered
<1> QED
  BY <1>1, <1>2, <1>3, <1>4, <1>5, <1>6, Zenon DEF Next

\* Outside a removal the slice holds every handler that was added and not removed
\* once, and an OnChange that iterates over it without the lock stays within the array
\* it started with and meets handlers only (router's SharedHandler).
THEOREM SliceAndIterations == Spec => []TypeOK
<1>1. Init => IInv
  BY InitInv
<1>2. IInv /\ [Next]_vars => IInv'
  BY StepInv
<1>3. IInv => TypeOK
  BY TypesImply DEF IInv
<1> QED
  BY <1>1, <1>2, <1>3, PTL DEF Spec

\* Of an object that is neither queued nor being handled every registered handler has
\* seen the last version, unless one before it was removed during an OnChange.
THEOREM NobodyMissesAChange == Spec => []NoMissedChange
<1>1. Init => IInv
  BY InitInv
<1>2. IInv /\ [Next]_vars => IInv'
  BY StepInv
<1>3. IInv => NoMissedChange
  BY InvImplies
<1> QED
  BY <1>1, <1>2, <1>3, PTL DEF Spec
=============================================================================
