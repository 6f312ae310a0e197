---------------------------- MODULE CacheClient ----------------------------
(***************************************************************************)
(* pkg/runtime/cached.go: the client that reads from an informer cache and *)
(* remembers what this process wrote, so that a Get is not behind the      *)
(* process's own writes.  One object; its writers are the worker that runs *)
(* its handlers (see Finalizer), other threads of the process (local), who *)
(* use the same client, and other processes.                               *)
(*                                                                         *)
(* store keeps the caller's pointer: what the worker does to its object    *)
(* after a write also changes what is remembered (alias).                  *)
(***************************************************************************)
EXTENDS Naturals, Sequences, SequencesExt

CONSTANTS
  Ours,       \* finalizers of this process's routes
  Foreign,    \* finalizers of others
  Labels,     \* TRUE: the object carries the labels a route selects
  MaxInputs   \* bound: writes of others, API calls, handlers that fail or wait

ASSUME CacheClientAssumption ==
  /\ Ours \cap Foreign = {}
  /\ Labels \subseteq BOOLEAN
  /\ MaxInputs \in Nat

\* rev is the resource version, uid tells an object from a later one of its name.
Object == [rev: Nat \ {0}, uid: Nat, label: BOOLEAN, deleting: BOOLEAN,
           finalizers: Seq(Ours \cup Foreign)]

NotFound  == [rev |-> 0, uid |-> 0, label |-> FALSE, deleting |-> FALSE, finalizers |-> <<>>]
Exists(o) == o.rev > 0

VARIABLES
  server,     \* the API server's object
  version,    \* the last resource version given out
  informer,   \* the informer cache's object
  recent,     \* cacheClient.recent: at most one object, as a set
  pending,    \* what other threads have written and not stored yet
  alias,      \* which object of the worker is the remembered one: see Finalizer
  inputs      \* inputs so far

client == <<server, version, informer, recent, pending, alias, inputs>>

Input == inputs < MaxInputs /\ inputs' = inputs + 1

---------------------------------------------------------------------------
(* The API server.                                                         *)

\* Optimistic locking: a write must come from the latest version.
Accepts(o) == Exists(server) /\ server.rev = o.rev

Written(o) == [o EXCEPT !.rev = version + 1]

\* An object that is being deleted is gone when its last finalizer is.
Gone(o) == o.deleting /\ o.finalizers = <<>>

Write(o) ==
  /\ version' = version + 1
  /\ server' = IF Gone(o) THEN NotFound ELSE Written(o)

\* What the writer gets back; a deleted object comes as it was sent.
Answer(o) == IF Gone(o) THEN o ELSE Written(o)

\* A call that writes o from the version of base: it succeeds, is refused, or
\* fails, perhaps after it has taken effect.
Call(base, o, ok) ==
  \/ ok /\ Accepts(base) /\ Write(o) /\ UNCHANGED inputs
  \/ ~ok /\ ~Accepts(base) /\ UNCHANGED <<server, version, inputs>>
  \/ ~ok /\ Input /\ UNCHANGED <<server, version>>
  \/ ~ok /\ Accepts(base) /\ Write(o) /\ Input

---------------------------------------------------------------------------
(* Reading.                                                                *)

\* Mutant: what is remembered also wins over the same version.
notOlder(old, new) == old.rev <= new.rev

\* Resource versions are decimal numbers without leading zeros: of those of one
\* length the string order is the order, others are converted.
newer(old, new) == old.rev < new.rev

\* Get, given what the informer cache answered.
Found(o) ==
  IF Exists(o) /\ \E r \in recent : newer(o, r) THEN CHOOSE r \in recent : TRUE ELSE o

---------------------------------------------------------------------------
(* The informer and the other writers.                                     *)

\* The worker is not part of this: it may hear of the change, see Finalizer.
Sync ==
  /\ informer # server
  /\ informer' = server
  /\ UNCHANGED <<server, version, recent, pending, alias, inputs>>

\* Others write o; a thread of this process will store it.
Edit(o, local) ==
  /\ Input
  /\ Write(o)
  /\ pending' = IF local THEN pending \cup {Written(o)} ELSE pending
  /\ UNCHANGED <<informer, recent, alias>>

Create(label, local) ==
  /\ ~Exists(server)
  /\ Edit([NotFound EXCEPT !.uid = inputs + 2, !.label = label], local)

Patch(label, local) ==
  /\ Exists(server)
  /\ Edit([server EXCEPT !.label = label], local)

\* A finalizer keeps the object; NotFound stands for the deleteStore to come.
Delete(local) ==
  /\ Exists(server) /\ ~server.deleting
  /\ Input
  /\ Write([server EXCEPT !.deleting = TRUE])
  /\ pending' = IF local THEN pending \cup {NotFound} ELSE pending
  /\ UNCHANGED <<informer, recent, alias>>

\* Mutant: deleteStore leaves an entry without an object.
StoreEmpty(o) ==
  /\ o \in pending
  /\ pending' = pending \ {o}
  /\ recent' = {o}
  /\ alias' = "none"
  /\ UNCHANGED <<server, version, informer, inputs>>

\* store or deleteStore, under recentLock but after the call, in any order.
Store(o) ==
  /\ o \in pending
  /\ pending' = pending \ {o}
  /\ recent' = {o} \ {NotFound}
  /\ alias' = "none"
  /\ UNCHANGED <<server, version, informer, inputs>>

\* startPurge: the entry is ten seconds old.
Purge ==
  /\ recent # {}
  /\ recent' = {}
  /\ alias' = "none"
  /\ UNCHANGED <<server, version, informer, pending, inputs>>

\* Others add a finalizer, which the server refuses for a deleted object.
AddForeign(f) ==
  /\ Exists(server) /\ ~server.deleting /\ ~Contains(server.finalizers, f)
  /\ Edit([server EXCEPT !.finalizers = Append(@, f)], FALSE)

\* They remove it when the object is deleted.
RemoveForeign(f) ==
  /\ Exists(server) /\ server.deleting
  /\ \E i \in 1 .. Len(server.finalizers) :
       server.finalizers[i] = f /\ Write([server EXCEPT !.finalizers = RemoveAt(@, i)])
  /\ UNCHANGED <<informer, recent, pending, alias, inputs>>

Others ==
  \/ \E label \in Labels, local \in BOOLEAN : Create(label, local) \/ Patch(label, local)
  \/ \E local \in BOOLEAN : Delete(local)
  \/ \E o \in pending : Store(o)
  \/ Purge
  \/ \E f \in Foreign : AddForeign(f) \/ RemoveForeign(f)
=============================================================================
