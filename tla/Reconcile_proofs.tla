-------------------------- MODULE Reconcile_proofs --------------------------
(***************************************************************************)
(* The types of a run, for any routes in any order, any bounds and with or *)
(* without an ErrorHandler; that a route with a terminal error keeps the   *)
(* objects it made; that what a run asked for is there, and the condition  *)
(* tells what came of it, when all is at rest; and that a condition gets a *)
(* new time only with a new status.                                        *)
(***************************************************************************)
EXTENDS Reconcile, WellFoundedInduction, TLAPS

\* The object and its copies.
Copies ==
  /\ object \in Objects /\ cache \in Objects /\ recent \in Objects
  /\ ~object.cond.fresh /\ ~cache.cond.fresh

\* The rest, apart from the run and the faults.
Rest ==
  /\ due \in BOOLEAN /\ children \in SUBSET Indices
  /\ last \in [by : Indices \cup {0}, ok : BOOLEAN, wanted : SUBSET Indices]

\* What run says of the response and of the cached client.
Links ==
  /\ run.pc = "handle" => (run.noPrune <=> Errored)
  /\ run.stored => recent = run.obj

LEMMA TypeParts ==
  /\ TypeOK <=> Copies /\ Rest /\ run \in Runs /\ Links /\ faults \in 0 .. MaxFaults
  /\ TypeOK' <=> Copies' /\ Rest' /\ run' \in Runs /\ Links' /\ faults' \in 0 .. MaxFaults
<1>1. Objects' = Objects /\ Runs' = Runs /\ Indices' = Indices
  BY DEF Objects, Runs, Conditions, Indices
<1> QED
  BY <1>1 DEF TypeOK, Copies, Rest, Links

\* Copies, of the next state.
LEMMA CopiesPrime ==
  Copies' <=> /\ object' \in Objects /\ cache' \in Objects /\ recent' \in Objects
              /\ ~object'.cond.fresh /\ ~cache'.cond.fresh
<1>1. Objects' = Objects
  BY DEF Objects, Conditions, Indices
<1> QED
  BY <1>1 DEF Copies

---------------------------------------------------------------------------
(* Values.                                                                 *)

LEMMA Lengths ==
  /\ Len(Routes) \in Nat /\ MaxGen \in Nat /\ 1 <= MaxGen /\ MaxFaults \in Nat
  /\ \A i \in Indices : i \in Nat /\ i + 1 \in 0 .. Len(Routes) + 1 /\ i # 0
BY ReconcileAssumption DEF Indices

LEMMA Values == NoCond \in Conditions /\ Gone \in Objects /\ ~Gone.cond.fresh
BY Lengths DEF NoCond, Gone, Conditions, Objects

LEMMA IdleType == Idle \in Runs /\ Idle.pc = "idle" /\ Idle.stored = FALSE
BY Values, Lengths DEF Idle, Runs

\* A new generation of an object.
LEMMA RaisedType ==
  ASSUME NEW o \in Objects, o.gen < MaxGen
  PROVE  /\ [o EXCEPT !.gen = @ + 1, !.rv = @ + 1] \in Objects
         /\ [o EXCEPT !.gen = @ + 1, !.rv = @ + 1].cond = o.cond
<1>1. o.gen + 1 \in 0 .. MaxGen /\ o.rv + 1 \in Nat
  BY Lengths DEF Objects
<1> QED
  BY <1>1 DEF Objects

LEMMA GetType == ASSUME Copies PROVE Get \in Objects
BY DEF Copies, Get

\* A condition that a route sets.
LEMMA ConditionType ==
  ASSUME NEW c \in Conditions, NEW e \in Conditions, run \in Runs,
         NEW status \in {"true", "false"}, NEW i \in Indices \cup {0}
  PROVE  SetOver(c, e, Condition(status, i)) \in Conditions
<1> DEFINE new == Condition(status, i)
<1>1. new \in Conditions
  BY DEF Runs, Objects, Conditions, Condition
<1>2. ASSUME NEW a \in Conditions, NEW b \in Conditions PROVE SetCondition(a, b) \in Conditions
  BY DEF Conditions, SetCondition
<1> HIDE DEF new
<1> QED
  BY <1>1, <1>2, Zenon DEF SetOver, new

LEMMA ExistingType == ASSUME run \in Runs PROVE Existing \in Conditions
BY DEF Runs, Objects, Existing

\* The first of the routes that had a terminal error.
LEMMA FirstType ==
  ASSUME NEW S, S \subseteq Indices, S # {}
  PROVE  Min(S) \in S /\ \A y \in S : Min(S) <= y
<1> DEFINE Less == {ss \in Nat \X Nat : ss[1] < ss[2]}
<1>1. IsWellFoundedOn(Less, Nat)
  BY NatLessThanWellFounded, Zenon DEF OpToRel
<1>2. S \subseteq Nat
  BY Lengths
<1>3. PICK x \in S : \A y \in S : <<y, x>> \notin Less
  BY <1>1, <1>2, WFMin, Zenon
<1>4. ASSUME NEW y \in S PROVE x <= y
  <2>1. x \in Nat /\ y \in Nat
    BY <1>2
  <2>2. ~(y < x)
    BY <1>3, <2>1
  <2> QED
    BY <2>1, <2>2
<1> QED
  BY <1>4, Zenon DEF Min

---------------------------------------------------------------------------
(* A route returns.                                                        *)

\* r is the run with what the route has done to the response.
LEMMA ReturnedType ==
  ASSUME Copies, Links, run \in Runs, Called, NEW r \in Runs, NEW c \in Conditions,
         r.pc = "handle", r.i = run.i, r.obj = run.obj, r.stored = run.stored,
         r.noPrune <=> r.terminal # {},
         NEW wants, NEW self \in BOOLEAN, Returned(r, c, wants, self)
  PROVE  /\ run' \in Runs /\ recent' \in Objects
         /\ run'.pc = "handle" /\ run'.noPrune = r.noPrune /\ run'.terminal = r.terminal
         /\ run'.stored => recent' = run'.obj
<1> DEFINE cond == IF Wrapped /\ ~run.split THEN c ELSE r.obj.cond
           obj == [r.obj EXCEPT !.cond = cond]
           ex  == IF Wrapped THEN Existing ELSE r.existing
           hid == r.hidden \/ run.split
           spl == r.split \/ self
<1>1. run.i \in Indices
  BY DEF Called
<1>2. wants \in SUBSET Indices
  BY <1>1 DEF Returned
<1>3. run.obj \in Objects /\ run.split \in BOOLEAN /\ run.stored \in BOOLEAN
  BY DEF Runs
<1>4. obj \in Objects
  <2>1. cond \in Conditions
    BY <1>3 DEF Objects
  <2> HIDE DEF cond
  <2> QED
    BY <1>3, <2>1 DEF Objects
<1>5. ex \in Conditions
  BY ExistingType DEF Runs
<1>6. hid \in BOOLEAN /\ spl \in BOOLEAN
  BY Zenon
<1>7. r.wanted \cup wants \in SUBSET Indices
  BY <1>2 DEF Runs
<1>8. run' = [r EXCEPT !.i = r.i + 1, !.wanted = r.wanted \cup wants, !.existing = ex,
                       !.obj = obj, !.hidden = hid, !.split = spl]
  <2>1. run' = [r EXCEPT !.i = r.i + 1, !.wanted = r.wanted \cup wants, !.existing = ex,
                         !.obj.cond = cond, !.hidden = hid, !.split = spl]
    BY Zenon DEF Returned
  <2> QED
    BY <2>1, Zenon
<1>9. run.i + 1 \in 0 .. Len(Routes) + 1
  BY <1>1, Lengths
<1> HIDE DEF obj, ex, hid, spl
<1>10. run' \in Runs
  BY <1>4, <1>5, <1>6, <1>7, <1>8, <1>9 DEF Runs
<1>11. /\ run'.pc = "handle" /\ run'.noPrune = r.noPrune /\ run'.terminal = r.terminal
       /\ run'.stored = run.stored /\ run'.obj = obj
  BY <1>8 DEF Runs
<1>12. recent' = IF run.stored THEN run'.obj ELSE recent
  BY DEF Returned
<1>13. recent' \in Objects
  BY <1>4, <1>11, <1>12 DEF Copies
<1> QED
  BY <1>10, <1>11, <1>12, <1>13

---------------------------------------------------------------------------
(* Every step keeps the types.                                             *)

LEMMA FaultType ==
  ASSUME Fault, faults \in 0 .. MaxFaults PROVE faults' \in 0 .. MaxFaults
BY Lengths DEF Fault

LEMMA InitInv == ASSUME Init PROVE TypeOK
<1>1. \A i \in {0, CHOOSE i \in Indices : Routes[i].wrapped} : i \in Indices \cup {0}
  BY ReconcileAssumption, Zenon
<1>2. Copies
  <2>1. PICK i \in {0, CHOOSE i \in Indices : Routes[i].wrapped} :
          object = [exists |-> TRUE, deleting |-> FALSE, sel |-> TRUE, gen |-> 1, rv |-> 1,
                    cond |-> IF i = 0 THEN NoCond
                             ELSE [status |-> "false", by |-> i, gen |-> 1, fresh |-> FALSE]]
    BY Zenon DEF Init
  <2>2. i \in Indices \cup {0}
    BY <1>1
  <2>3. object.cond \in Conditions /\ ~object.cond.fresh
    BY <2>1, <2>2, Values, Lengths DEF NoCond, Conditions
  <2>4. object \in Objects
    BY <2>1, <2>3, Lengths DEF Objects
  <2> QED
    BY <2>3, <2>4, Values DEF Init, Copies
<1>3. run \in Runs /\ Links
  BY IdleType DEF Init, Links
<1>4. Rest /\ faults \in 0 .. MaxFaults
  BY Lengths DEF Init, Rest, NoRun
<1> QED
  BY <1>2, <1>3, <1>4, TypeParts

LEMMA ServerInv == ASSUME TypeOK, Environment \/ Sync PROVE TypeOK'
<1> USE TypeParts
<1>1. Copies'
  <2>1. object \in Objects /\ cache \in Objects /\ ~object.cond.fresh /\ ~cache.cond.fresh
    BY DEF Copies
  <2>2. object' \in Objects /\ ~object'.cond.fresh
    <3>1. CASE ChangeSpec
      <4>1. object.gen < MaxGen /\ object' = [object EXCEPT !.gen = @ + 1, !.rv = @ + 1]
        BY <3>1, Zenon DEF ChangeSpec
      <4> QED
        BY <2>1, <4>1, RaisedType
    <3>2. CASE Relabel
      <4>1. object' = [object EXCEPT !.sel = FALSE, !.rv = @ + 1]
        BY <3>2, Zenon DEF Relabel
      <4>2. object.rv + 1 \in Nat
        BY <2>1 DEF Objects
      <4> QED
        BY <2>1, <4>1, <4>2 DEF Objects
    <3>3. CASE Delete
      <4>1. object' = Gone \/ object' = [object EXCEPT !.deleting = TRUE, !.rv = @ + 1]
        BY <3>3, Zenon DEF Delete
      <4>2. object.rv + 1 \in Nat
        BY <2>1 DEF Objects
      <4> QED
        BY <2>1, <4>1, <4>2, Values DEF Objects
    <3>4. CASE Sync
      BY <2>1, <3>4 DEF Sync
    <3> QED
      BY <3>1, <3>2, <3>3, <3>4 DEF Environment
  <2>3. cache' \in {cache, object} /\ recent' = recent
    BY DEF Environment, ChangeSpec, Relabel, Delete, Sync
  <2> QED
    BY <2>1, <2>2, <2>3, CopiesPrime DEF Copies
<1>2. UNCHANGED <<recent, children, run, last, faults>> /\ due' \in BOOLEAN
  BY DEF Environment, ChangeSpec, Relabel, Delete, Sync, Loop, Rest
<1>3. Rest' /\ Links'
  BY <1>2 DEF Rest, Links, Errored
<1> QED
  BY <1>1, <1>2, <1>3

LEMMA BeginInv == ASSUME TypeOK, Begin PROVE TypeOK'
<1> USE TypeParts
<1>1. run' = [Idle EXCEPT !.pc = "handle", !.i = 1, !.obj = Get, !.read = Get]
  BY Zenon DEF Begin
<1>2. run' \in Runs /\ run'.noPrune = FALSE /\ run'.terminal = {} /\ run'.stored = FALSE
  <2>1. Get \in Objects
    BY GetType
  <2>2. 1 \in 0 .. Len(Routes) + 1
    BY Lengths
  <2>3. run' \in Runs
    BY <1>1, <2>1, <2>2, IdleType DEF Runs
  <2> QED
    BY <1>1, <2>3 DEF Idle
<1>3. Copies' /\ Rest' /\ faults' \in 0 .. MaxFaults
  BY DEF Begin, Copies, Rest
<1>4. Links'
  BY <1>2, Zenon DEF Links, Errored
<1> QED
  BY <1>2, <1>3, <1>4

LEMMA SkipInv == ASSUME TypeOK, Skip PROVE TypeOK'
<1> USE TypeParts
<1>1. run' = [run EXCEPT !.i = @ + 1] /\ run.i \in Indices /\ UNCHANGED recent
  BY Zenon DEF Skip
<1>2. run.i + 1 \in 0 .. Len(Routes) + 1
  BY <1>1, Lengths
<1>3. run' \in Runs
  BY <1>1, <1>2 DEF Runs
<1>4. /\ run'.pc = run.pc /\ run'.noPrune = run.noPrune /\ run'.terminal = run.terminal
      /\ run'.stored = run.stored /\ run'.obj = run.obj
  BY <1>1 DEF Runs
<1>5. Links'
  BY <1>1, <1>4, Zenon DEF Links, Errored
<1>6. Copies' /\ Rest' /\ faults' \in 0 .. MaxFaults
  BY DEF Skip, Copies, Rest
<1> QED
  BY <1>3, <1>5, <1>6

\* What a step that returns from a route keeps.
LEMMA RouteInv ==
  ASSUME TypeOK, Called, NEW r \in Runs, NEW c \in Conditions,
         r.pc = "handle", r.i = run.i, r.obj = run.obj, r.stored = run.stored,
         r.noPrune <=> r.terminal # {},
         NEW wants, NEW self \in BOOLEAN, Returned(r, c, wants, self),
         faults' \in 0 .. MaxFaults
  PROVE  TypeOK'
<1> USE TypeParts
<1>1. /\ run' \in Runs /\ recent' \in Objects
      /\ run'.pc = "handle" /\ run'.noPrune = r.noPrune /\ run'.terminal = r.terminal
      /\ run'.stored => recent' = run'.obj
  BY ReturnedType
<1>2. UNCHANGED <<object, cache, due, children, last>>
  BY Zenon DEF Returned
<1>3. Copies'
  BY <1>1, <1>2, CopiesPrime DEF Copies
<1>4. Rest'
  BY <1>2 DEF Rest, Indices
<1>5. Links'
  BY <1>1, Zenon DEF Links, Errored
<1> QED
  BY <1>1, <1>3, <1>4, <1>5

\* The facts about a run whose routes are being called.
LEMMA CalledRun ==
  ASSUME TypeOK, Called
  PROVE  /\ run \in Runs /\ run.i \in Indices /\ run.pc = "handle"
         /\ run.noPrune <=> Errored
         /\ run.obj \in Objects /\ run.obj.cond \in Conditions /\ Existing \in Conditions
<1>1. run \in Runs /\ run.pc = "handle" /\ run.i \in Indices /\ (run.noPrune <=> Errored)
  BY TypeParts, Zenon DEF Called, Links
<1>2. run.obj \in Objects /\ run.obj.cond \in Conditions
  BY <1>1 DEF Runs, Objects
<1> QED
  BY <1>1, <1>2, ExistingType

LEMMA RouteOkInv ==
  ASSUME TypeOK, NEW wants, NEW later \in BOOLEAN, NEW self \in BOOLEAN,
         RouteOk(wants, later, self)
  PROVE  TypeOK'
<1> DEFINE del == run.delay \/ later
           ok  == run.ok \/ Wrapped
           hid == StillHidden
           r   == [run EXCEPT !.delay = del, !.ok = ok, !.hidden = hid]
           c   == IF Errored THEN run.obj.cond
                  ELSE SetOver(run.obj.cond, Existing, Condition("true", 0))
<1>1. Called /\ Returned(r, c, wants, self) /\ faults' = faults
  BY Zenon DEF RouteOk
<1>2. c \in Conditions
  BY <1>1, CalledRun, ConditionType
<1>3. del \in BOOLEAN /\ ok \in BOOLEAN /\ hid \in BOOLEAN
  BY Zenon DEF StillHidden
<1> HIDE DEF del, ok, hid, c
<1>4. r \in Runs
  BY <1>1, <1>3, CalledRun DEF Runs
<1>5. /\ r.pc = run.pc /\ r.i = run.i /\ r.obj = run.obj /\ r.stored = run.stored
      /\ r.noPrune = run.noPrune /\ r.terminal = run.terminal
  BY <1>1, CalledRun DEF Runs
<1> HIDE DEF r
<1>6. faults' \in 0 .. MaxFaults
  BY <1>1, TypeParts
<1>7. r.pc = "handle" /\ (r.noPrune <=> r.terminal # {})
  BY <1>1, <1>5, CalledRun, Zenon DEF Errored
<1> QED
  BY <1>1, <1>2, <1>4, <1>5, <1>6, <1>7, RouteInv, Zenon

LEMMA RouteFailsInv == ASSUME TypeOK, NEW wants, RouteFails(wants) PROVE TypeOK'
<1> DEFINE r == [run EXCEPT !.failed = @ \cup {run.i}]
<1>1. Called /\ Returned(r, run.obj.cond, wants, FALSE) /\ Fault
  BY Zenon DEF RouteFails
<1>2. r \in Runs
  BY <1>1, CalledRun DEF Runs
<1>3. /\ r.pc = run.pc /\ r.i = run.i /\ r.obj = run.obj /\ r.stored = run.stored
      /\ r.noPrune = run.noPrune /\ r.terminal = run.terminal
  BY <1>1, CalledRun DEF Runs
<1> HIDE DEF r
<1>4. faults' \in 0 .. MaxFaults
  BY <1>1, FaultType, TypeParts
<1>5. r.pc = "handle" /\ (r.noPrune <=> r.terminal # {})
  BY <1>1, <1>3, CalledRun, Zenon DEF Errored
<1>6. run.obj.cond \in Conditions /\ FALSE \in BOOLEAN
  BY <1>1, CalledRun
<1> QED
  BY <1>1, <1>2, <1>3, <1>4, <1>5, <1>6, RouteInv, Zenon

LEMMA RouteTerminalInv == ASSUME TypeOK, NEW wants, RouteTerminal(wants) PROVE TypeOK'
<1> DEFINE hid == StillHidden
           r == [run EXCEPT !.terminal = @ \cup {run.i}, !.noPrune = TRUE, !.hidden = hid]
           c == IF Errored THEN run.obj.cond
                ELSE SetOver(run.obj.cond, Existing, Condition("false", run.i))
<1>1. Called /\ Returned(r, c, wants, FALSE) /\ Fault
  BY Zenon DEF RouteTerminal
<1> hid \in BOOLEAN
  BY Zenon DEF StillHidden
<1> HIDE DEF hid
<1>2. r \in Runs
  BY <1>1, CalledRun DEF Runs
<1>3. /\ r.pc = run.pc /\ r.i = run.i /\ r.obj = run.obj /\ r.stored = run.stored
      /\ r.noPrune = TRUE /\ run.i \in r.terminal
  BY <1>1, CalledRun DEF Runs
<1>4. c \in Conditions
  BY <1>1, CalledRun, ConditionType
<1> HIDE DEF r, c
<1>5. faults' \in 0 .. MaxFaults
  BY <1>1, FaultType, TypeParts
<1>6. r.pc = "handle" /\ (r.noPrune <=> r.terminal # {})
  BY <1>1, <1>3, CalledRun
<1>7. FALSE \in BOOLEAN
  OBVIOUS
<1> QED
  BY <1>1, <1>2, <1>3, <1>4, <1>5, <1>6, <1>7, RouteInv, Zenon

\* What an Update of a route leaves of the object and of the run.
LEMMA WritesFields ==
  ASSUME TypeOK, RouteWrites
  PROVE  /\ object' \in Objects /\ object'.cond = object.cond /\ object'.exists
         /\ object' = object \/ object'.rv = object.rv + 1
         /\ object.exists /\ object.rv = run.obj.rv
         /\ run' \in Runs /\ run'.pc = "handle" /\ run.pc = "handle"
         /\ run'.i = run.i /\ run'.read = run.read /\ run'.obj = object'
         /\ run'.existing = run.existing /\ run'.terminal = run.terminal
         /\ run'.noPrune = run.noPrune /\ run'.ok = run.ok
         /\ ~run'.hidden => ~run.ok /\ ~Errored
         /\ recent' = object' /\ UNCHANGED <<cache, due, children, last, faults>>
<1> DEFINE hid == run.hidden \/ run.ok \/ Errored
<1>1. /\ Called /\ object.exists /\ object.rv = run.obj.rv
      /\ \/ object.gen < MaxGen /\ object' = [object EXCEPT !.gen = @ + 1, !.rv = @ + 1]
         \/ object.sel /\ object' = [object EXCEPT !.sel = FALSE, !.rv = @ + 1]
         \/ object' = object
      /\ run' = [run EXCEPT !.obj = object', !.stored = TRUE, !.hidden = hid]
      /\ recent' = object'
      /\ UNCHANGED <<cache, due, children, last, faults>>
  BY Zenon DEF RouteWrites
<1>2. object \in Objects /\ object.rv + 1 \in Nat
  BY TypeParts DEF Copies, Objects
<1>3. /\ object' \in Objects /\ object'.cond = object.cond /\ object'.exists
      /\ object' = object \/ object'.rv = object.rv + 1
  <2>1. CASE object.gen < MaxGen /\ object' = [object EXCEPT !.gen = @ + 1, !.rv = @ + 1]
    BY <1>1, <1>2, <2>1, RaisedType DEF Objects
  <2>2. CASE object' = [object EXCEPT !.sel = FALSE, !.rv = @ + 1]
    BY <1>1, <1>2, <2>2 DEF Objects
  <2>3. CASE object' = object
    BY <1>1, <1>2, <2>3
  <2> QED
    BY <1>1, <2>1, <2>2, <2>3
<1>4. hid \in BOOLEAN /\ (~hid => ~run.ok /\ ~Errored)
  BY Zenon
<1> HIDE DEF hid
<1>5. run \in Runs /\ run.pc = "handle"
  BY <1>1, CalledRun
<1>6. run' \in Runs
  BY <1>1, <1>3, <1>4, <1>5 DEF Runs
<1>7. /\ run'.pc = run.pc /\ run'.i = run.i /\ run'.read = run.read /\ run'.obj = object'
      /\ run'.existing = run.existing /\ run'.terminal = run.terminal
      /\ run'.noPrune = run.noPrune /\ run'.ok = run.ok /\ run'.hidden = hid
  BY <1>1, <1>5 DEF Runs
<1> QED
  BY <1>1, <1>3, <1>4, <1>5, <1>6, <1>7

LEMMA RouteWritesInv == ASSUME TypeOK, RouteWrites PROVE TypeOK'
<1> USE TypeParts, WritesFields
<1>1. Copies'
  BY CopiesPrime DEF Copies
<1>2. Rest' /\ faults' \in 0 .. MaxFaults
  BY DEF Rest, Indices
<1>3. Links'
  BY Zenon DEF Links, Errored
<1> QED
  BY <1>1, <1>2, <1>3

---------------------------------------------------------------------------
(* The end of a run.                                                       *)

\* However a run ends, its successor is idle.
LEMMA OverType ==
  ASSUME TypeOK, GiveUp \/ End(TRUE) \/ End(FALSE)
  PROVE  /\ run' = Idle /\ due' \in BOOLEAN
         /\ last' \in [by : Indices \cup {0}, ok : BOOLEAN, wanted : SUBSET Indices]
<1>1. run \in Runs /\ Rest
  BY TypeParts
<1>2. run.terminal \subseteq Indices /\ run.ok \in BOOLEAN /\ run.wanted \subseteq Indices
  BY <1>1 DEF Runs
<1>3. Errored => Min(run.terminal) \in Indices
  BY <1>2, FirstType DEF Errored
<1>4. CASE GiveUp
  BY <1>1, <1>4 DEF GiveUp, Rest
<1>5. ASSUME NEW saved \in BOOLEAN, End(saved)
      PROVE  /\ run' = Idle /\ due' \in BOOLEAN
             /\ last' \in [by : Indices \cup {0}, ok : BOOLEAN, wanted : SUBSET Indices]
  <2>1. run' = Idle /\ due' \in BOOLEAN
    BY <1>5, Zenon DEF End
  <2> DEFINE told == saved /\ ~run.hidden
             by   == IF told /\ Errored THEN Min(run.terminal) ELSE 0
             ok   == told /\ run.ok
             want == IF saved THEN run.wanted ELSE {}
  <2>2. last' = [by |-> by, ok |-> ok, wanted |-> want]
    BY <1>5, Zenon DEF End
  <2>3. by \in Indices \cup {0}
    BY <1>3
  <2>4. ok \in BOOLEAN
    BY Zenon
  <2>5. want \in SUBSET Indices
    BY <1>2
  <2> HIDE DEF by, ok, want
  <2> QED
    BY <2>1, <2>2, <2>3, <2>4, <2>5
<1> QED
  BY <1>4, <1>5

LEMMA OverInv ==
  ASSUME TypeOK, GiveUp \/ End(TRUE) \/ End(FALSE),
         object' \in Objects, ~object'.cond.fresh, cache' = cache, recent' \in Objects,
         children' \in SUBSET Indices, faults' \in 0 .. MaxFaults
  PROVE  TypeOK'
<1>1. /\ run' = Idle /\ due' \in BOOLEAN
      /\ last' \in [by : Indices \cup {0}, ok : BOOLEAN, wanted : SUBSET Indices]
  BY OverType
<1>2. Rest'
  BY <1>1 DEF Rest, Indices
<1>3. Copies'
  BY CopiesPrime, TypeParts DEF Copies
<1>4. run' \in Runs /\ Links'
  BY <1>1, IdleType DEF Links
<1> QED
  BY <1>2, <1>3, <1>4, TypeParts

LEMMA SavesRun ==
  ASSUME TypeOK
  PROVE  /\ run \in Runs /\ run.wanted \subseteq Indices /\ children \subseteq Indices
         /\ Prunes \subseteq children
         /\ object \in Objects /\ ~object.cond.fresh /\ recent \in Objects
<1>1. run \in Runs /\ Rest /\ Copies
  BY TypeParts
<1> QED
  BY <1>1 DEF Runs, Rest, Copies, Prunes

LEMMA HandleFailsInv == ASSUME TypeOK, HandleFails PROVE TypeOK'
<1>1. GiveUp /\ UNCHANGED <<object, cache, recent, children, faults>>
  BY Zenon DEF HandleFails
<1> QED
  BY <1>1, SavesRun, OverInv, TypeParts

LEMMA ApplyObjectsInv == ASSUME TypeOK, ApplyObjects PROVE TypeOK'
<1> USE TypeParts
<1>1. /\ children' = IF run.read.exists THEN (children \cup run.wanted) \ Prunes ELSE children
      /\ run' = [run EXCEPT !.pc = "status", !.existing = NoCond, !.noPrune = FALSE,
                            !.split = FALSE, !.stored = FALSE]
      /\ UNCHANGED <<object, cache, recent, due, last, faults>>
  BY Zenon DEF ApplyObjects
<1>2. children' \in SUBSET Indices
  BY <1>1, SavesRun
<1>3. run' \in Runs /\ run'.pc = "status" /\ run'.stored = FALSE
  BY <1>1, Values, SavesRun DEF Runs
<1>4. Links'
  BY <1>3 DEF Links
<1>5. Copies'
  BY <1>1, CopiesPrime DEF Copies
<1>6. Rest' /\ faults' \in 0 .. MaxFaults
  BY <1>1, <1>2 DEF Rest, Indices
<1> QED
  BY <1>3, <1>4, <1>5, <1>6

LEMMA ApplyFailsInv == ASSUME TypeOK, ApplyFails PROVE TypeOK'
<1>1. /\ \E made \in SUBSET run.wanted, gone \in SUBSET Prunes :
           children' = (children \cup made) \ gone
      /\ Fault /\ SaveFails /\ UNCHANGED <<object, cache, recent>>
  BY Zenon DEF ApplyFails
<1>2. children' \in SUBSET Indices
  BY <1>1, SavesRun
<1>3. faults' \in 0 .. MaxFaults
  BY <1>1, FaultType, TypeParts
<1>4. GiveUp \/ End(FALSE)
  BY <1>1, Zenon DEF SaveFails
<1> QED
  BY <1>1, <1>2, <1>3, <1>4, SavesRun, OverInv

LEMMA StatusInv ==
  ASSUME TypeOK, StatusKept \/ StatusWritten \/ StatusFails PROVE TypeOK'
<1>1. CASE StatusKept
  <2>1. End(TRUE) /\ UNCHANGED <<object, cache, recent, children, faults>>
    BY <1>1, Zenon DEF StatusKept
  <2> QED
    BY <2>1, SavesRun, OverInv, TypeParts
<1>2. CASE StatusWritten
  <2>1. /\ object' = IF object.cond = run.obj.cond THEN object
                     ELSE [object EXCEPT !.cond = [run.obj.cond EXCEPT !.fresh = FALSE],
                                         !.rv = @ + 1]
        /\ recent' = object' /\ End(TRUE) /\ UNCHANGED <<cache, children, faults>>
    BY <1>2, Zenon DEF StatusWritten
  <2>2. object' \in Objects /\ ~object'.cond.fresh
    <3> DEFINE c == [run.obj.cond EXCEPT !.fresh = FALSE]
    <3>1. run.obj.cond \in Conditions
      BY SavesRun DEF Runs, Objects
    <3>2. c \in Conditions /\ ~c.fresh
      BY <3>1 DEF Conditions
    <3>3. object' = object \/ object' = [object EXCEPT !.cond = c, !.rv = @ + 1]
      BY <2>1
    <3> HIDE DEF c
    <3>4. object.rv + 1 \in Nat
      BY SavesRun DEF Objects
    <3> QED
      BY <3>2, <3>3, <3>4, SavesRun DEF Objects
  <2> QED
    BY <2>1, <2>2, SavesRun, OverInv, TypeParts
<1>3. CASE StatusFails
  <2>1. /\ SaveFails /\ UNCHANGED <<object, cache, recent, children>>
        /\ faults' = faults \/ Fault
    BY <1>3, Zenon DEF StatusFails
  <2>2. faults' \in 0 .. MaxFaults
    BY <2>1, FaultType, TypeParts
  <2>3. GiveUp \/ End(FALSE)
    BY <2>1, Zenon DEF SaveFails
  <2> QED
    BY <2>1, <2>2, <2>3, SavesRun, OverInv
<1> QED
  BY <1>1, <1>2, <1>3

---------------------------------------------------------------------------
LEMMA StutterInv == ASSUME TypeOK, UNCHANGED vars PROVE TypeOK'
<1> USE TypeParts
<1>1. UNCHANGED <<object, cache, recent, due, children, run, last, faults>>
  BY DEF vars
<1>2. Copies'
  BY <1>1, CopiesPrime DEF Copies
<1>3. Rest' /\ Links'
  BY <1>1 DEF Rest, Links, Errored, Indices
<1> QED
  BY <1>1, <1>2, <1>3

LEMMA StepInv == TypeOK /\ [Next]_vars => TypeOK'
<1> SUFFICES ASSUME TypeOK, [Next]_vars PROVE TypeOK'
  OBVIOUS
<1>1. CASE Environment \/ Sync
  BY <1>1, ServerInv
<1>2. CASE Step
  BY <1>2, BeginInv, SkipInv, RouteOkInv, HandleFailsInv, ApplyObjectsInv, StatusInv,
     Zenon DEF Step
<1>3. CASE Fails
  BY <1>3, RouteFailsInv, RouteTerminalInv, ApplyFailsInv, Zenon DEF Fails
<1>4. CASE RouteWrites
  BY <1>4, RouteWritesInv
<1>5. CASE UNCHANGED vars
  BY <1>5, StutterInv
<1> QED
  BY <1>1, <1>2, <1>3, <1>4, <1>5, Zenon DEF Next

\* The condition of a run, the response and the cached client's pointer go together as
\* TypeOK says (setter.go, cached.go:107), for any routes and bounds.
THEOREM RunTypes == Spec => []TypeOK
<1>1. Init => TypeOK
  BY InitInv
<1> QED
  BY <1>1, StepInv, PTL DEF Spec

---------------------------------------------------------------------------
\* Only apply takes objects from the owner, and only what the run may prune.
LEMMA LosesPruned ==
  ASSUME TypeOK, [Next]_vars, NEW i \in children \ children'
  PROVE  run.pc = "handle" /\ i \in Prunes
<1>1. CASE ApplyObjects
  BY <1>1 DEF ApplyObjects, Saves
<1>2. CASE ApplyFails
  BY <1>2 DEF ApplyFails, Saves
<1>3. CASE ~ApplyObjects /\ ~ApplyFails
  <2>1. CASE Environment \/ Sync
    BY <2>1 DEF Environment, ChangeSpec, Relabel, Delete, Sync, Loop
  <2>2. CASE Step
    <3>1. children' = children
      BY <1>3, <2>2, Zenon DEF Step, Begin, Skip, RouteOk, Returned, HandleFails, StatusKept,
           StatusWritten, StatusFails
    <3> QED
      BY <3>1
  <2>3. CASE Fails
    <3>1. children' = children
      BY <1>3, <2>3, Zenon DEF Fails, RouteFails, RouteTerminal, Returned
    <3> QED
      BY <3>1
  <2>4. CASE RouteWrites
    BY <2>4 DEF RouteWrites
  <2>5. CASE UNCHANGED vars
    BY <2>5 DEF vars
  <2> QED
    BY <2>1, <2>2, <2>3, <2>4, <2>5, Zenon DEF Next
<1> QED
  BY <1>1, <1>2, <1>3

\* A route with a terminal error disables pruning (setter.go:99), so that the run takes
\* nothing from the owner.
THEOREM FailuresKeepObjects == Spec => FailedKeepsObjects
<1>1. ASSUME TypeOK, [Next]_vars
      PROVE  [\A i \in children \ children' : i \notin run.terminal]_vars
  <2>1. ASSUME NEW i \in children \ children' PROVE i \notin run.terminal
    <3>1. run.pc = "handle" /\ i \in Prunes
      BY <1>1, <2>1, LosesPruned
    <3>2. ~run.noPrune
      BY <3>1 DEF Prunes
    <3>3. ~Errored
      BY <1>1, <3>1, <3>2, TypeParts, Zenon DEF Links
    <3> QED
      BY <3>3 DEF Errored
  <2> QED
    BY <2>1
<1> QED
  BY <1>1, RunTypes, PTL DEF Spec, FailedKeepsObjects

---------------------------------------------------------------------------
(* What a run has found, and what the server has.                          *)

\* A condition that has the server's time has the server's status.
SameStatus(c) == ~c.fresh => c.status = object.cond.status

\* A condition that has another time has another status.
OtherStatus(c) == c.fresh => c.status # object.cond.status

\* The copies are no newer than the object.  The informer's object is as the server had it; the
\* cached client may remember one whose condition a run has changed.
Versions ==
  object.exists =>
    /\ cache.exists /\ cache.rv <= object.rv /\ (cache.rv = object.rv => cache = object)
    /\ recent.exists => /\ recent.rv <= object.rv
                        /\ recent.rv = object.rv => SameStatus(recent.cond)

\* The run's object, and the condition it is to put back, while the object is not changed:
\* a time other than the server's goes with another status, unless the run was given one.
Times ==
  run.pc # "idle" /\ object.exists =>
    /\ run.read.exists /\ run.obj.rv <= object.rv
    /\ run.obj.rv = object.rv =>
         /\ SameStatus(run.obj.cond)
         /\ ~run.read.cond.fresh => OtherStatus(run.obj.cond)
         /\ run.pc = "handle" =>
              /\ SameStatus(Existing)
              /\ ~run.read.cond.fresh /\ Existing.fresh => object.cond.status = "none"

\* A condition tells what came of a run, for generation gen.
Tells(c, by, gen) ==
  c.status = (IF by = 0 THEN "true" ELSE "false") /\ c.by = by /\ c.gen = gen

\* A run that nothing has happened since knows the object as it is, and its condition
\* tells what came of the routes so far.
UpToDate == run.pc # "idle" /\ ~due /\ cache = object /\ object.exists

Told ==
  UpToDate =>
    /\ run.read = object /\ run.obj.exists
    /\ run.obj.rv = object.rv /\ run.obj.gen = object.gen
    /\ ~run.hidden =>
         IF Errored THEN Tells(run.obj.cond, Min(run.terminal), object.gen)
                    ELSE run.ok => Tells(run.obj.cond, 0, object.gen)

\* The routes are called in their order.
InOrder == run.pc = "handle" => \A i \in run.terminal : i < run.i

\* What was asked for was made, by the run or by the last one.
Made ==
  /\ run.pc = "status" /\ run.read.exists => run.wanted \subseteq children
  /\ run.pc = "idle" /\ ~due /\ object.exists => last.wanted \subseteq children

Facts == Versions /\ Times /\ Told /\ InOrder /\ Made /\ ConditionTells

---------------------------------------------------------------------------
(* Conditions and objects.                                                 *)

LEMMA SetFields ==
  ASSUME NEW c \in Conditions, NEW n \in Conditions
  PROVE  /\ SetCondition(c, n) \in Conditions
         /\ SetCondition(c, n).status = n.status
         /\ SetCondition(c, n).by = n.by /\ SetCondition(c, n).gen = n.gen
         /\ SetCondition(c, n).fresh = IF c.status = n.status THEN c.fresh ELSE n.fresh
BY DEF SetCondition, Conditions

\* What a route sets.
NewConditions == {n \in Conditions : n.status # "none" /\ n.fresh}

\* A new condition that is set over c and what was before the run, e, has the server's time
\* only if it has the server's status, and another only if it has not, unless e has.
LEMMA SetTimes ==
  ASSUME NEW c \in Conditions, NEW e \in Conditions, NEW n \in NewConditions,
         e = NoCond => c = NoCond, SameStatus(c), SameStatus(e)
  PROVE  /\ SetOver(c, e, n).status = n.status /\ SetOver(c, e, n).by = n.by
         /\ SetOver(c, e, n).gen = n.gen /\ SameStatus(SetOver(c, e, n))
         /\ OtherStatus(c) /\ (e.fresh => object.cond.status = "none") =>
              OtherStatus(SetOver(c, e, n))
<1> USE DEF NewConditions, SameStatus, OtherStatus
<1>1. CASE e = NoCond
  <2>1. SetOver(c, e, n) = SetCondition(c, n)
    BY <1>1 DEF SetOver
  <2>2. c.status = "none" /\ ~c.fresh
    BY <1>1 DEF NoCond
  <2> QED
    BY <2>1, <2>2, SetFields
<1>2. CASE e # NoCond
  <2>1. PICK d \in Conditions :
          /\ d = SetCondition(c, e) /\ d.status = e.status
          /\ d.fresh = IF c.status = e.status THEN c.fresh ELSE e.fresh
    BY SetFields
  <2>2. PICK s \in Conditions :
          /\ s = SetCondition(d, n) /\ s.status = n.status /\ s.by = n.by /\ s.gen = n.gen
          /\ s.fresh = IF d.status = n.status THEN d.fresh ELSE n.fresh
    BY SetFields
  <2>3. SetOver(c, e, n) = s
    BY <1>2, <2>1, <2>2 DEF SetOver
  <2> QED
    BY <2>1, <2>2, <2>3
<1> QED
  BY <1>1, <1>2

LEMMA ConditionFields ==
  ASSUME run \in Runs, NEW status \in {"true", "false"}, NEW i \in Indices \cup {0}
  PROVE  LET n == Condition(status, i) IN
         n \in NewConditions /\ n.status = status /\ n.by = i /\ n.gen = run.obj.gen
BY DEF Runs, Objects, Conditions, Condition, NewConditions

\* The numbers of objects.
LEMMA Revisions ==
  ASSUME TypeOK
  PROVE  /\ object.rv \in Nat /\ cache.rv \in Nat /\ recent.rv \in Nat /\ run.obj.rv \in Nat
         /\ run.obj \in Objects /\ run.obj.cond \in Conditions /\ object.cond \in Conditions
BY DEF TypeOK, Objects, Runs

---------------------------------------------------------------------------
(* The server and the informer.                                            *)

\* A new version of the object is one that no copy has.
LEMMA NewVersion ==
  ASSUME TypeOK, Facts, object'.exists => object.exists /\ object'.rv = object.rv + 1,
         UNCHANGED <<cache, recent, due, children, run, last>>
  PROVE  Facts'
<1> USE Revisions
<1>1. object'.exists =>
        /\ object.exists /\ cache.rv < object'.rv
        /\ recent.exists => recent.rv < object'.rv
        /\ run.pc # "idle" => run.obj.rv < object'.rv /\ run.read.exists
  BY DEF Facts, Versions, Times
<1>2. object'.exists => cache' # object'
  BY <1>1
<1>3. Versions' /\ Times'
  BY <1>1 DEF Facts, Versions, Times
<1>4. Told' /\ ConditionTells'
  BY <1>2 DEF Told, UpToDate, ConditionTells, AtRest
<1>5. InOrder' /\ Made'
  BY <1>1 DEF Facts, InOrder, Made
<1> QED
  BY <1>3, <1>4, <1>5 DEF Facts

LEMMA ServerFacts == ASSUME TypeOK, Facts, Environment PROVE Facts'
<1>1. object \in Objects
  BY TypeParts DEF Copies
<1>2. object'.exists => object.exists /\ object'.rv = object.rv + 1
  <2>1. Gone.exists = FALSE
    BY DEF Gone
  <2> QED
    BY <1>1, <2>1 DEF Environment, ChangeSpec, Relabel, Delete, Objects
<1>3. UNCHANGED <<cache, recent, due, children, run, last>>
  BY DEF Environment, ChangeSpec, Relabel, Delete, Loop
<1> QED
  BY <1>2, <1>3, NewVersion

LEMMA SyncFacts == ASSUME TypeOK, Facts, Sync PROVE Facts'
<1> USE Revisions DEF Sync, Facts
<1>1. Versions'
  BY DEF Versions, SameStatus
<1>2. Times'
  BY DEF Times, SameStatus, OtherStatus, Existing
<1>3. Told' /\ ConditionTells' /\ InOrder' /\ Made'
  BY DEF Told, UpToDate, ConditionTells, AtRest, InOrder, Made
<1> QED
  BY <1>1, <1>2, <1>3

---------------------------------------------------------------------------
(* The run.                                                                *)

LEMMA BeginFacts == ASSUME TypeOK, Facts, Begin PROVE Facts'
<1> USE DEF Facts
<1>1. /\ run.pc = "idle" /\ due /\ due' = FALSE
      /\ run' = [Idle EXCEPT !.pc = "handle", !.i = 1, !.obj = Get, !.read = Get]
      /\ UNCHANGED <<object, cache, recent, children, last, faults>>
  BY DEF Begin
<1>2. /\ run'.pc = "handle" /\ run'.i = 1 /\ run'.obj = Get /\ run'.read = Get
      /\ run'.existing = NoCond /\ run'.terminal = {} /\ run'.ok = FALSE
  BY <1>1 DEF Idle
<1>3. Versions'
  BY <1>1 DEF Versions, SameStatus
<1>4. object.exists =>
        /\ Get.exists /\ Get.rv <= object.rv
        /\ Get.rv = object.rv => SameStatus(Get.cond)
        /\ cache = object => Get = object
  BY Revisions DEF Versions, Get, SameStatus
<1>5. Times'
  <2>1. Existing' = Get.cond
    BY <1>2 DEF Existing
  <2> QED
    BY <1>1, <1>2, <1>4, <2>1, TypeParts DEF Times, SameStatus, OtherStatus, Copies
<1>6. Told'
  BY <1>1, <1>2, <1>4 DEF Told, UpToDate, Errored
<1>7. InOrder' /\ Made' /\ ConditionTells'
  BY <1>2 DEF InOrder, Made, ConditionTells, AtRest
<1> QED
  BY <1>3, <1>5, <1>6, <1>7

LEMMA SkipFacts == ASSUME TypeOK, Facts, Skip PROVE Facts'
<1> USE DEF Facts
<1>1. /\ run.pc = "handle" /\ run.i \in Nat
      /\ UNCHANGED <<object, cache, recent, due, children, last, faults>>
  BY Lengths DEF Skip
<1>2. /\ run'.pc = run.pc /\ run'.i = run.i + 1 /\ run'.obj = run.obj /\ run'.read = run.read
      /\ run'.existing = run.existing /\ run'.terminal = run.terminal /\ run'.ok = run.ok
      /\ run'.hidden = run.hidden
  BY TypeParts DEF Skip, Runs
<1>3. Versions' /\ Times'
  BY <1>1, <1>2 DEF Versions, Times, SameStatus, OtherStatus, Existing
<1>4. Told'
  BY <1>1, <1>2 DEF Told, UpToDate, Errored
<1>5. InOrder'
  <2>1. \A i \in run.terminal : i < run.i /\ i \in Nat
    BY <1>1, TypeParts, Lengths DEF InOrder, Runs
  <2> QED
    BY <1>1, <1>2, <2>1 DEF InOrder
<1>6. Made' /\ ConditionTells'
  BY <1>1, <1>2 DEF Made, ConditionTells, AtRest
<1> QED
  BY <1>3, <1>4, <1>5, <1>6

\* What a route that returns leaves of the run.
LEMMA ReturnedFields ==
  ASSUME TypeOK, Called, NEW r \in Runs, NEW c, NEW wants, NEW self,
         r.pc = "handle", r.i = run.i, r.obj = run.obj, r.read = run.read,
         r.existing = run.existing, Returned(r, c, wants, self)
  PROVE  /\ run'.pc = "handle" /\ run'.i = run.i + 1 /\ run'.read = run.read
         /\ run'.obj.rv = run.obj.rv /\ run'.obj.gen = run.obj.gen
         /\ run'.obj.exists = run.obj.exists
         /\ run'.obj.cond = (IF Wrapped /\ ~run.split THEN c ELSE run.obj.cond)
         /\ run'.existing = (IF Wrapped THEN Existing ELSE run.existing)
         /\ ~run'.hidden => ~r.hidden /\ ~run.split
         /\ run'.terminal = r.terminal /\ run'.ok = r.ok
         /\ recent' = (IF run.stored THEN run'.obj ELSE recent)
         /\ UNCHANGED <<object, cache, due, children, last>>
<1> DEFINE cond == IF Wrapped /\ ~run.split THEN c ELSE r.obj.cond
           obj == [r.obj EXCEPT !.cond = cond]
           ex  == IF Wrapped THEN Existing ELSE r.existing
           hid == r.hidden \/ run.split
           spl == r.split \/ self
           wan == r.wanted \cup wants
<1>1. run' = [r EXCEPT !.i = r.i + 1, !.wanted = wan, !.existing = ex,
                       !.obj = obj, !.hidden = hid, !.split = spl]
  <2>1. run' = [r EXCEPT !.i = r.i + 1, !.wanted = wan, !.existing = ex,
                         !.obj.cond = cond, !.hidden = hid, !.split = spl]
    BY Zenon DEF Returned
  <2> QED
    BY <2>1, Zenon
<1>2. obj.rv = run.obj.rv /\ obj.gen = run.obj.gen /\ obj.exists = run.obj.exists /\ obj.cond = cond
  <2> HIDE DEF cond
  <2> QED
    BY Revisions DEF Objects
<1> HIDE DEF obj, hid, spl, wan, ex
<1>3. /\ run'.pc = "handle" /\ run'.i = run.i + 1 /\ run'.read = run.read /\ run'.obj = obj
      /\ run'.existing = ex /\ run'.hidden = hid /\ run'.terminal = r.terminal /\ run'.ok = r.ok
  BY <1>1 DEF Runs
<1>4. ~hid => ~r.hidden /\ ~run.split
  BY Zenon DEF hid
<1>5. /\ recent' = (IF run.stored THEN run'.obj ELSE recent)
      /\ UNCHANGED <<object, cache, due, children, last>>
  BY Zenon DEF Returned
<1>6. obj.cond = (IF Wrapped /\ ~run.split THEN c ELSE run.obj.cond)
  BY <1>2
<1>7. ex = (IF Wrapped THEN Existing ELSE run.existing)
  BY DEF ex
<1> QED
  BY <1>2, <1>3, <1>4, <1>5, <1>6, <1>7

\* The condition of the run's object when a route returns: it is left alone, or set.
Sets(c) ==
  \E status \in {"true", "false"}, i \in Indices \cup {0} :
    c = SetOver(run.obj.cond, Existing, Condition(status, i))

LEMMA SetsFields ==
  ASSUME TypeOK, NEW status \in {"true", "false"}, NEW i \in Indices \cup {0},
         SameStatus(run.obj.cond), SameStatus(Existing)
  PROVE  LET s == SetOver(run.obj.cond, Existing, Condition(status, i)) IN
         /\ s.status = status /\ s.by = i /\ s.gen = run.obj.gen /\ SameStatus(s)
         /\ OtherStatus(run.obj.cond) /\ (Existing.fresh => object.cond.status = "none") =>
              OtherStatus(s)
<1>1. run \in Runs /\ run.obj.cond \in Conditions /\ Existing \in Conditions
  BY Revisions, ExistingType, TypeParts
<1>2. PICK n \in NewConditions :
        n = Condition(status, i) /\ n.status = status /\ n.by = i /\ n.gen = run.obj.gen
  BY <1>1, ConditionFields
<1>3. Existing = NoCond => run.obj.cond = NoCond
  BY DEF Existing
<1> QED
  BY <1>1, <1>2, <1>3, SetTimes

LEMMA ReturnedKeeps ==
  ASSUME TypeOK, Facts, Called, NEW r \in Runs, NEW c, NEW wants, NEW self,
         r.pc = "handle", r.i = run.i, r.obj = run.obj, r.read = run.read,
         r.existing = run.existing, Returned(r, c, wants, self), c = run.obj.cond \/ Sets(c)
  PROVE  Versions' /\ Times' /\ Made' /\ ConditionTells'
<1> USE DEF Facts
<1>1. /\ run'.pc = "handle" /\ run'.read = run.read /\ run'.obj.rv = run.obj.rv
      /\ run'.obj.cond \in {c, run.obj.cond}
      /\ run'.existing \in {Existing, run.existing}
      /\ Existing = NoCond => run.obj.cond = NoCond
      /\ run'.existing = run.existing => run'.obj.cond = run.obj.cond \/ run.existing = Existing
      /\ recent' = (IF run.stored THEN run'.obj ELSE recent)
      /\ UNCHANGED <<object, cache, due, children, last>>
      /\ run.pc = "handle" /\ Called
  BY ReturnedFields DEF Called, Existing
<1>2. ASSUME object.exists, run.obj.rv = object.rv
      PROVE  /\ SameStatus(run.obj.cond) /\ SameStatus(Existing) /\ SameStatus(c)
             /\ ~run.read.cond.fresh =>
                  /\ OtherStatus(run.obj.cond) /\ OtherStatus(c)
                  /\ Existing.fresh => object.cond.status = "none"
  <2>1. /\ SameStatus(run.obj.cond) /\ SameStatus(Existing)
        /\ ~run.read.cond.fresh =>
             /\ OtherStatus(run.obj.cond)
             /\ Existing.fresh => object.cond.status = "none"
    BY <1>1, <1>2 DEF Times
  <2>2. CASE c = run.obj.cond
    BY <2>1, <2>2
  <2>3. CASE Sets(c)
    <3>1. PICK status \in {"true", "false"}, i \in Indices \cup {0} :
            c = SetOver(run.obj.cond, Existing, Condition(status, i))
      BY <2>3 DEF Sets
    <3> QED
      BY <2>1, <3>1, SetsFields
  <2> QED
    BY <2>2, <2>3
<1>3. ASSUME object.exists, run.obj.rv = object.rv
      PROVE  /\ SameStatus(run'.obj.cond) /\ SameStatus(Existing')
             /\ ~run.read.cond.fresh =>
                  /\ OtherStatus(run'.obj.cond)
                  /\ Existing'.fresh => object.cond.status = "none"
  <2>1. /\ SameStatus(run'.obj.cond)
        /\ ~run.read.cond.fresh => OtherStatus(run'.obj.cond)
    BY <1>1, <1>2, <1>3
  <2>2. Existing' = Existing \/ (Existing' = run'.obj.cond /\ (Existing = NoCond \/ Existing = run'.obj.cond))
    BY <1>1 DEF Existing
  <2>3. Existing = NoCond => object.cond.status = "none"
    BY <1>2, <1>3 DEF NoCond, SameStatus
  <2> QED
    BY <1>2, <1>3, <2>1, <2>2, <2>3
<1>4. Times'
  BY <1>1, <1>3 DEF Times, SameStatus, OtherStatus
<1>5. Versions'
  <2>1. object.exists => run.obj.rv <= object.rv
    BY <1>1 DEF Times
  <2> QED
    BY <1>1, <1>3, <2>1 DEF Versions, SameStatus
<1>6. Made' /\ ConditionTells'
  BY <1>1 DEF Made, ConditionTells, AtRest
<1> QED
  BY <1>4, <1>5, <1>6

\* The facts about a run whose routes are called, of what is up to date.
LEMMA CalledTold ==
  ASSUME TypeOK, Facts, Called, UpToDate
  PROVE  /\ run.read = object /\ run.obj.exists
         /\ run.obj.rv = object.rv /\ run.obj.gen = object.gen
         /\ SameStatus(run.obj.cond) /\ SameStatus(Existing)
         /\ Wrapped <=> Routes[run.i].wrapped
BY DEF Facts, Told, UpToDate, Times, Called, Wrapped

LEMMA RouteOkFacts ==
  ASSUME TypeOK, Facts, NEW wants, NEW later \in BOOLEAN, NEW self \in BOOLEAN,
         RouteOk(wants, later, self)
  PROVE  Facts'
<1> DEFINE del == run.delay \/ later
           ok  == run.ok \/ Wrapped
           hid == StillHidden
           r   == [run EXCEPT !.delay = del, !.ok = ok, !.hidden = hid]
           s   == SetOver(run.obj.cond, Existing, Condition("true", 0))
           c   == IF Errored THEN run.obj.cond ELSE s
<1>1. Called /\ Returned(r, c, wants, self)
  BY Zenon DEF RouteOk
<1>2. c = run.obj.cond \/ Sets(c)
  BY DEF Sets
<1>3. /\ del \in BOOLEAN /\ ok \in BOOLEAN /\ hid \in BOOLEAN
      /\ ok => run.ok \/ Wrapped
      /\ ~hid /\ run.hidden => ~Errored /\ Wrapped
  BY Zenon DEF StillHidden
<1> HIDE DEF del, ok, hid, s
<1>4. r \in Runs
  BY <1>1, <1>3, CalledRun DEF Runs
<1>5. /\ r.pc = "handle" /\ r.i = run.i /\ r.obj = run.obj /\ r.read = run.read
      /\ r.existing = run.existing /\ r.hidden = hid
      /\ r.terminal = run.terminal /\ r.ok = ok
  BY <1>1, CalledRun DEF Runs
<1> HIDE DEF r
<1>6. Versions' /\ Times' /\ Made' /\ ConditionTells'
  BY <1>1, <1>2, <1>4, <1>5, ReturnedKeeps
<1>7. /\ run'.pc = "handle" /\ run'.i = run.i + 1 /\ run'.read = run.read
      /\ run'.obj.rv = run.obj.rv /\ run'.obj.gen = run.obj.gen
      /\ run'.obj.exists = run.obj.exists
      /\ run'.obj.cond = (IF Wrapped /\ ~run.split THEN c ELSE run.obj.cond)
      /\ ~run'.hidden => ~run.split /\ (run.hidden => ~Errored /\ Wrapped)
      /\ run'.terminal = run.terminal /\ run'.ok = ok
      /\ UNCHANGED <<object, cache, due, children, last>>
  BY <1>1, <1>3, <1>4, <1>5, ReturnedFields
<1>8. InOrder'
  BY <1>1, <1>7, CalledRun, Lengths DEF Facts, InOrder, Runs
<1>9. Told'
  <2> SUFFICES ASSUME UpToDate, ~run'.hidden
               PROVE  IF Errored THEN Tells(run'.obj.cond, Min(run.terminal), object.gen)
                      ELSE ok => Tells(run'.obj.cond, 0, object.gen)
    BY <1>1, <1>7, CalledTold DEF Told, UpToDate, Errored, Called
  <2>1. ~run.hidden => IF Errored THEN Tells(run.obj.cond, Min(run.terminal), object.gen)
                       ELSE run.ok => Tells(run.obj.cond, 0, object.gen)
    BY DEF Facts, Told
  <2>2. CASE Errored
    BY <1>7, <2>1, <2>2
  <2>3. CASE ~Errored /\ Wrapped
    <3>1. s.status = "true" /\ s.by = 0 /\ s.gen = object.gen
      BY <1>1, CalledTold, SetsFields DEF s
    <3> QED
      BY <1>7, <2>3, <3>1 DEF Tells
  <2>4. CASE ~Errored /\ ~Wrapped
    BY <1>3, <1>7, <2>1, <2>4
  <2> QED
    BY <2>2, <2>3, <2>4
<1> QED
  BY <1>6, <1>8, <1>9 DEF Facts

LEMMA RouteFailsFacts == ASSUME TypeOK, Facts, NEW wants, RouteFails(wants) PROVE Facts'
<1> DEFINE r == [run EXCEPT !.failed = @ \cup {run.i}]
<1>1. Called /\ Returned(r, run.obj.cond, wants, FALSE)
  BY Zenon DEF RouteFails
<1>2. r \in Runs
  BY <1>1, CalledRun DEF Runs
<1>3. /\ r.pc = "handle" /\ r.i = run.i /\ r.obj = run.obj /\ r.read = run.read
      /\ r.existing = run.existing /\ r.hidden = run.hidden
      /\ r.terminal = run.terminal /\ r.ok = run.ok
  BY <1>1, CalledRun DEF Runs
<1> HIDE DEF r
<1>4. Versions' /\ Times' /\ Made' /\ ConditionTells'
  BY <1>1, <1>2, <1>3, ReturnedKeeps
<1>5. /\ run'.pc = "handle" /\ run'.i = run.i + 1 /\ run'.read = run.read
      /\ run'.obj.rv = run.obj.rv /\ run'.obj.gen = run.obj.gen
      /\ run'.obj.exists = run.obj.exists /\ run'.obj.cond = run.obj.cond
      /\ ~run'.hidden => ~run.hidden
      /\ run'.terminal = run.terminal /\ run'.ok = run.ok
      /\ UNCHANGED <<object, cache, due, children, last>>
  BY <1>1, <1>2, <1>3, ReturnedFields
<1>6. InOrder'
  BY <1>1, <1>5, CalledRun, Lengths DEF Facts, InOrder, Runs
<1>7. Told'
  BY <1>1, <1>5 DEF Facts, Told, UpToDate, Errored, Called
<1> QED
  BY <1>4, <1>6, <1>7 DEF Facts

\* A route that comes after others is not the first.
LEMMA MinAdd ==
  ASSUME NEW S, S \subseteq Indices, NEW i \in Indices, \A j \in S : j < i
  PROVE  Min(S \cup {i}) = IF S = {} THEN i ELSE Min(S)
<1>1. Min(S \cup {i}) \in S \cup {i} /\ \A y \in S \cup {i} : Min(S \cup {i}) <= y
  BY FirstType
<1>2. CASE S = {}
  BY <1>1, <1>2
<1>3. CASE S # {}
  <2>1. Min(S) \in S /\ \A y \in S : Min(S) <= y
    BY <1>3, FirstType
  <2>2. Min(S \cup {i}) \in Nat /\ Min(S) \in Nat /\ i \in Nat
    BY <1>1, <2>1, Lengths
  <2>3. Min(S \cup {i}) <= Min(S) /\ Min(S) < i
    BY <1>1, <2>1
  <2>4. Min(S \cup {i}) \in S
    BY <1>1, <2>2, <2>3
  <2>5. Min(S) <= Min(S \cup {i})
    BY <2>1, <2>4
  <2> HIDE DEF Min
  <2>6. \A a, b \in Nat : a <= b /\ b <= a => a = b
    OBVIOUS
  <2>7. Min(S \cup {i}) = Min(S)
    BY <2>2, <2>3, <2>5, <2>6
  <2> QED
    BY <1>3, <2>7
<1> QED
  BY <1>2, <1>3

LEMMA RouteTerminalFacts == ASSUME TypeOK, Facts, NEW wants, RouteTerminal(wants) PROVE Facts'
<1> DEFINE hid == StillHidden
           r == [run EXCEPT !.terminal = @ \cup {run.i}, !.noPrune = TRUE, !.hidden = hid]
           s == SetOver(run.obj.cond, Existing, Condition("false", run.i))
           c == IF Errored THEN run.obj.cond ELSE s
<1>1. Called /\ Wrapped /\ Returned(r, c, wants, FALSE) /\ run.i \in Indices
  BY Zenon DEF RouteTerminal, Called
<1>2. c = run.obj.cond \/ Sets(c)
  BY <1>1 DEF Sets
<1> hid \in BOOLEAN /\ (~hid => ~run.hidden \/ ~Errored)
  BY Zenon DEF StillHidden
<1> HIDE DEF hid
<1>3. r \in Runs
  BY <1>1, CalledRun DEF Runs
<1>4. /\ r.pc = "handle" /\ r.i = run.i /\ r.obj = run.obj /\ r.read = run.read
      /\ r.existing = run.existing /\ r.hidden = hid
      /\ r.terminal = run.terminal \cup {run.i} /\ r.ok = run.ok
  BY <1>1, CalledRun DEF Runs
<1> HIDE DEF r, s
<1>5. Versions' /\ Times' /\ Made' /\ ConditionTells'
  BY <1>1, <1>2, <1>3, <1>4, ReturnedKeeps
<1>6. /\ run'.pc = "handle" /\ run'.i = run.i + 1 /\ run'.read = run.read
      /\ run'.obj.rv = run.obj.rv /\ run'.obj.gen = run.obj.gen
      /\ run'.obj.exists = run.obj.exists
      /\ run'.obj.cond = (IF ~run.split THEN c ELSE run.obj.cond)
      /\ ~run'.hidden => (~run.hidden \/ ~Errored) /\ ~run.split
      /\ run'.terminal = run.terminal \cup {run.i}
      /\ UNCHANGED <<object, cache, due, children, last>>
  BY <1>1, <1>3, <1>4, ReturnedFields
<1>7. /\ run.terminal \subseteq Indices /\ run.i \in Nat
      /\ \A i \in run.terminal : i \in Nat /\ i < run.i
  BY <1>1, CalledRun, Lengths DEF Facts, InOrder, Runs
<1>8. InOrder'
  BY <1>6, <1>7 DEF InOrder
<1>9. Min(run'.terminal) = IF Errored THEN Min(run.terminal) ELSE run.i
  BY <1>1, <1>6, <1>7, MinAdd DEF Errored
<1>10. Told'
  <2> SUFFICES ASSUME UpToDate, ~run'.hidden
               PROVE  Tells(run'.obj.cond, Min(run'.terminal), object.gen)
    BY <1>1, <1>6, CalledTold DEF Told, UpToDate, Errored, Called
  <2>1. CASE Errored
    BY <1>6, <1>9, <2>1 DEF Facts, Told
  <2>2. CASE ~Errored
    <3>1. s.status = "false" /\ s.by = run.i /\ s.gen = object.gen
      BY <1>1, CalledTold, SetsFields DEF s
    <3>2. run.i # 0
      BY <1>1, Lengths
    <3> QED
      BY <1>6, <1>9, <2>2, <3>1, <3>2 DEF Tells
  <2> QED
    BY <2>1, <2>2
<1> QED
  BY <1>5, <1>8, <1>10 DEF Facts

LEMMA RouteWritesFacts == ASSUME TypeOK, Facts, RouteWrites PROVE Facts'
<1> USE WritesFields DEF Facts
<1>1. ~object.cond.fresh /\ object'.rv \in Nat
  BY TypeParts DEF Copies, Objects
<1>2. cache.exists /\ cache.rv <= object'.rv /\ (cache.rv = object'.rv => cache = object')
  <2>1. cache.exists /\ cache.rv <= object.rv /\ (cache.rv = object.rv => cache = object)
    BY DEF Versions
  <2> QED
    BY <2>1, Revisions
<1>3. Versions'
  BY <1>1, <1>2, Revisions DEF Versions, SameStatus
<1>4. Times'
  <2>1. /\ run.read.exists /\ SameStatus(Existing)
        /\ ~run.read.cond.fresh /\ Existing.fresh => object.cond.status = "none"
    BY DEF Times
  <2>2. Existing' \in {Existing, object.cond}
    BY DEF Existing
  <2>3. /\ run'.read = run.read /\ run'.obj.rv = object'.rv /\ object'.rv <= object'.rv
        /\ run'.obj.cond = object.cond /\ object'.cond = object.cond /\ ~object.cond.fresh
    BY <1>1
  <2>4. (SameStatus(Existing) /\ SameStatus(run.obj.cond) /\ OtherStatus(run.obj.cond))'
    BY <2>1, <2>2, <2>3 DEF SameStatus, OtherStatus
  <2>5. ~run'.read.cond.fresh /\ Existing'.fresh => object'.cond.status = "none"
    BY <2>1, <2>2, <2>3
  <2> QED
    BY <2>1, <2>3, <2>4, <2>5 DEF Times
<1>5. Told'
  <2> SUFFICES ASSUME UpToDate'
               PROVE  /\ run'.read = object' /\ run'.obj = object'
                      /\ ~run'.hidden => ~Errored' /\ ~run'.ok
    BY DEF Told
  <2>1. object' = object
    <3>1. cache = object'
      BY DEF UpToDate
    <3> QED
      BY <3>1, Revisions DEF Versions
  <2>2. run.read = object
    BY <2>1 DEF Told, UpToDate
  <2> QED
    BY <2>1, <2>2 DEF Errored
<1>6. ConditionTells' /\ InOrder' /\ Made'
  BY DEF ConditionTells, AtRest, InOrder, Made
<1> QED
  BY <1>3, <1>4, <1>5, <1>6

---------------------------------------------------------------------------
(* The end of a run.                                                       *)

LEMMA IdleFields == Idle.pc = "idle" /\ NoRun.by = 0 /\ NoRun.ok = FALSE /\ NoRun.wanted = {}
BY DEF Idle, NoRun

\* A run that has not been saved leaves nothing to tell, or the key on the queue.
LEMMA UnsavedFacts ==
  ASSUME TypeOK, Facts, GiveUp \/ End(FALSE), UNCHANGED <<object, cache, recent>>
  PROVE  Facts'
<1> USE DEF Facts
<1>1. run'.pc = "idle" /\ (due' \/ last' = NoRun)
  BY IdleFields DEF GiveUp, End, NoRun
<1>2. Versions'
  BY DEF Versions, SameStatus
<1>3. Times' /\ Told' /\ InOrder'
  BY <1>1 DEF Times, Told, UpToDate, InOrder
<1>4. Made' /\ ConditionTells'
  BY <1>1, IdleFields DEF Made, ConditionTells, AtRest
<1> QED
  BY <1>2, <1>3, <1>4

LEMMA HandleFailsFacts == ASSUME TypeOK, Facts, HandleFails PROVE Facts'
<1>1. GiveUp /\ UNCHANGED <<object, cache, recent>>
  BY Zenon DEF HandleFails
<1> QED
  BY <1>1, UnsavedFacts

LEMMA ApplyFailsFacts == ASSUME TypeOK, Facts, ApplyFails PROVE Facts'
<1>1. SaveFails /\ UNCHANGED <<object, cache, recent>>
  BY Zenon DEF ApplyFails
<1>2. GiveUp \/ End(FALSE)
  BY <1>1, Zenon DEF SaveFails
<1> QED
  BY <1>1, <1>2, UnsavedFacts

LEMMA StatusFailsFacts == ASSUME TypeOK, Facts, StatusFails PROVE Facts'
<1>1. SaveFails /\ UNCHANGED <<object, cache, recent>>
  BY Zenon DEF StatusFails
<1>2. GiveUp \/ End(FALSE)
  BY <1>1, Zenon DEF SaveFails
<1> QED
  BY <1>1, <1>2, UnsavedFacts

LEMMA ApplyObjectsFacts == ASSUME TypeOK, Facts, ApplyObjects PROVE Facts'
<1> USE DEF Facts
<1>1. /\ run.pc = "handle"
      /\ children' = IF run.read.exists THEN (children \cup run.wanted) \ Prunes ELSE children
      /\ run' = [run EXCEPT !.pc = "status", !.existing = NoCond, !.noPrune = FALSE,
                            !.split = FALSE, !.stored = FALSE]
      /\ UNCHANGED <<object, cache, recent, due, last, faults>>
  BY DEF ApplyObjects, Saves
<1>2. /\ run'.pc = "status" /\ run'.obj = run.obj /\ run'.read = run.read
      /\ run'.terminal = run.terminal /\ run'.ok = run.ok /\ run'.hidden = run.hidden
      /\ run'.wanted = run.wanted
  BY <1>1, TypeParts DEF Runs
<1>3. Versions' /\ InOrder' /\ ConditionTells'
  BY <1>1, <1>2 DEF Versions, SameStatus, InOrder, ConditionTells, AtRest
<1>4. Times'
  BY <1>1, <1>2 DEF Times, SameStatus, OtherStatus
<1>5. Told'
  BY <1>1, <1>2 DEF Told, UpToDate, Errored
<1>6. Made'
  <2>1. run.wanted \cap Prunes = {}
    BY DEF Prunes
  <2> QED
    BY <1>1, <1>2, <2>1 DEF Made
<1> QED
  BY <1>3, <1>4, <1>5, <1>6

\* What a run that was saved says of itself.
LEMMA EndFields ==
  ASSUME TypeOK, End(TRUE)
  PROVE  /\ run'.pc = "idle" /\ (due => due') /\ last'.wanted = run.wanted
         /\ last'.ok \/ last'.by # 0 =>
              /\ ~run.hidden /\ last'.ok = run.ok
              /\ last'.by = IF Errored THEN Min(run.terminal) ELSE 0
<1> DEFINE told == ~run.hidden
           ok   == told /\ run.ok
<1>1. run'.pc = "idle" /\ (due => due')
  BY IdleFields, Zenon DEF End
<1>2. last' = [by |-> IF told /\ Errored THEN Min(run.terminal) ELSE 0, ok |-> ok,
               wanted |-> run.wanted]
  BY Zenon DEF End
<1>3. run.ok \in BOOLEAN
  BY TypeParts DEF Runs
<1>4. (ok => told) /\ (told => ok = run.ok)
  BY <1>3, Zenon
<1> HIDE DEF ok
<1> QED
  BY <1>1, <1>2, <1>4

\* All that a saved run asked for was made.
LEMMA EndMade ==
  ASSUME TypeOK, Facts, run.pc = "status", End(TRUE), object'.exists => object.exists,
         children' = children
  PROVE  Made'
<1>1. run'.pc = "idle" /\ last'.wanted = run.wanted
  BY EndFields
<1>2. object.exists => run.wanted \subseteq children
  BY DEF Facts, Times, Made
<1> QED
  BY <1>1, <1>2 DEF Made

\* A run that is saved with the condition the server has leaves one that tells.
LEMMA EndTells ==
  ASSUME TypeOK, Facts, run.pc = "status", End(TRUE), UNCHANGED <<object, cache>>,
         UpToDate => run.obj.cond = object.cond
  PROVE  ConditionTells'
<1> SUFFICES ASSUME ~due', cache = object, object.exists, last'.ok \/ last'.by # 0
             PROVE  Tells(object.cond, last'.by, object.gen)
  BY DEF ConditionTells, AtRest, Tells
<1>1. UpToDate
  BY EndFields DEF UpToDate
<1>2. ~run.hidden => IF Errored THEN Tells(run.obj.cond, Min(run.terminal), object.gen)
                     ELSE run.ok => Tells(run.obj.cond, 0, object.gen)
  BY <1>1 DEF Facts, Told
<1>3. /\ ~run.hidden /\ last'.ok = run.ok
      /\ last'.by = IF Errored THEN Min(run.terminal) ELSE 0
  BY EndFields
<1> QED
  BY <1>1, <1>2, <1>3

LEMMA StatusKeptFacts == ASSUME TypeOK, Facts, StatusKept PROVE Facts'
<1> USE DEF Facts
<1>1. /\ run.pc = "status" /\ End(TRUE)
      /\ StatusChanged => Unmodified.exists /\ Unmodified.cond = run.obj.cond
      /\ UNCHANGED <<object, cache, recent, children, faults>>
  BY Zenon DEF StatusKept
<1>2. Versions'
  BY <1>1 DEF Versions, SameStatus
<1>3. Times' /\ Told' /\ InOrder' /\ Made'
  BY <1>1, EndFields, EndMade DEF Times, Told, UpToDate, InOrder
<1>4. ASSUME UpToDate PROVE run.obj.cond = object.cond
  <2>1. run.read = object /\ run.obj.gen = object.gen /\ object.exists
    BY <1>4 DEF Told, UpToDate
  <2> QED
    BY <1>1, <2>1 DEF StatusChanged, Unmodified
<1>5. ConditionTells'
  BY <1>1, <1>4, EndTells
<1> QED
  BY <1>2, <1>3, <1>5

LEMMA StatusWrittenFacts == ASSUME TypeOK, Facts, StatusWritten PROVE Facts'
<1> USE DEF Facts
<1>1. /\ run.pc = "status" /\ End(TRUE) /\ object.exists
      /\ object' = IF object.cond = run.obj.cond THEN object
                   ELSE [object EXCEPT !.cond = [run.obj.cond EXCEPT !.fresh = FALSE],
                                       !.rv = @ + 1]
      /\ recent' = object' /\ UNCHANGED <<cache, children, faults>>
  BY Zenon DEF StatusWritten
<1>2. /\ object'.exists /\ object'.rv \in Nat
      /\ \/ object' = object /\ object.cond = run.obj.cond
         \/ object'.rv = object.rv + 1
  BY <1>1, TypeParts DEF Copies, Objects
<1>3. cache.exists /\ cache.rv <= object'.rv /\ (cache.rv = object'.rv => cache = object')
  <2>1. cache.exists /\ cache.rv <= object.rv /\ (cache.rv = object.rv => cache = object)
    BY <1>1 DEF Versions
  <2> QED
    BY <1>2, <2>1, Revisions
<1>4. Versions'
  BY <1>1, <1>2, <1>3 DEF Versions, SameStatus
<1>5. Times' /\ Told' /\ InOrder' /\ Made'
  BY <1>1, EndFields, EndMade DEF Times, Told, UpToDate, InOrder
<1>6. ConditionTells'
  <2>1. CASE object' = object /\ object.cond = run.obj.cond
    BY <1>1, <2>1, EndTells
  <2>2. CASE object'.rv = object.rv + 1
    <3>1. cache.rv <= object.rv /\ cache.rv \in Nat /\ object.rv \in Nat
      BY <1>1, Revisions DEF Versions
    <3>2. cache.rv # object'.rv /\ cache' = cache
      BY <1>1, <2>2, <3>1
    <3>3. cache' # object'
      BY <3>2, Zenon
    <3> QED
      BY <3>3 DEF ConditionTells, AtRest
  <2> QED
    BY <1>2, <2>1, <2>2
<1> QED
  BY <1>4, <1>5, <1>6

---------------------------------------------------------------------------
LEMMA InitFacts == ASSUME Init PROVE Facts
<1>1. cache = object /\ object.exists = TRUE /\ recent = Gone /\ run = Idle /\ due = TRUE
  BY DEF Init
<1>2. Versions
  <2>1. object.rv <= object.rv /\ Gone.exists = FALSE
    BY <1>1, InitInv, Revisions DEF Gone
  <2> QED
    BY <1>1, <2>1 DEF Versions
<1>3. Times /\ Told /\ InOrder /\ Made /\ ConditionTells
  BY <1>1, IdleFields DEF Times, Told, UpToDate, InOrder, Made, ConditionTells, AtRest
<1> QED
  BY <1>2, <1>3 DEF Facts

LEMMA StepFacts == TypeOK /\ Facts /\ [Next]_vars => Facts'
<1> SUFFICES ASSUME TypeOK, Facts, [Next]_vars PROVE Facts'
  OBVIOUS
<1>1. CASE Environment \/ Sync
  BY <1>1, ServerFacts, SyncFacts
<1>2. CASE Step
  BY <1>2, BeginFacts, SkipFacts, RouteOkFacts, HandleFailsFacts, ApplyObjectsFacts,
     StatusKeptFacts, StatusWrittenFacts, StatusFailsFacts, Zenon DEF Step
<1>3. CASE Fails
  BY <1>3, RouteFailsFacts, RouteTerminalFacts, ApplyFailsFacts, Zenon DEF Fails
<1>4. CASE RouteWrites
  BY <1>4, RouteWritesFacts
<1>5. CASE UNCHANGED vars
  BY <1>5 DEF vars, Facts, Versions, Times, Told, UpToDate, InOrder, Made, ConditionTells,
              AtRest, SameStatus, OtherStatus, Existing, Errored
<1> QED
  BY <1>1, <1>2, <1>3, <1>4, <1>5, Zenon DEF Next

LEMMA FactsAlways == Spec => []Facts
<1>1. Init => Facts
  BY InitFacts
<1> QED
  BY <1>1, StepFacts, RunTypes, PTL DEF Spec

\* When all is at rest the condition on the server tells what came of the last run, if its
\* object still showed it, for any routes and for Updates that change the spec, only the
\* metadata, or nothing: what a run knows is out of date, or its object is the server's but
\* for the condition, so that the comparison before the write (save.go:42-52) is with the
\* server's.  An Update that changes nothing leaves the run up to date and puts the old
\* condition back; then nothing is claimed until a route sets the condition once more.
THEOREM ConditionsTell == Spec => []ConditionTells
<1>1. Facts => ConditionTells
  BY DEF Facts
<1> QED
  BY <1>1, FactsAlways, PTL

\* Objects that were asked for are there when all is at rest: an apply that has failed
\* halfway is followed by another run, or by a run that is known to be lost.
THEOREM AskedForIsThere == Spec => []WantedIsThere
<1>1. Facts => WantedIsThere
  BY DEF Facts, Made, WantedIsThere, AtRest
<1> QED
  BY <1>1, FactsAlways, PTL

\* A status is written with a new time only if the condition changes its status, however
\* often the routes set it: what was before the run is put back first (setter.go:89).
THEOREM TransitionTimes == Spec => TransitionKept
<1>1. TypeOK /\ Facts /\ [Next]_vars =>
        [StatusWritten /\ run.obj.cond.fresh /\ ~run.read.cond.fresh =>
           object'.cond.status # object.cond.status]_vars
  <2> SUFFICES ASSUME TypeOK, Facts, StatusWritten, run.obj.cond.fresh, ~run.read.cond.fresh
               PROVE  object'.cond.status # object.cond.status
    OBVIOUS
  <2>1. /\ run.pc = "status" /\ object.exists /\ run.obj.rv = object.rv
        /\ object' = IF object.cond = run.obj.cond THEN object
                     ELSE [object EXCEPT !.cond = [run.obj.cond EXCEPT !.fresh = FALSE],
                                         !.rv = @ + 1]
    BY Zenon DEF StatusWritten
  <2>2. run.obj.cond.status # object.cond.status
    BY <2>1 DEF Facts, Times, OtherStatus
  <2>3. object'.cond.status = run.obj.cond.status
    BY <2>1, TypeParts, Revisions DEF Copies, Objects, Conditions
  <2> QED
    BY <2>2, <2>3
<1> QED
  BY <1>1, FactsAlways, RunTypes, PTL DEF Spec, TransitionKept
=============================================================================
