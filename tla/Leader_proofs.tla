---------------------------- MODULE Leader_proofs ----------------------------
(***************************************************************************)
(* There is at most one leader, for any replicas and any TTL of at least   *)
(* four units of time, however many of them crash or are told to stop.     *)
(***************************************************************************)
EXTENDS Leader, TLAPS

\* A leader holds the record.  Whoever else has seen the record since then is a
\* candidate that has not watched it for longer than the leader has not renewed it.
LeaseInv ==
  \A p \in Replicas : elector[p] = "leading" =>
    /\ holder = p
    /\ \A q \in current \ {p} : elector[q] = "candidate" /\ age[q] <= since[p]

\* TypeOK, apart from the clocks.
Clocks ==
  /\ age \in [Replicas -> 0 .. LeaseDuration]
  /\ since \in [Replicas -> 0 .. RetryPeriod + RenewDeadline]

States ==
  /\ holder \in Replicas \cup {Nobody}
  /\ current \subseteq Alive
  /\ observed \in [Replicas -> Replicas \cup {Nobody}]
  /\ elector \in [Replicas -> {"candidate", "leading", "stopping", "stopped"} \cup Over]
  /\ calls \in [Replicas -> SUBSET BOOLEAN]
  /\ handlers \in [Replicas -> {"none", "called", "starting", "started", "failed"}]
  /\ \A p \in Replicas :
       handlers[p] # "none" <=> elector[p] \in {"leading", "stopping", "stopped"}
  /\ signalled \subseteq Alive
  /\ healthy \in [Replicas -> BOOLEAN]
  /\ stops \in 0 .. MaxStops

IInv == Clocks /\ States /\ LeaseInv

LEMMA TypeParts == TypeOK <=> Clocks /\ States
BY DEF TypeOK, Clocks, States

\* The last attempt of a leader to renew is over before others may take the lease.
LEMMA Durations ==
  /\ LeaseDuration \in Nat /\ RetryPeriod \in Nat /\ RenewDeadline \in Nat
  /\ RetryPeriod + RenewDeadline < LeaseDuration
  /\ LeaseDuration' = LeaseDuration /\ RetryPeriod' = RetryPeriod
  /\ RenewDeadline' = RenewDeadline
BY LeaderAssumption DEF LeaseDuration, RetryPeriod, RenewDeadline

---------------------------------------------------------------------------
(* Clocks.                                                                 *)

\* Only time makes them advance; others stop one or begin it again.
LEMMA ClocksKept ==
  ASSUME Clocks, NEW p \in Replicas,
         age' \in {age, [age EXCEPT ![p] = 0]}, since' \in {since, [since EXCEPT ![p] = 0]}
  PROVE  Clocks'
BY Durations DEF Clocks

LEMMA TickClocks == ASSUME Clocks, States, Tick PROVE Clocks'
<1> USE Durations DEF Clocks
<1>1. age' \in [Replicas -> 0 .. LeaseDuration]
  BY DEF Tick
<1>2. ASSUME NEW p \in Replicas PROVE since'[p] \in 0 .. RetryPeriod + RenewDeadline
  <2>1. CASE elector[p] = "leading"
    <3>1. ~GivesUp(p)
      BY <2>1, Zenon DEF Tick, Alive, Over
    <3>2. since'[p] = since[p] + 1
      BY <2>1 DEF Tick
    <3> QED
      BY <3>1, <3>2 DEF GivesUp
  <2>2. CASE elector[p] # "leading"
    BY <2>2 DEF Tick
  <2> QED
    BY <2>1, <2>2
<1>3. since' \in [Replicas -> 0 .. RetryPeriod + RenewDeadline]
  BY <1>2 DEF Tick
<1> QED
  BY <1>1, <1>3

---------------------------------------------------------------------------
(* The invariant holds initially, and every step keeps it.                 *)

LEMMA InitInv == ASSUME Init PROVE IInv
<1>1. Clocks
  <2>1. age = [p \in Replicas |-> 0] /\ since = [p \in Replicas |-> 0]
    BY Zenon DEF Init
  <2> QED
    BY <2>1, Durations DEF Clocks
<1>2. stops \in 0 .. MaxStops
  <2>1. stops = 0
    BY Zenon DEF Init
  <2> QED
    BY <2>1, LeaderAssumption
<1>3. States
  BY <1>2 DEF Init, States, Alive, Over
<1>4. LeaseInv
  BY DEF Init, LeaseInv
<1> QED
  BY <1>1, <1>3, <1>4 DEF IInv

LEMMA TickInv == ASSUME IInv, Tick PROVE IInv'
<1>1. Clocks'
  BY TickClocks DEF IInv
<1>2. States'
  BY DEF IInv, States, Tick, Alive, flag
<1>3. LeaseInv'
  <2> SUFFICES ASSUME NEW p \in Replicas, elector[p] = "leading", NEW q \in current \ {p}
               PROVE  age'[q] <= since'[p]
    BY Zenon DEF LeaseInv, IInv, Tick
  <2>1. q \in Replicas /\ elector[q] = "candidate" /\ age[q] <= since[p]
    BY DEF IInv, LeaseInv, States, Alive
  <2>2. since'[p] = since[p] + 1
    BY DEF Tick
  <2>3. age'[q] <= age[q] + 1
    BY <2>1, Durations DEF Tick, IInv, Clocks
  <2> QED
    BY <2>1, <2>2, <2>3, <1>1, Durations DEF IInv, Clocks
<1> QED
  BY <1>1, <1>2, <1>3 DEF IInv

\* The process of p ends.
LEMMA EndsInv ==
  ASSUME IInv, NEW p \in Replicas, NEW how \in Over, Ends(p, how), holder' = holder,
         stops' \in 0 .. MaxStops
  PROVE  IInv'
<1>1. Clocks'
  BY ClocksKept DEF IInv, Ends
<1>2. States'
  BY DEF IInv, States, Ends, Alive, Over
<1>3. LeaseInv'
  <2>1. /\ current' = current \ {p} /\ elector' = [elector EXCEPT ![p] = how]
        /\ \A q \in Replicas \ {p} : age'[q] = age[q] /\ since'[q] = since[q]
    BY DEF Ends, IInv, Clocks
  <2>2. elector'[p] # "leading"
    BY <2>1 DEF Over, IInv, States
  <2>3. \A q \in Replicas \ {p} : elector'[q] = elector[q]
    BY <2>1 DEF IInv, States
  <2>4. current \subseteq Replicas
    BY DEF IInv, States, Alive
  <2> QED
    BY <2>1, <2>2, <2>3, <2>4 DEF IInv, LeaseInv
<1> QED
  BY <1>1, <1>2, <1>3 DEF IInv

\* A candidate that finds the lease free, its own or run out is the only leader.
LEMMA AcquireAlone ==
  ASSUME IInv, NEW p \in Replicas, Acquire(p)
  PROVE  \A q \in Replicas \ {p} : elector[q] # "leading"
<1> SUFFICES ASSUME NEW q \in Replicas \ {p}, elector[q] = "leading" PROVE FALSE
  OBVIOUS
<1>1. holder = q
  BY DEF IInv, LeaseInv
<1>2. p \in current /\ age[p] >= LeaseDuration
  BY <1>1, LeaderAssumption DEF Acquire
<1>3. age[p] <= since[q]
  BY <1>2 DEF IInv, LeaseInv
<1> QED
  BY <1>2, <1>3, Durations DEF IInv, Clocks

LEMMA AcquireInv == ASSUME IInv, NEW p \in Replicas, Acquire(p) PROVE IInv'
<1>1. Clocks'
  BY ClocksKept DEF IInv, Acquire, Write
<1>2. States'
  <2>1. /\ holder' = p /\ current' = {p} /\ observed' = [observed EXCEPT ![p] = p]
        /\ elector' = [elector EXCEPT ![p] = "leading"]
        /\ handlers' = [handlers EXCEPT ![p] = "called"]
        /\ UNCHANGED <<healthy, signalled, stops>> /\ p \in Alive
    BY Zenon DEF Acquire, Write, Alive, Over
  <2>2. calls' \in [Replicas -> SUBSET BOOLEAN]
    BY DEF Acquire, Report, IInv, States
  <2>3. Alive' = Alive
    BY <2>1 DEF Alive, Over, IInv, States
  <2> QED
    BY <2>1, <2>2, <2>3 DEF IInv, States
<1>3. LeaseInv'
  <2>1. holder' = p /\ current' = {p} /\ elector' = [elector EXCEPT ![p] = "leading"]
    BY Zenon DEF Acquire, Write
  <2> QED
    BY <2>1, AcquireAlone DEF IInv, States, LeaseInv
<1> QED
  BY <1>1, <1>2, <1>3 DEF IInv

LEMMA GetInv == ASSUME IInv, NEW p \in Replicas, Get(p) PROVE IInv'
<1>1. Clocks'
  BY ClocksKept DEF IInv, Get
<1>2. States'
  BY DEF IInv, States, Get, Report, Alive, Over, flag
<1>3. LeaseInv'
  <2>1. /\ elector[p] = "candidate" /\ current' = current \cup {p}
        /\ age' = [age EXCEPT ![p] = 0] /\ UNCHANGED <<holder, elector, since>>
    BY Zenon DEF Get
  <2> QED
    BY <2>1, Durations DEF IInv, Clocks, States, LeaseInv, Alive
<1> QED
  BY <1>1, <1>2, <1>3 DEF IInv

LEMMA RenewInv == ASSUME IInv, NEW p \in Replicas, Renew(p) PROVE IInv'
<1>1. Clocks'
  BY ClocksKept DEF IInv, Renew, Write
<1>2. States'
  BY DEF IInv, States, Renew, Write, Alive, Over, flag
<1>3. LeaseInv'
  BY DEF IInv, LeaseInv, Renew, Write
<1> QED
  BY <1>1, <1>2, <1>3 DEF IInv

LEMMA StopInv == ASSUME IInv, NEW p \in Replicas, Stop(p) PROVE IInv'
<1>1. CASE RenewEnds(p)
  <2>1. Clocks'
    BY <1>1, ClocksKept DEF IInv, RenewEnds, record
  <2>2. States'
    BY <1>1 DEF IInv, States, RenewEnds, Alive, Over, record, flag
  <2>3. LeaseInv'
    <3>1. \A q \in Replicas \ {p} : elector[q] # "leading"
      BY <1>1, LeaderAssumption DEF IInv, LeaseInv, RenewEnds
    <3> QED
      BY <1>1, <3>1 DEF IInv, States, LeaseInv, RenewEnds, record
  <2> QED
    BY <2>1, <2>2, <2>3 DEF IInv
<1>2. CASE Release(p)
  <2>1. Clocks'
    BY <1>2, ClocksKept DEF IInv, Release, Write, record
  <2>2. States'
    BY <1>2 DEF IInv, States, Release, Write, Alive, Over, record, flag
  <2>3. p \in current => \A q \in Replicas : elector[q] # "leading"
    BY <1>2 DEF IInv, States, LeaseInv, Release
  <2>4. elector' = [elector EXCEPT ![p] = "stopped"] /\ UNCHANGED since
    BY <1>2, Zenon DEF Release
  <2>5. ASSUME p \in current PROVE LeaseInv'
    BY <2>3, <2>4, <2>5 DEF IInv, States, LeaseInv
  <2>6. ASSUME UNCHANGED record PROVE LeaseInv'
    BY <1>2, <2>4, <2>6 DEF IInv, States, LeaseInv, Release, record
  <2> QED
    BY <1>2, <2>1, <2>2, <2>5, <2>6, Zenon DEF IInv, Release
<1>3. CASE OnStoppedLeading(p)
  BY <1>3, EndsInv DEF OnStoppedLeading, Over, IInv, States
<1> QED
  BY <1>1, <1>2, <1>3 DEF Stop

\* What becomes of a process, and its callbacks.
LEMMA ProcessInv ==
  ASSUME IInv, NEW p \in Replicas,
         Start(p) \/ Signal(p) \/ Crash(p) \/ Run(p) \/ HandlersStarted(p, "failed")
           \/ \E value \in BOOLEAN : OnNewLeader(p, value)
  PROVE  IInv'
<1> USE DEF IInv
<1>1. CASE Start(p)
  <2>1. Clocks'
    BY <1>1, ClocksKept DEF Start, record
  <2>2. States'
    BY <1>1 DEF States, Start, Alive, Over, record, flag
  <2>3. LeaseInv'
    BY <1>1 DEF States, LeaseInv, Start, Alive, record
  <2> QED
    BY <2>1, <2>2, <2>3
<1>2. CASE Signal(p)
  <2>1. Clocks'
    BY <1>2, ClocksKept DEF Signal, record
  <2>2. stops' \in 0 .. MaxStops
    BY <1>2, LeaderAssumption DEF Signal, States
  <2>3. States'
    BY <1>2, <2>2 DEF States, Signal, Alive, record, flag
  <2>4. LeaseInv'
    BY <1>2 DEF LeaseInv, Signal, record
  <2> QED
    BY <2>1, <2>3, <2>4
<1>3. CASE Crash(p)
  <2>1. stops' \in 0 .. MaxStops
    <3>1. stops < MaxStops /\ stops' = stops + 1
      BY <1>3, Zenon DEF Crash
    <3>2. stops \in 0 .. MaxStops
      BY Zenon DEF States
    <3> QED
      BY <3>1, <3>2, LeaderAssumption
  <2>2. Ends(p, "exit 1") /\ holder' = holder
    BY <1>3, Zenon DEF Crash
  <2> QED
    BY <2>1, <2>2, EndsInv DEF Over
<1>4. CASE HandlersFatal(p)
  BY <1>4, EndsInv DEF States, HandlersFatal, Over
<1>5. CASE \/ StartHandlers(p)
           \/ \E how \in {"started", "failed"} : HandlersStarted(p, how)
           \/ \E value \in BOOLEAN : OnNewLeader(p, value)
  <2>1. UNCHANGED <<record, elector, since, signalled, stops>>
    BY <1>5 DEF StartHandlers, HandlersStarted, OnNewLeader
  <2>2. Clocks'
    BY <2>1, ClocksKept DEF record
  <2>3. handlers' = handlers \/ \E how \in {"starting", "started", "failed"} :
          handlers[p] \in {"called", "starting"} /\ handlers' = [handlers EXCEPT ![p] = how]
    BY <1>5 DEF StartHandlers, HandlersStarted, OnNewLeader, States
  <2>4. calls' \in [Replicas -> SUBSET BOOLEAN] /\ healthy' \in [Replicas -> BOOLEAN]
    BY <1>5 DEF StartHandlers, HandlersStarted, OnNewLeader, States
  <2>5. States'
    BY <2>1, <2>3, <2>4 DEF States, Alive, record
  <2>6. LeaseInv'
    BY <2>1 DEF LeaseInv, record
  <2> QED
    BY <2>2, <2>5, <2>6
<1> QED
  BY <1>1, <1>2, <1>3, <1>4, <1>5 DEF Run

LEMMA StutterInv == ASSUME IInv, UNCHANGED vars PROVE IInv'
BY Durations DEF IInv, Clocks, States, LeaseInv, Alive, vars, record, flag

LEMMA StepInv == IInv /\ [Next]_vars => IInv'
BY Zenon, TickInv, AcquireInv, GetInv, RenewInv, StopInv, ProcessInv, StutterInv DEF Next, Elect

LEMMA LeaderInvariant == Spec => []IInv
<1>1. Init => IInv
  BY InitInv
<1> QED
  BY <1>1, StepInv, PTL DEF Spec

---------------------------------------------------------------------------
\* The elector's state is well typed, and only a replica that calls itself the leader
\* runs handlers (leader.go, router.go), for any replicas and TTL.
THEOREM LeaderTypes == Spec => []TypeOK
<1>1. IInv => TypeOK
  BY TypeParts DEF IInv
<1> QED
  BY <1>1, LeaderInvariant, PTL

\* TTL, TTL/2 and TTL/4 (leader.go:98) are such that a leader that cannot renew the
\* lease gives up before anybody else may take it: there are never two leaders.
THEOREM NeverTwoLeaders == Spec => []OneLeader
<1>1. IInv => OneLeader
  BY DEF IInv, LeaseInv, OneLeader
<1> QED
  BY <1>1, LeaderInvariant, PTL
=============================================================================
