------------------------------- MODULE Leader -------------------------------
(***************************************************************************)
(* Replicas of a router that elect a leader: ElectionConfig.Run and run,   *)
(* the callbacks they hand to client-go's LeaderElector, and the flag that *)
(* /healthz answers with, which Router.Start and startHandlers set.        *)
(*                                                                         *)
(* The elector itself is external.  It keeps a record (the Lease) with a   *)
(* holder, which is renewed by compare and swap; who finds the record      *)
(* unchanged for LeaseDuration by its own clock may take it.  Time is      *)
(* counted in quarters of the TTL when TTL = 4.  A call of the API is      *)
(* answered within the quarter it was made in, or fails.                   *)
(***************************************************************************)
EXTENDS Naturals

CONSTANTS
  Replicas,   \* also their identities: Router.Start takes the host's name
  Nobody,     \* the holder of a record that was released
  TTL,        \* ElectionConfig.TTL
  MaxStops    \* bound: crashes and requests to terminate

ASSUME LeaderAssumption ==
  /\ Nobody \notin Replicas
  /\ TTL \in Nat /\ TTL >= 4
  /\ MaxStops \in Nat

VARIABLES
  holder,     \* of the record
  current,    \* replicas that have seen the record as it is now
  observed,   \* the holder each has seen last
  age,        \* how long ago a candidate has seen the record change
  elector,    \* where each LeaderElector is
  since,      \* how long ago the leader has renewed
  calls,      \* what the goroutines of OnNewLeader that have not run will set the flag to
  handlers,   \* startHandlers of each
  signalled,  \* replicas whose sigCtx is done
  healthy,    \* the flag of each
  stops

record == <<holder, current, observed, age>>
flag   == <<handlers, healthy>>
vars   == <<record, elector, since, calls, flag, signalled, stops>>

\* ec.run's LeaderElectionConfig.
LeaseDuration == TTL
RetryPeriod   == TTL \div 4

\* Mutant: the leader keeps trying for as long as the lease would last.
RenewDeadlineLate == TTL

RenewDeadline == TTL \div 2

\* renew polls every RetryPeriod, for RenewDeadline, beginning a RetryPeriod after
\* the last success.
GivesUp(p) == since[p] >= RetryPeriod + RenewDeadline

Over  == {"exit 0", "exit 1"}
Alive == {p \in Replicas : elector[p] \notin Over}

\* The process has not been started.
Init ==
  /\ holder = Nobody /\ current = {}
  /\ observed = [p \in Replicas |-> Nobody] /\ age = [p \in Replicas |-> 0]
  /\ elector = [p \in Replicas |-> "exit 0"] /\ since = [p \in Replicas |-> 0]
  /\ calls = [p \in Replicas |-> {}]
  /\ handlers = [p \in Replicas |-> "none"]
  /\ signalled = {}
  /\ healthy = [p \in Replicas |-> TRUE]
  /\ stops = 0

\* The process is gone, and with it all it knew.
Ends(p, how) ==
  /\ elector' = [elector EXCEPT ![p] = how]
  /\ current' = current \ {p}
  /\ observed' = [observed EXCEPT ![p] = Nobody] /\ age' = [age EXCEPT ![p] = 0]
  /\ since' = [since EXCEPT ![p] = 0]
  /\ calls' = [calls EXCEPT ![p] = {}]
  /\ handlers' = [handlers EXCEPT ![p] = "none"]
  /\ signalled' = signalled \ {p}
  /\ healthy' = [healthy EXCEPT ![p] = TRUE]

---------------------------------------------------------------------------
(* Time, and what happens to processes.                                    *)

\* A leader that is past its deadline stops before the next quarter begins.
Tick ==
  /\ \A p \in Alive : elector[p] = "leading" => ~GivesUp(p)
  /\ age' = [p \in Replicas |-> IF elector[p] = "candidate" /\ age[p] < LeaseDuration
                                THEN age[p] + 1 ELSE age[p]]
  /\ since' = [p \in Replicas |-> IF elector[p] = "leading" THEN since[p] + 1 ELSE since[p]]
  /\ UNCHANGED <<holder, current, observed, elector, calls, flag, signalled, stops>>

\* Router.Start: the elector runs in a goroutine.
Start(p) ==
  /\ elector[p] \in Over
  /\ elector' = [elector EXCEPT ![p] = "candidate"]
  /\ UNCHANGED <<record, since, calls, flag, signalled, stops>>

\* SIGTERM, or the context of Start is done.
Signal(p) ==
  /\ p \in Alive \ signalled /\ stops < MaxStops
  /\ signalled' = signalled \cup {p}
  /\ stops' = stops + 1
  /\ UNCHANGED <<record, elector, since, calls, flag>>

Crash(p) ==
  /\ p \in Alive /\ stops < MaxStops
  /\ Ends(p, "exit 1")
  /\ stops' = stops + 1
  /\ UNCHANGED holder

---------------------------------------------------------------------------
(* The elector.                                                            *)

\* maybeReportTransition, after every attempt of a candidate: go OnNewLeader(leader),
\* the closure of Router.Start, which is to set the flag to id != leader.
Report(p, leader) ==
  calls' = [calls EXCEPT ![p] = IF leader = observed[p] THEN @ ELSE @ \cup {p # leader}]

\* An attempt finds that somebody has written the record, and does not take it.
Get(p) ==
  /\ elector[p] = "candidate" /\ p \notin current
  /\ current' = current \cup {p}
  /\ observed' = [observed EXCEPT ![p] = holder]
  /\ age' = [age EXCEPT ![p] = 0]
  /\ Report(p, holder)
  /\ UNCHANGED <<holder, elector, since, flag, signalled, stops>>

\* p writes the record: it is the one p has read, by compare and swap.
Write(p, h) ==
  /\ holder' = h /\ current' = {p}
  /\ observed' = [observed EXCEPT ![p] = h]
  /\ age' = [age EXCEPT ![p] = 0]

\* Mutant: a lease that has run out is not taken.
AcquireFree(p) ==
  /\ elector[p] = "candidate" /\ p \notin signalled
  /\ holder \in {Nobody, p}
  /\ Write(p, p)
  /\ Report(p, p)
  /\ elector' = [elector EXCEPT ![p] = "leading"]
  /\ since' = [since EXCEPT ![p] = 0]
  /\ handlers' = [handlers EXCEPT ![p] = "called"]
  /\ UNCHANGED <<healthy, signalled, stops>>

\* The record is nobody's, or p's own from before a restart, or has not been renewed
\* for as long as p has been watching it.  Then go OnStartedLeading(ctx).
Acquire(p) ==
  /\ elector[p] = "candidate" /\ p \notin signalled
  /\ holder \in {Nobody, p} \/ (p \in current /\ age[p] >= LeaseDuration)
  /\ Write(p, p)
  /\ Report(p, p)
  /\ elector' = [elector EXCEPT ![p] = "leading"]
  /\ since' = [since EXCEPT ![p] = 0]
  /\ handlers' = [handlers EXCEPT ![p] = "called"]
  /\ UNCHANGED <<healthy, signalled, stops>>

Renew(p) ==
  /\ elector[p] = "leading" /\ p \notin signalled
  /\ since[p] >= RetryPeriod /\ p \in current
  /\ Write(p, p)
  /\ since' = [since EXCEPT ![p] = 0]
  /\ UNCHANGED <<elector, calls, flag, signalled, stops>>

\* renew returns: the deadline has passed, or sigCtx is done.
RenewEnds(p) ==
  /\ elector[p] = "leading" /\ (GivesUp(p) \/ p \in signalled)
  /\ elector' = [elector EXCEPT ![p] = "stopping"]
  /\ since' = [since EXCEPT ![p] = 0]
  /\ UNCHANGED <<record, calls, flag, signalled, stops>>

\* ReleaseOnCancel: one attempt, which may fail.
Release(p) ==
  /\ elector[p] = "stopping"
  /\ elector' = [elector EXCEPT ![p] = "stopped"]
  /\ \/ p \in current /\ Write(p, Nobody)
     \/ UNCHANGED record
  /\ UNCHANGED <<since, calls, flag, signalled, stops>>

\* Mutant: a leader that has lost the lease stays.
OnStoppedLeadingStays(p) ==
  /\ elector[p] = "stopped" \/ (elector[p] = "candidate" /\ p \in signalled)
  /\ p \in signalled
  /\ Ends(p, "exit 0")
  /\ UNCHANGED <<holder, stops>>

\* Mutant: the elector is run again, in the same process.
OnStoppedLeadingAgain(p) ==
  /\ elector[p] = "stopped"
  /\ elector' = [elector EXCEPT ![p] = "candidate"]
  /\ UNCHANGED <<record, since, calls, flag, signalled, stops>>

\* Run's deferred calls: the handlers' context is cancelled, then OnStoppedLeading
\* ends the process, also that of a candidate which is told to terminate.
OnStoppedLeading(p) ==
  /\ elector[p] = "stopped" \/ (elector[p] = "candidate" /\ p \in signalled)
  /\ Ends(p, IF p \in signalled THEN "exit 0" ELSE "exit 1")
  /\ UNCHANGED <<holder, stops>>

---------------------------------------------------------------------------
(* The callbacks, each in a goroutine of its own.                          *)

OnNewLeader(p, value) ==
  /\ p \in Alive /\ value \in calls[p]
  /\ calls' = [calls EXCEPT ![p] = @ \ {value}]
  /\ healthy' = [healthy EXCEPT ![p] = value]
  /\ UNCHANGED <<record, elector, since, handlers, signalled, stops>>

StartHandlers(p) ==
  /\ handlers[p] = "called"
  /\ handlers' = [handlers EXCEPT ![p] = "starting"]
  /\ healthy' = [healthy EXCEPT ![p] = FALSE]
  /\ UNCHANGED <<record, elector, since, calls, signalled, stops>>

\* handlers.Start returns, with or without an error; the deferred setHealthy has its
\* argument from before.
HandlersStarted(p, how) ==
  /\ handlers[p] = "starting"
  /\ handlers' = [handlers EXCEPT ![p] = how]
  /\ healthy' = [healthy EXCEPT ![p] = TRUE]
  /\ UNCHANGED <<record, elector, since, calls, signalled, stops>>

\* "leader callback error"
HandlersFatal(p) ==
  /\ handlers[p] = "failed"
  /\ Ends(p, "exit 1")
  /\ UNCHANGED <<holder, stops>>

---------------------------------------------------------------------------
Elect(p) == Get(p) \/ Acquire(p) \/ Renew(p)
Stop(p)  == RenewEnds(p) \/ Release(p) \/ OnStoppedLeading(p)
Run(p)   == StartHandlers(p) \/ HandlersStarted(p, "started") \/ HandlersFatal(p)

Next ==
  \/ Tick
  \/ \E p \in Replicas :
       \/ Start(p) \/ Signal(p) \/ Crash(p)
       \/ Elect(p) \/ Stop(p) \/ Run(p)
       \/ HandlersStarted(p, "failed")
       \/ \E value \in BOOLEAN : OnNewLeader(p, value)

Spec == Init /\ [][Next]_vars

\* Clocks advance, electors try and the API answers some of their attempts, and
\* goroutines run.  Nobody need be started, told to terminate or crash.
Fairness ==
  /\ WF_vars(Tick)
  /\ \A p \in Replicas :
       /\ WF_vars(Get(p)) /\ WF_vars(Acquire(p)) /\ WF_vars(Stop(p)) /\ WF_vars(Run(p))

FairSpec == Spec /\ Fairness

---------------------------------------------------------------------------
(* Properties.                                                             *)

\* Types; only who has called itself the leader runs handlers.
TypeOK ==
  /\ holder \in Replicas \cup {Nobody}
  /\ current \subseteq Alive
  /\ observed \in [Replicas -> Replicas \cup {Nobody}]
  /\ age \in [Replicas -> 0 .. LeaseDuration]
  /\ elector \in [Replicas -> {"candidate", "leading", "stopping", "stopped"} \cup Over]
  /\ since \in [Replicas -> 0 .. RetryPeriod + RenewDeadline]
  /\ calls \in [Replicas -> SUBSET BOOLEAN]
  /\ handlers \in [Replicas -> {"none", "called", "starting", "started", "failed"}]
  /\ \A p \in Replicas :
       handlers[p] # "none" <=> elector[p] \in {"leading", "stopping", "stopped"}
  /\ signalled \subseteq Alive
  /\ healthy \in [Replicas -> BOOLEAN]
  /\ stops \in 0 .. MaxStops

\* At most one replica leads, whatever fails: by the time others may take the lease,
\* a leader that could not renew it has given up.  (It may still be on its way out.)
OneLeader ==
  \A p, q \in Replicas : elector[p] = "leading" /\ elector[q] = "leading" => p = q

\* When the leader is gone, however it went, somebody else leads before long, if
\* there is anybody to.
SomeoneLeads ==
  (\E p \in Replicas \ signalled : elector[p] = "candidate")
    ~> \/ \E p \in Replicas : elector[p] = "leading"
       \/ \A p \in Replicas \ signalled : elector[p] # "candidate"

\* A replica that no longer leads goes, so that its handlers do not go on beside
\* those of the next leader; and who is told to terminate does so, leader or not.
LeavesWhenOver ==
  \A p \in Replicas :
    (p \in signalled \/ elector[p] \in {"stopping", "stopped"}) ~> elector[p] \in Over

\* "This is the leader now, so not ready until the controller is started and caches
\* are ready" (comment in startHandlers): a leader is not healthy when its handlers
\* failed to start and, once all its OnNewLeader calls have returned, neither while it
\* starts them nor unhealthy afterwards.
ReadyOnceStarted ==
  \A p \in Replicas : elector[p] = "leading" =>
    /\ handlers[p] = "failed" => ~healthy[p]
    /\ handlers[p] = "starting" /\ calls[p] = {} => ~healthy[p]
    /\ handlers[p] = "started" /\ calls[p] = {} => healthy[p]
=============================================================================
