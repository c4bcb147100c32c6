--------------------------- MODULE ProbeScheduler --------------------------
(***************************************************************************)
(* The periodic probes of internal/probe/probe.go: a loop that sweeps the  *)
(* routes, a few workers at a time, with its Start and Stop; single sweeps *)
(* asked for by hand (RunOnce); and what a probe tells the latency         *)
(* registry, the backoffs and the health manager.  Cooldowns are not kept: *)
(* time and chat requests change them too, and only EligibleTargets reads  *)
(* them, at the start of a sweep.                                          *)
(*                                                                         *)
(* Every locked section is a step.  Slots are those of ProviderSlots:      *)
(* chat requests hold them too, so a probe may get one or not.             *)
(***************************************************************************)
EXTENDS Integers, FiniteSets

CONSTANTS
    Route,                \* routes whose policy allows probes
    Caller,               \* who calls Stop
    Manual,               \* callers of RunOnce, each with a sweep of its own
    MaxRuns,              \* bound: how often the loop is started
    MaxConcurrentProbes,  \* workers of one sweep
    BaseBackoff, MaxBackoff

ASSUME ProbeAssumption ==
    /\ IsFiniteSet(Route)
    /\ MaxRuns \in Nat
    /\ MaxConcurrentProbes \in Nat \ {0}
    /\ BaseBackoff \in Nat \ {0}
    /\ MaxBackoff \in Nat
    /\ BaseBackoff <= MaxBackoff
    /\ \A m \in Manual : m \notin 1..MaxRuns

Run == 1..MaxRuns
Sweep == Run \cup Manual
NoRun == -1

VARIABLES
    runID,      \* the last run that was started
    current,    \* the run that `running`, `cancel` and `done` are of, or NoRun
    canceled,   \* runs whose context is done
    place,      \* where a sweep's goroutine stands
    todo,       \* the targets a sweep has still to take up
    worker,     \* where the probe of a route by a sweep stands
    waitFor,    \* the run whose end a caller of Stop waits for, or NoRun
    inFlight,   \* routes claimed by a probe
    delay,      \* the backoff of a route; 0 is none
    resting,    \* routes whose backoff is not over
    outcome     \* what the registry says of the last probe of a route

loopVars == <<runID, current, canceled, waitFor>>
sweepVars == <<place, todo>>
routeVars == <<inFlight, delay, resting, outcome>>
vars == <<loopVars, sweepVars, worker, routeVars>>

\* The goroutine of a run ends in "done"; RunOnce returns to "idle".
Place == {"idle", "check", "launch", "rest", "ended", "done"}
WorkerPlace == {"none", "ready", "acquire", "call", "penalize", "relieve", "finish"}
ProbeOutcome == {"", "probing", "success", "failed", "canceled"}

Init ==
    /\ runID = 0
    /\ current = NoRun
    /\ canceled = {}
    /\ place = [s \in Sweep |-> "idle"]
    /\ todo = [s \in Sweep |-> {}]
    /\ worker = [s \in Sweep |-> [r \in Route |-> "none"]]
    /\ waitFor = [c \in Caller |-> NoRun]
    /\ inFlight = {}
    /\ delay = [r \in Route |-> 0]
    /\ resting = {}
    /\ outcome = [r \in Route |-> ""]

CtxDone(s) == s \in canceled

Active(s) == {r \in Route : worker[s][r] # "none"}

At(s, from, to) == place[s] = from /\ place' = [place EXCEPT ![s] = to]

Step(s, r, from, to) ==
    worker[s][r] = from /\ worker' = [worker EXCEPT ![s][r] = to]

----------------------------------------------------------------------------
(* A sweep: runOnce. *)

\* EligibleTargets over the snapshot: pool and cooldowns are changed by requests,
\* clients and time at any moment, so it may find any of the routes.
BeginSweep(s, eligible) == todo' = [todo EXCEPT ![s] = eligible]

\* The loop over the targets looks at the context ...
CheckContext(s) ==
    /\ ~CtxDone(s)
    /\ todo[s] # {}
    /\ At(s, "check", "launch")
    /\ UNCHANGED <<loopVars, todo, worker, routeVars>>

\* ... and then waits for room and starts a worker, without looking again.
Launch(s) ==
    /\ At(s, "launch", "check")
    /\ Cardinality(Active(s)) < MaxConcurrentProbes
    /\ \E r \in todo[s] :
           /\ todo' = [todo EXCEPT ![s] = @ \ {r}]
           /\ Step(s, r, "none", "ready")
    /\ UNCHANGED <<loopVars, routeVars>>

\* Faulty variant: the workers are left alone.
EndSweepAtOnce(s) ==
    /\ CtxDone(s) \/ todo[s] = {}
    /\ At(s, "check", IF s \in Manual THEN "idle" ELSE "rest")
    /\ todo' = [todo EXCEPT ![s] = {}]
    /\ UNCHANGED <<loopVars, worker, routeVars>>

\* No more targets, or canceled; the workers have been waited for.
EndSweep(s) ==
    /\ CtxDone(s) \/ todo[s] = {}
    /\ Active(s) = {}
    /\ At(s, "check", IF s \in Manual THEN "idle" ELSE "rest")
    /\ todo' = [todo EXCEPT ![s] = {}]
    /\ UNCHANGED <<loopVars, worker, routeVars>>

\* RunOnce, with a context that stays alive.
RunOnce(m, eligible) ==
    /\ At(m, "idle", "check")
    /\ BeginSweep(m, eligible)
    /\ UNCHANGED <<loopVars, worker, routeVars>>

----------------------------------------------------------------------------
(* The loop: Start and Stop. *)

\* Faulty variant: a canceled loop is taken for an ended one.
StartUnlessLive(eligible) ==
    /\ current = NoRun \/ current \in canceled
    /\ runID < MaxRuns
    /\ runID' = runID + 1
    /\ current' = runID + 1
    /\ At(runID + 1, "idle", "check")
    /\ BeginSweep(runID + 1, eligible)
    /\ UNCHANGED <<canceled, waitFor, worker, routeVars>>

\* Start returns without an effect while a run is registered.
Start(eligible) ==
    /\ current = NoRun
    /\ runID < MaxRuns
    /\ runID' = runID + 1
    /\ current' = runID + 1
    /\ At(runID + 1, "idle", "check")
    /\ BeginSweep(runID + 1, eligible)
    /\ UNCHANGED <<canceled, waitFor, worker, routeVars>>

\* The timer fires; if the context is done as well, either may be selected.
Tick(n, eligible) ==
    /\ At(n, "rest", "check")
    /\ BeginSweep(n, eligible)
    /\ UNCHANGED <<loopVars, worker, routeVars>>

\* The context is done: the run is deregistered if it is still the last one ...
LeaveLoop(n) ==
    /\ CtxDone(n)
    /\ At(n, "rest", "ended")
    /\ current' = IF runID = n THEN NoRun ELSE current
    /\ UNCHANGED <<runID, canceled, waitFor, todo, worker, routeVars>>

\* ... and its channel closed.
CloseDone(n) ==
    /\ At(n, "ended", "done")
    /\ UNCHANGED <<loopVars, todo, worker, routeVars>>

\* Faulty variant: the run is waited for but not canceled.
StopWithoutCancel(c) ==
    /\ waitFor[c] = NoRun
    /\ current # NoRun
    /\ waitFor' = [waitFor EXCEPT ![c] = current]
    /\ UNCHANGED <<runID, current, canceled, sweepVars, worker, routeVars>>

\* Stop reads the registered run and cancels it.  Without one it returns.
Stop(c) ==
    /\ waitFor[c] = NoRun
    /\ current # NoRun
    /\ waitFor' = [waitFor EXCEPT ![c] = current]
    /\ canceled' = canceled \cup {current}
    /\ UNCHANGED <<runID, current, sweepVars, worker, routeVars>>

\* Stop has seen the channel closed.
StopReturns(c) ==
    /\ waitFor[c] # NoRun
    /\ place[waitFor[c]] = "done"
    /\ waitFor' = [waitFor EXCEPT ![c] = NoRun]
    /\ UNCHANGED <<runID, current, canceled, sweepVars, worker, routeVars>>

\* The context that a run was started under ends, with the program (app.go).
CancelParent(n) ==
    /\ n \in 1..runID
    /\ canceled' = canceled \cup {n}
    /\ UNCHANGED <<runID, current, waitFor, sweepVars, worker, routeVars>>

----------------------------------------------------------------------------
(* One probe: probeOnce by the worker of sweep s on route r. *)

\* Faulty variant: only the backoff is looked at.
ClaimUnlessResting(s, r) ==
    /\ IF CtxDone(s) \/ r \in resting
       THEN Step(s, r, "ready", "none") /\ UNCHANGED inFlight
       ELSE Step(s, r, "ready", "acquire") /\ inFlight' = inFlight \cup {r}
    /\ UNCHANGED <<loopVars, sweepVars, delay, resting, outcome>>

\* claimProbe.
Claim(s, r) ==
    /\ IF CtxDone(s) \/ r \in inFlight \/ r \in resting
       THEN Step(s, r, "ready", "none") /\ UNCHANGED inFlight
       ELSE Step(s, r, "ready", "acquire") /\ inFlight' = inFlight \cup {r}
    /\ UNCHANGED <<loopVars, sweepVars, delay, resting, outcome>>

\* No slot within two seconds, or the context done before or after it.
GiveUp(s, r) ==
    /\ Step(s, r, "acquire", "finish")
    /\ UNCHANGED <<loopVars, sweepVars, routeVars>>

\* A slot, and BeginProbe.
Call(s, r) ==
    /\ ~CtxDone(s)
    /\ Step(s, r, "acquire", "call")
    /\ outcome' = [outcome EXCEPT ![r] = "probing"]
    /\ UNCHANGED <<loopVars, sweepVars, inFlight, delay, resting>>

\* The first delta: RecordProbe.
FirstToken(s, r) ==
    /\ Step(s, r, "call", "relieve")
    /\ outcome' = [outcome EXCEPT ![r] = "success"]
    /\ UNCHANGED <<loopVars, sweepVars, inFlight, delay, resting>>

\* An error, a timeout, or an end without a token: MarkProbeFailure.  If the
\* sweep was canceled, that is the outcome and there is no penalty.
Fail(s, r) ==
    /\ Step(s, r, "call", IF CtxDone(s) THEN "finish" ELSE "penalize")
    /\ outcome' = [outcome EXCEPT ![r] = IF CtxDone(s) THEN "canceled" ELSE "failed"]
    /\ UNCHANGED <<loopVars, sweepVars, inFlight, delay, resting>>

\* Faulty variant: the delay has no limit.
DoubledForEver(d) == IF d = 0 THEN BaseBackoff ELSE 2 * d

Doubled(d) ==
    IF d = 0 THEN BaseBackoff
    ELSE IF 2 * d < MaxBackoff THEN 2 * d ELSE MaxBackoff

\* The backoff grows, and then RouteFailure.
Penalize(s, r) ==
    /\ Step(s, r, "penalize", "finish")
    /\ delay' = [delay EXCEPT ![r] = Doubled(@)]
    /\ resting' = resting \cup {r}
    /\ UNCHANGED <<loopVars, sweepVars, inFlight, outcome>>

\* The backoff is forgotten, and then RouteSuccess.
Relieve(s, r) ==
    /\ Step(s, r, "relieve", "finish")
    /\ delay' = [delay EXCEPT ![r] = 0]
    /\ resting' = resting \ {r}
    /\ UNCHANGED <<loopVars, sweepVars, inFlight, outcome>>

\* The deferred calls: the stream, the slot, finishProbe and the worker's end.
Finish(s, r) ==
    /\ Step(s, r, "finish", "none")
    /\ inFlight' = inFlight \ {r}
    /\ UNCHANGED <<loopVars, sweepVars, delay, resting, outcome>>

WorkerStep(s, r) ==
    \/ Claim(s, r) \/ GiveUp(s, r) \/ Call(s, r)
    \/ FirstToken(s, r) \/ Relieve(s, r) \/ Fail(s, r) \/ Penalize(s, r)
    \/ Finish(s, r)

----------------------------------------------------------------------------
(* Time. *)

BackoffEnds(r) ==
    /\ r \in resting
    /\ resting' = resting \ {r}
    /\ UNCHANGED <<loopVars, sweepVars, worker, inFlight, delay, outcome>>

SweepStep(s) ==
    \/ CheckContext(s) \/ Launch(s) \/ EndSweep(s)
    \/ \E r \in Route : WorkerStep(s, r)

Next ==
    \/ \E s \in Sweep : SweepStep(s)
    \/ \E eligible \in SUBSET Route :
           \/ \E m \in Manual : RunOnce(m, eligible)
           \/ Start(eligible)
           \/ \E n \in Run : Tick(n, eligible)
    \/ \E n \in Run : LeaveLoop(n) \/ CloseDone(n) \/ CancelParent(n)
    \/ \E c \in Caller : Stop(c) \/ StopReturns(c)
    \/ \E r \in Route : BackoffEnds(r)

\* Goroutines run and every call of a probe has a timeout; a select whose
\* context stays done does not choose the timer for ever.
Fairness ==
    /\ \A n \in Run : WF_vars(SweepStep(n) \/ CloseDone(n)) /\ SF_vars(LeaveLoop(n))
    /\ \A c \in Caller : WF_vars(StopReturns(c))

Spec == Init /\ [][Next]_vars /\ Fairness

----------------------------------------------------------------------------
(* Properties. *)

\* The structures of probe.go; a backoff is capped.
TypeOK ==
    /\ runID \in 0..MaxRuns
    /\ current \in Run \cup {NoRun}
    /\ canceled \subseteq Run
    /\ place \in [Sweep -> Place]
    /\ todo \in [Sweep -> SUBSET Route]
    /\ worker \in [Sweep -> [Route -> WorkerPlace]]
    /\ waitFor \in [Caller -> Run \cup {NoRun}]
    /\ inFlight \subseteq Route
    /\ delay \in [Route -> 0..MaxBackoff]
    /\ resting \subseteq Route
    /\ outcome \in [Route -> ProbeOutcome]

Live(n) == place[n] \notin {"idle", "ended", "done"}

\* However Start and Stop are called, two loops never run at a time, and the
\* one that does is the one Stop would stop (Start's check of `running` and the
\* deregistration under the lock).
OneLoop == \A n \in Run : Live(n) => current = n

\* While a route backs off nobody asks its provider, though a loop and a manual
\* sweep may both have it as a target (claimProbe until finishProbe).
BackingOffIsQuiet ==
    \A s \in Sweep, r \in Route : worker[s][r] = "call" => r \notin resting

Settled(r) ==
    /\ outcome[r] # "probing"
    /\ outcome[r] = "failed" => delay[r] > 0
    /\ outcome[r] \in {"", "success"} => delay[r] = 0

\* Once nobody probes a route, the registry and the backoff tell the same
\* story: backed off after a failure, not after a success, never still probing.
IdleIsSettled == \A r \in Route \ inFlight : Settled(r)

\* However sweeps overlap on a route, its backoff is kept and told truly
\* (claimProbe, failProbe, finishProbe and what is recorded between them).
BackoffIsHonest == BackingOffIsQuiet /\ IdleIsSettled

\* When Stop returns, no probe of the run it stopped is under way, and it has
\* stopped for good ("StopProbes waits for periodic probes to exit").
StopLeavesNoProbe ==
    [][ \A c \in Caller, n \in Run :
          waitFor[c] = n /\ waitFor'[c] = NoRun =>
              place'[n] = "done" /\ (Active(n) = {})' ]_vars

\* Stop returns, whatever the upstreams, the slots and other callers do.
EveryStopReturns == \A c \in Caller : waitFor[c] # NoRun ~> waitFor[c] = NoRun

----------------------------------------------------------------------------
(* The inductive invariant behind the safety properties. *)

Claimed == {"acquire", "call", "penalize", "relieve", "finish"}

\* A claimed route is probed by one worker.
ClaimShape ==
    /\ \A s \in Sweep, r \in Route : worker[s][r] \in Claimed => r \in inFlight
    /\ \A s, t \in Sweep, r \in Route :
           worker[s][r] \in Claimed /\ worker[t][r] \in Claimed => s = t
    /\ \A r \in inFlight : \E s \in Sweep : worker[s][r] \in Claimed

\* What a worker knows of its route: no backoff before and during the call, and
\* what it reported last.  A route no worker is in the middle of is settled.
RouteShape ==
    /\ \A s \in Sweep, r \in Route :
           /\ worker[s][r] \in {"acquire", "call"} => r \notin resting
           /\ worker[s][r] = "penalize" => outcome[r] = "failed"
           /\ worker[s][r] = "relieve" => outcome[r] = "success"
    /\ \A r \in Route :
           (\A s \in Sweep : worker[s][r] \notin {"call", "penalize", "relieve"})
               => Settled(r)

\* The registered run is the last one; later ones have not begun; a sweep has
\* workers only while it goes over its targets.
LoopShape ==
    /\ OneLoop
    /\ current # NoRun => current = runID
    /\ \A n \in Run : n > runID => place[n] = "idle"
    /\ \A s \in Sweep : place[s] \notin {"check", "launch"} => Active(s) = {}

IInv == TypeOK /\ ClaimShape /\ RouteShape /\ LoopShape
============================================================================
