------------------------ MODULE ProbeSchedulerProofs ------------------------
(***************************************************************************)
(* The safety properties of ProbeScheduler, for any routes, callers, runs, *)
(* numbers of workers and backoffs.                                        *)
(***************************************************************************)
EXTENDS ProbeScheduler, TLAPS

\* What a step of one worker does to all of them.
LEMMA WorkerEffect ==
    ASSUME worker \in [Sweep -> [Route -> WorkerPlace]],
           NEW s \in Sweep, NEW r \in Route,
           NEW from \in WorkerPlace, NEW to \in WorkerPlace,
           Step(s, r, from, to)
    PROVE  /\ worker[s][r] = from
           /\ worker' \in [Sweep -> [Route -> WorkerPlace]]
           /\ \A t \in Sweep, q \in Route :
                  worker'[t][q] = IF t = s /\ q = r THEN to ELSE worker[t][q]
BY DEF Step

\* A worker that has been launched belongs to a sweep that is going on, and its
\* steps leave the loops alone.
LEMMA WorkerKeepsLoopShape ==
    ASSUME IInv, NEW s \in Sweep, NEW r \in Route,
           NEW from \in WorkerPlace \ {"none"}, NEW to \in WorkerPlace,
           Step(s, r, from, to), UNCHANGED <<loopVars, sweepVars>>
    PROVE  LoopShape'
<1>1. /\ worker[s][r] = from
      /\ \A t \in Sweep, q \in Route :
             worker'[t][q] = IF t = s /\ q = r THEN to ELSE worker[t][q]
  BY WorkerEffect DEF IInv, TypeOK
<1>2. \A t \in Sweep : place[t] \notin {"check", "launch"} => Active(t)' = {}
  <2> SUFFICES ASSUME NEW t \in Sweep, place[t] \notin {"check", "launch"}
               PROVE  Active(t)' = {}
    OBVIOUS
  <2>1. \A q \in Route : worker[t][q] = "none"
    BY DEF IInv, LoopShape, Active
  <2>2. t # s
    BY <1>1, <2>1
  <2> QED
    BY <1>1, <2>1, <2>2 DEF Active
<1> QED
  BY <1>2 DEF IInv, LoopShape, OneLoop, Live, loopVars, sweepVars

\* What is known of the routes stands as long as the workers that know it do.
LEMMA RouteShapeKept ==
    ASSUME RouteShape, UNCHANGED <<delay, resting, outcome>>,
           \A t \in Sweep, q \in Route, at \in {"acquire", "call", "penalize", "relieve"} :
               worker'[t][q] = at <=> worker[t][q] = at
    PROVE  RouteShape'
<1>1. ASSUME NEW t \in Sweep, NEW q \in Route
      PROVE  /\ worker'[t][q] \in {"acquire", "call"} => q \notin resting
             /\ worker'[t][q] = "penalize" => outcome[q] = "failed"
             /\ worker'[t][q] = "relieve" => outcome[q] = "success"
  BY DEF RouteShape
<1>2. ASSUME NEW q \in Route,
             \A t \in Sweep : worker'[t][q] \notin {"call", "penalize", "relieve"}
      PROVE  Settled(q)
  BY <1>2 DEF RouteShape
<1> QED
  BY <1>1, <1>2 DEF RouteShape, Settled

\* claimProbe keeps the invariant.
LEMMA ClaimKeepsInvariant ==
    ASSUME IInv, NEW s \in Sweep, NEW r \in Route, Claim(s, r)
    PROVE  IInv'
<1>0. worker \in [Sweep -> [Route -> WorkerPlace]] /\ {"none", "ready", "acquire"} \subseteq WorkerPlace
  BY DEF IInv, TypeOK, WorkerPlace
<1>1. CASE Step(s, r, "ready", "none") /\ UNCHANGED inFlight
  <2>1. /\ worker[s][r] = "ready"
        /\ worker' \in [Sweep -> [Route -> WorkerPlace]]
        /\ \A t \in Sweep, q \in Route :
               worker'[t][q] = IF t = s /\ q = r THEN "none" ELSE worker[t][q]
    BY <1>0, <1>1, WorkerEffect
  <2>2. TypeOK'
    BY <1>1, <2>1 DEF IInv, TypeOK, Claim, loopVars, sweepVars
  <2>3. ClaimShape'
    <3>1. \A t \in Sweep, q \in Route : worker'[t][q] \in Claimed <=> worker[t][q] \in Claimed
      BY <2>1 DEF Claimed
    <3> QED
      BY <1>1, <3>1 DEF IInv, TypeOK, ClaimShape
  <2>4. RouteShape'
    <3>1. \A t \in Sweep, q \in Route, at \in {"acquire", "call", "penalize", "relieve"} :
              worker'[t][q] = at <=> worker[t][q] = at
      BY <2>1
    <3> QED
      BY <1>1, <3>1, RouteShapeKept DEF IInv, Claim
  <2>5. LoopShape'
    BY <1>0, <1>1, WorkerKeepsLoopShape DEF Claim
  <2> QED
    BY <2>2, <2>3, <2>4, <2>5 DEF IInv
<1>2. CASE /\ r \notin inFlight
           /\ r \notin resting
           /\ Step(s, r, "ready", "acquire")
           /\ inFlight' = inFlight \cup {r}
  <2>1. /\ worker[s][r] = "ready"
        /\ worker' \in [Sweep -> [Route -> WorkerPlace]]
        /\ \A t \in Sweep, q \in Route :
               worker'[t][q] = IF t = s /\ q = r THEN "acquire" ELSE worker[t][q]
    BY <1>0, <1>2, WorkerEffect
  <2>2. TypeOK'
    BY <1>2, <2>1 DEF IInv, TypeOK, Claim, loopVars, sweepVars
  <2>3. ClaimShape'
    BY <1>2, <2>1 DEF IInv, TypeOK, ClaimShape, Claimed, Claim
  <2>4. RouteShape'
    <3>1. ASSUME NEW t \in Sweep, NEW q \in Route
          PROVE  /\ worker'[t][q] \in {"acquire", "call"} => q \notin resting
                 /\ worker'[t][q] = "penalize" => outcome[q] = "failed"
                 /\ worker'[t][q] = "relieve" => outcome[q] = "success"
      BY <1>2, <2>1 DEF IInv, RouteShape
    <3>2. ASSUME NEW q \in Route,
                 \A t \in Sweep : worker'[t][q] \notin {"call", "penalize", "relieve"}
          PROVE  Settled(q)
      <4>1. \A t \in Sweep : worker[t][q] \notin {"call", "penalize", "relieve"}
        BY <2>1, <3>2
      <4> QED
        BY <4>1 DEF IInv, RouteShape
    <3>3. UNCHANGED <<delay, resting, outcome>>
      BY DEF Claim
    <3> QED
      BY <3>1, <3>2, <3>3 DEF RouteShape, Settled
  <2>5. LoopShape'
    BY <1>0, <1>2, WorkerKeepsLoopShape DEF Claim
  <2> QED
    BY <2>2, <2>3, <2>4, <2>5 DEF IInv
<1> QED
  BY <1>1, <1>2 DEF Claim

\* So does a step of a worker that has its route and keeps it: it may change
\* what is known of this route only.
LEMMA HoldingKeepsInvariant ==
    ASSUME IInv, NEW s \in Sweep, NEW r \in Route,
           NEW from \in Claimed, NEW to \in Claimed,
           Step(s, r, from, to), UNCHANGED <<loopVars, sweepVars, inFlight>>,
           delay' \in [Route -> 0..MaxBackoff], resting' \subseteq Route,
           outcome' \in [Route -> ProbeOutcome],
           \A q \in Route \ {r} : /\ delay'[q] = delay[q]
                                  /\ outcome'[q] = outcome[q]
                                  /\ q \in resting' <=> q \in resting,
           to \in {"acquire", "call"} => r \notin resting',
           to = "penalize" => outcome'[r] = "failed",
           to = "relieve" => outcome'[r] = "success",
           to \in {"acquire", "finish"} => Settled(r)'
    PROVE  IInv'
<1>0. /\ worker \in [Sweep -> [Route -> WorkerPlace]]
      /\ from \in WorkerPlace \ {"none"}
      /\ to \in WorkerPlace
  BY DEF IInv, TypeOK, WorkerPlace, Claimed
<1>1. /\ worker[s][r] = from
      /\ worker' \in [Sweep -> [Route -> WorkerPlace]]
      /\ \A t \in Sweep, q \in Route :
             worker'[t][q] = IF t = s /\ q = r THEN to ELSE worker[t][q]
  BY <1>0, WorkerEffect
<1>2. TypeOK'
  BY <1>1 DEF IInv, TypeOK, loopVars, sweepVars
<1>3. ClaimShape'
  <2>1. \A t \in Sweep, q \in Route : worker'[t][q] \in Claimed <=> worker[t][q] \in Claimed
    BY <1>1
  <2> QED
    BY <2>1 DEF IInv, TypeOK, ClaimShape
<1>4. RouteShape'
  <2>1. \A t \in Sweep : t # s => worker[t][r] \notin Claimed
    BY <1>1 DEF IInv, ClaimShape
  <2>2. ASSUME NEW t \in Sweep, NEW q \in Route
        PROVE  /\ worker'[t][q] \in {"acquire", "call"} => q \notin resting'
               /\ worker'[t][q] = "penalize" => outcome'[q] = "failed"
               /\ worker'[t][q] = "relieve" => outcome'[q] = "success"
    <3>1. CASE t = s /\ q = r
      BY <1>1, <3>1
    <3>2. CASE t # s /\ q = r
      BY <1>1, <2>1, <3>2 DEF Claimed
    <3>3. CASE q # r
      BY <1>1, <3>3 DEF IInv, RouteShape
    <3> QED
      BY <3>1, <3>2, <3>3
  <2>3. ASSUME NEW q \in Route,
               \A t \in Sweep : worker'[t][q] \notin {"call", "penalize", "relieve"}
        PROVE  Settled(q)'
    <3>1. CASE q = r
      BY <1>1, <2>3, <3>1 DEF Claimed
    <3>2. CASE q # r
      <4>1. Settled(q)
        BY <1>1, <2>3, <3>2 DEF IInv, RouteShape
      <4> QED
        BY <3>2, <4>1 DEF Settled
    <3> QED
      BY <3>1, <3>2
  <2> QED
    BY <2>2, <2>3 DEF RouteShape
<1>5. LoopShape'
  BY <1>0, WorkerKeepsLoopShape
<1> QED
  BY <1>2, <1>3, <1>4, <1>5 DEF IInv
\* finishProbe gives the route back.
LEMMA FinishKeepsInvariant ==
    ASSUME IInv, NEW s \in Sweep, NEW r \in Route, Finish(s, r)
    PROVE  IInv'
<1>0. worker \in [Sweep -> [Route -> WorkerPlace]] /\ {"none", "finish"} \subseteq WorkerPlace
  BY DEF IInv, TypeOK, WorkerPlace
<1>1. /\ worker[s][r] = "finish"
      /\ worker' \in [Sweep -> [Route -> WorkerPlace]]
      /\ \A t \in Sweep, q \in Route :
             worker'[t][q] = IF t = s /\ q = r THEN "none" ELSE worker[t][q]
  BY <1>0, WorkerEffect DEF Finish
<1>2. TypeOK'
  BY <1>1 DEF IInv, TypeOK, Finish, loopVars, sweepVars
<1>3. ClaimShape'
  <2>0. inFlight' = inFlight \ {r} /\ inFlight \subseteq Route
    BY DEF Finish, IInv, TypeOK
  <2>1. \A t \in Sweep : worker'[t][r] \notin Claimed
    BY <1>1 DEF IInv, ClaimShape, Claimed
  <2>2. \A t \in Sweep, q \in Route \ {r} : worker'[t][q] = worker[t][q]
    BY <1>1
  <2> QED
    BY <2>0, <2>1, <2>2 DEF IInv, ClaimShape
<1>4. RouteShape'
  <2>1. \A t \in Sweep, q \in Route, at \in {"acquire", "call", "penalize", "relieve"} :
            worker'[t][q] = at <=> worker[t][q] = at
    BY <1>1
  <2> QED
    BY <2>1, RouteShapeKept DEF IInv, Finish
<1>5. LoopShape'
  BY <1>0, WorkerKeepsLoopShape DEF Finish
<1> QED
  BY <1>2, <1>3, <1>4, <1>5 DEF IInv

\* Every step of a worker keeps the invariant.
LEMMA WorkerKeepsInvariant ==
    ASSUME IInv, NEW s \in Sweep, NEW r \in Route, WorkerStep(s, r)
    PROVE  IInv'
<1>0. /\ delay \in [Route -> 0..MaxBackoff]
      /\ outcome \in [Route -> ProbeOutcome]
      /\ resting \subseteq Route
      /\ worker[s][r] \in {"acquire", "call"} => r \notin resting
      /\ worker[s][r] = "penalize" => outcome[r] = "failed"
      /\ worker[s][r] = "relieve" => outcome[r] = "success"
  BY DEF IInv, TypeOK, RouteShape
<1>1. CASE GiveUp(s, r)
  <2>1. Step(s, r, "acquire", "finish") /\ UNCHANGED <<loopVars, sweepVars, routeVars>>
    BY <1>1 DEF GiveUp
  <2>2. \A t \in Sweep : worker[t][r] \notin {"call", "penalize", "relieve"}
    BY <2>1 DEF IInv, ClaimShape, Claimed, Step
  <2>3. Settled(r)'
    BY <2>1, <2>2 DEF IInv, RouteShape, Settled, routeVars
  <2> QED
    BY <1>0, <2>1, <2>3, HoldingKeepsInvariant DEF Claimed, routeVars
<1>2. CASE Call(s, r)
  <2>1. outcome' = [outcome EXCEPT ![r] = "probing"]
    BY <1>2 DEF Call
  <2> QED
    BY <1>0, <1>2, <2>1, HoldingKeepsInvariant DEF Call, Claimed, ProbeOutcome, Step
<1>3. CASE FirstToken(s, r)
  <2>1. outcome' = [outcome EXCEPT ![r] = "success"]
    BY <1>3 DEF FirstToken
  <2> QED
    BY <1>0, <1>3, <2>1, HoldingKeepsInvariant DEF FirstToken, Claimed, ProbeOutcome
<1>4. CASE Fail(s, r)
  <2>1. CASE CtxDone(s)
    <3>1. /\ Step(s, r, "call", "finish")
          /\ outcome' = [outcome EXCEPT ![r] = "canceled"]
          /\ UNCHANGED <<loopVars, sweepVars, inFlight, delay, resting>>
      BY <1>4, <2>1 DEF Fail
    <3>2. Settled(r)'
      BY <1>0, <3>1 DEF Settled
    <3> QED
      BY <1>0, <3>1, <3>2, HoldingKeepsInvariant DEF Claimed, ProbeOutcome
  <2>2. CASE ~CtxDone(s)
    <3>1. /\ Step(s, r, "call", "penalize")
          /\ outcome' = [outcome EXCEPT ![r] = "failed"]
          /\ UNCHANGED <<loopVars, sweepVars, inFlight, delay, resting>>
      BY <1>4, <2>2 DEF Fail
    <3> QED
      BY <1>0, <3>1, HoldingKeepsInvariant DEF Claimed, ProbeOutcome
  <2> QED
    BY <2>1, <2>2
<1>5. CASE Penalize(s, r)
  <2>1. delay' = [delay EXCEPT ![r] = Doubled(delay[r])] /\ outcome[r] = "failed"
    BY <1>0, <1>5 DEF Penalize, Step
  <2>2. Doubled(delay[r]) \in 0..MaxBackoff /\ Doubled(delay[r]) > 0
    BY <1>0, ProbeAssumption DEF Doubled
  <2>3. Settled(r)'
    BY <1>0, <1>5, <2>1, <2>2 DEF Penalize, Settled
  <2> QED
    BY <1>0, <1>5, <2>1, <2>2, <2>3, HoldingKeepsInvariant DEF Penalize, Claimed
<1>6. CASE Relieve(s, r)
  <2>1. delay' = [delay EXCEPT ![r] = 0] /\ outcome[r] = "success"
    BY <1>0, <1>6 DEF Relieve, Step
  <2>2. 0 \in 0..MaxBackoff
    BY ProbeAssumption
  <2>3. Settled(r)'
    BY <1>0, <1>6, <2>1 DEF Relieve, Settled
  <2> QED
    BY <1>0, <1>6, <2>1, <2>2, <2>3, HoldingKeepsInvariant DEF Relieve, Claimed
<1> QED
  BY <1>1, <1>2, <1>3, <1>4, <1>5, <1>6, ClaimKeepsInvariant, FinishKeepsInvariant
  DEF WorkerStep
\* What is known of workers and routes stands when neither changes.
LEMMA RoutesKept ==
    ASSUME IInv, UNCHANGED <<worker, routeVars>>
    PROVE  ClaimShape' /\ RouteShape'
<1>1. /\ worker' = worker /\ inFlight' = inFlight
      /\ delay' = delay /\ resting' = resting /\ outcome' = outcome
  BY DEF routeVars
<1>2. ClaimShape'
  BY <1>1 DEF IInv, ClaimShape
<1>3. RouteShape'
  BY <1>1, RouteShapeKept DEF IInv
<1> QED
  BY <1>2, <1>3

\* Starting a worker keeps the invariant: its sweep goes on.
LEMMA LaunchKeepsInvariant ==
    ASSUME IInv, NEW s \in Sweep, Launch(s)
    PROVE  IInv'
<1>1. PICK r \in todo[s] : /\ todo' = [todo EXCEPT ![s] = @ \ {r}]
                           /\ Step(s, r, "none", "ready")
  BY DEF Launch
<1>2. r \in Route
  BY <1>1 DEF IInv, TypeOK
<1>3. /\ worker[s][r] = "none"
      /\ worker' \in [Sweep -> [Route -> WorkerPlace]]
      /\ \A t \in Sweep, q \in Route :
             worker'[t][q] = IF t = s /\ q = r THEN "ready" ELSE worker[t][q]
  BY <1>1, <1>2, WorkerEffect DEF IInv, TypeOK, WorkerPlace
<1>4. /\ place[s] = "launch"
      /\ place' = [place EXCEPT ![s] = "check"]
      /\ UNCHANGED <<loopVars, routeVars>>
  BY DEF Launch, At
<1>5. TypeOK'
  BY <1>1, <1>2, <1>3, <1>4 DEF IInv, TypeOK, Place, loopVars, routeVars
<1>6. ClaimShape'
  <2>1. \A t \in Sweep, q \in Route : worker'[t][q] \in Claimed <=> worker[t][q] \in Claimed
    BY <1>3 DEF Claimed
  <2> QED
    BY <1>4, <2>1 DEF IInv, TypeOK, ClaimShape, routeVars
<1>7. RouteShape'
  <2>1. \A t \in Sweep, q \in Route, at \in {"acquire", "call", "penalize", "relieve"} :
            worker'[t][q] = at <=> worker[t][q] = at
    BY <1>3
  <2> QED
    BY <1>4, <2>1, RouteShapeKept DEF IInv, routeVars
<1>8. LoopShape'
  <2>1. \A t \in Sweep : place'[t] \notin {"check", "launch"} => Active(t)' = {}
    <3> SUFFICES ASSUME NEW t \in Sweep, place'[t] \notin {"check", "launch"}
                 PROVE  Active(t)' = {}
      OBVIOUS
    <3>1. t # s /\ place[t] \notin {"check", "launch"}
      BY <1>4 DEF IInv, TypeOK
    <3> QED
      BY <1>3, <3>1 DEF IInv, LoopShape, Active
  <2> QED
    BY <1>4, <2>1 DEF IInv, TypeOK, LoopShape, OneLoop, Live, Sweep, loopVars
<1> QED
  BY <1>5, <1>6, <1>7, <1>8 DEF IInv

\* The steps of the sweeps and the loop, and Start and Stop, keep the invariant.
LEMMA LoopKeepsInvariant ==
    ASSUME IInv,
           \/ \E s \in Sweep : CheckContext(s) \/ EndSweep(s)
           \/ \E eligible \in SUBSET Route :
                  \/ \E m \in Manual : RunOnce(m, eligible)
                  \/ Start(eligible)
                  \/ \E n \in Run : Tick(n, eligible)
           \/ \E n \in Run : LeaveLoop(n) \/ CloseDone(n) \/ CancelParent(n)
           \/ \E c \in Caller : Stop(c) \/ StopReturns(c)
    PROVE  IInv'
<1>0. UNCHANGED <<worker, routeVars>>
  BY DEF CheckContext, EndSweep, RunOnce, Start, Tick, LeaveLoop, CloseDone, Stop,
         StopReturns, CancelParent
<1>1. ClaimShape' /\ RouteShape'
  BY <1>0, RoutesKept
<1>2. /\ MaxRuns \in Nat /\ Run = 1..MaxRuns /\ NoRun \notin Nat
      /\ Sweep = Run \cup Manual /\ Run \cap Manual = {}
      /\ runID \in 0..MaxRuns /\ current \in Run \cup {NoRun} /\ canceled \subseteq Run
      /\ place \in [Sweep -> Place] /\ todo \in [Sweep -> SUBSET Route]
      /\ waitFor \in [Caller -> Run \cup {NoRun}]
  BY ProbeAssumption DEF IInv, TypeOK, Run, Sweep, NoRun
<1>3. \A t \in Sweep : Active(t)' = Active(t)
  BY <1>0 DEF Active
<1>4. ASSUME runID' \in 0..MaxRuns, current' \in Run \cup {NoRun}, canceled' \subseteq Run,
             place' \in [Sweep -> Place], todo' \in [Sweep -> SUBSET Route],
             waitFor' \in [Caller -> Run \cup {NoRun}]
      PROVE  TypeOK'
  BY <1>0, <1>4 DEF IInv, TypeOK, routeVars
<1>5. ASSUME NEW s \in Sweep, NEW eligible \in SUBSET Route,
             CheckContext(s) \/ EndSweep(s) \/ (s \in Manual /\ RunOnce(s, eligible))
      PROVE  IInv'
  <2>1. /\ UNCHANGED loopVars
        /\ \/ /\ place[s] = "check" /\ place' = [place EXCEPT ![s] = "launch"]
              /\ UNCHANGED todo
           \/ /\ place[s] = "check" /\ Active(s) = {}
              /\ place' = [place EXCEPT ![s] = IF s \in Manual THEN "idle" ELSE "rest"]
              /\ todo' = [todo EXCEPT ![s] = {}]
           \/ /\ s \in Manual /\ place' = [place EXCEPT ![s] = "check"]
              /\ todo' = [todo EXCEPT ![s] = eligible]
    BY <1>5 DEF CheckContext, EndSweep, RunOnce, BeginSweep, At
  <2>2. TypeOK'
    BY <1>2, <1>4, <2>1 DEF Place, loopVars
  <2>3. LoopShape'
    BY <1>2, <1>3, <2>1 DEF IInv, LoopShape, OneLoop, Live, Place, loopVars
  <2> QED
    BY <1>1, <2>2, <2>3 DEF IInv
<1>6. ASSUME NEW eligible \in SUBSET Route, Start(eligible)
      PROVE  IInv'
  <2>1. /\ current = NoRun /\ runID < MaxRuns /\ runID' = runID + 1
        /\ current' = runID + 1 /\ runID + 1 \in Run
        /\ place' = [place EXCEPT ![runID + 1] = "check"]
        /\ todo' = [todo EXCEPT ![runID + 1] = eligible]
        /\ UNCHANGED <<canceled, waitFor>>
    BY <1>2, <1>6 DEF Start, BeginSweep, At
  <2>2. TypeOK'
    BY <1>2, <1>4, <2>1 DEF Place
  <2>3. LoopShape'
    BY <1>2, <1>3, <2>1 DEF IInv, LoopShape, OneLoop, Live, Place
  <2> QED
    BY <1>1, <2>2, <2>3 DEF IInv
<1>7. ASSUME NEW n \in Run, NEW eligible \in SUBSET Route,
             Tick(n, eligible) \/ CloseDone(n)
      PROVE  IInv'
  <2>1. /\ UNCHANGED loopVars
        /\ \/ /\ place[n] = "rest" /\ place' = [place EXCEPT ![n] = "check"]
              /\ todo' = [todo EXCEPT ![n] = eligible]
           \/ /\ place[n] = "ended" /\ place' = [place EXCEPT ![n] = "done"]
              /\ UNCHANGED todo
    BY <1>7 DEF Tick, CloseDone, BeginSweep, At
  <2>2. TypeOK'
    BY <1>2, <1>4, <2>1 DEF Place, loopVars
  <2>3. LoopShape'
    BY <1>2, <1>3, <2>1 DEF IInv, LoopShape, OneLoop, Live, Place, loopVars
  <2> QED
    BY <1>1, <2>2, <2>3 DEF IInv
<1>8. ASSUME NEW n \in Run, LeaveLoop(n)
      PROVE  IInv'
  <2>1. /\ place[n] = "rest" /\ place' = [place EXCEPT ![n] = "ended"]
        /\ current' = IF runID = n THEN NoRun ELSE current
        /\ UNCHANGED <<runID, canceled, waitFor, todo>>
    BY <1>8 DEF LeaveLoop, At
  <2>2. TypeOK'
    BY <1>2, <1>4, <2>1 DEF Place
  <2>3. LoopShape'
    BY <1>2, <1>3, <2>1 DEF IInv, LoopShape, OneLoop, Live, Place
  <2> QED
    BY <1>1, <2>2, <2>3 DEF IInv
<1>9. ASSUME \/ \E c \in Caller : Stop(c) \/ StopReturns(c)
             \/ \E n \in Run : CancelParent(n)
      PROVE  IInv'
  <2>1. /\ UNCHANGED <<runID, current, place, todo>>
        /\ canceled' \subseteq Run
        /\ waitFor' \in [Caller -> Run \cup {NoRun}]
    BY <1>2, <1>9 DEF Stop, StopReturns, CancelParent, sweepVars
  <2>2. TypeOK'
    BY <1>2, <1>4, <2>1
  <2>3. LoopShape'
    BY <1>3, <2>1 DEF IInv, LoopShape, OneLoop, Live
  <2> QED
    BY <1>1, <2>2, <2>3 DEF IInv
<1>10. Manual \subseteq Sweep /\ {} \in SUBSET Route
  BY <1>2
<1> QED
  BY <1>5, <1>6, <1>7, <1>8, <1>9, <1>10

\* A backoff that ends keeps the invariant.
LEMMA BackoffEndsKeepsInvariant ==
    ASSUME IInv, NEW r \in Route, BackoffEnds(r)
    PROVE  IInv'
<1>1. /\ resting' = resting \ {r}
      /\ UNCHANGED <<runID, current, canceled, waitFor, place, todo, worker,
                     inFlight, delay, outcome>>
  BY DEF BackoffEnds, loopVars, sweepVars
<1>2. TypeOK'
  BY <1>1 DEF IInv, TypeOK
<1>3. ClaimShape' /\ LoopShape'
  BY <1>1 DEF IInv, ClaimShape, LoopShape, OneLoop, Live, Active
<1>4. RouteShape'
  <2>1. \A q \in Route : Settled(q)' <=> Settled(q)
    BY <1>1 DEF Settled
  <2> QED
    BY <1>1, <2>1 DEF IInv, RouteShape
<1> QED
  BY <1>2, <1>3, <1>4 DEF IInv

\* The first state satisfies the invariant.
LEMMA InitInvariant == Init => IInv
<1> SUFFICES ASSUME Init PROVE IInv
  OBVIOUS
<1>1. MaxRuns \in Nat /\ MaxBackoff \in Nat
  BY ProbeAssumption
<1>2. TypeOK
  <2>1. /\ place \in [Sweep -> Place]
        /\ todo \in [Sweep -> SUBSET Route]
        /\ worker \in [Sweep -> [Route -> WorkerPlace]]
    BY DEF Init, Place, WorkerPlace
  <2>2. 0 \in 0..MaxRuns /\ 0 \in 0..MaxBackoff
    BY <1>1
  <2>3. /\ runID \in 0..MaxRuns
        /\ delay \in [Route -> 0..MaxBackoff]
    BY <2>2 DEF Init
  <2>4. /\ outcome \in [Route -> ProbeOutcome]
        /\ waitFor \in [Caller -> Run \cup {NoRun}]
    BY DEF Init, ProbeOutcome
  <2> QED
    BY <2>1, <2>3, <2>4 DEF Init, TypeOK
<1>3. ClaimShape
  BY DEF Init, ClaimShape, Claimed
<1>4. RouteShape
  BY DEF Init, RouteShape, Settled
<1>5. LoopShape
  BY DEF Init, LoopShape, OneLoop, Live, Active, Run, Sweep
<1> QED
  BY <1>2, <1>3, <1>4, <1>5 DEF IInv

\* Every step keeps the invariant.
LEMMA StepKeepsInvariant == IInv /\ [Next]_vars => IInv'
<1> SUFFICES ASSUME IInv, [Next]_vars PROVE IInv'
  OBVIOUS
<1>1. CASE \E s \in Sweep, r \in Route : WorkerStep(s, r)
  BY <1>1, WorkerKeepsInvariant
<1>2. CASE \E s \in Sweep : Launch(s)
  BY <1>2, LaunchKeepsInvariant
<1>3. CASE \E r \in Route : BackoffEnds(r)
  BY <1>3, BackoffEndsKeepsInvariant
<1>4. CASE UNCHANGED vars
  <2>1. UNCHANGED <<runID, current, canceled, waitFor, place, todo, worker, routeVars>>
    BY <1>4 DEF vars, loopVars, sweepVars
  <2>2. ClaimShape' /\ RouteShape'
    BY <2>1, RoutesKept
  <2> QED
    BY <2>1, <2>2 DEF IInv, TypeOK, LoopShape, OneLoop, Live, Active, routeVars
<1> QED
  BY <1>1, <1>2, <1>3, <1>4, LoopKeepsInvariant DEF Next, SweepStep

\* The invariant of the probes.
THEOREM ProbeInvariant == Spec => []IInv
BY InitInvariant, StepKeepsInvariant, PTL DEF Spec

\* Type correctness of the probe scheduler; the backoff is capped (failProbe).
THEOREM ProbeTypeCorrect == Spec => []TypeOK
BY ProbeInvariant, PTL DEF IInv

\* Two loops never run at a time, however Start and Stop are called
\* (Scheduler.Start, Scheduler.Stop).
THEOREM OneLoopRuns == Spec => []OneLoop
BY ProbeInvariant, PTL DEF IInv, LoopShape

\* Nobody asks the provider of a route that backs off (claimProbe, finishProbe).
THEOREM BackoffIsKept == Spec => []BackingOffIsQuiet
<1>1. IInv => BackingOffIsQuiet
  BY DEF IInv, RouteShape, BackingOffIsQuiet
<1> QED
  BY <1>1, ProbeInvariant, PTL

\* The registry and the backoff of an idle route agree (probeOnce, failProbe).
THEOREM IdleRoutesAreSettled == Spec => []IdleIsSettled
<1>1. IInv => IdleIsSettled
  BY DEF IInv, ClaimShape, RouteShape, Claimed, IdleIsSettled
<1> QED
  BY <1>1, ProbeInvariant, PTL

\* Backoffs are kept and told truly (BackoffIsHonest).
THEOREM BackoffsAreHonest == Spec => []BackoffIsHonest
<1>1. BackingOffIsQuiet /\ IdleIsSettled => BackoffIsHonest
  BY DEF BackoffIsHonest
<1> QED
  BY <1>1, BackoffIsKept, IdleRoutesAreSettled, PTL

\* When Stop returns no probe of the loop it stopped is under way
\* (Scheduler.Stop, runOnce).
THEOREM StopIsClean == Spec => StopLeavesNoProbe
<1> DEFINE Clean == \A c \in Caller, n \in Run :
                        waitFor[c] = n /\ waitFor'[c] = NoRun =>
                            place'[n] = "done" /\ (Active(n) = {})'
<1>1. ASSUME IInv, [Next]_vars
      PROVE  [Clean]_vars
  <2> SUFFICES ASSUME NEW c \in Caller, NEW n \in Run,
                      waitFor[c] = n, waitFor'[c] = NoRun
               PROVE  place'[n] = "done" /\ (Active(n) = {})'
    OBVIOUS
  <2>1. n # NoRun /\ n \in Sweep
    BY DEF Run, NoRun, Sweep
  <2>2. waitFor' # waitFor
    BY <2>1
  <2>3. ~\E d \in Caller : Stop(d)
    BY <1>1, <2>1 DEF Stop, IInv, TypeOK
  <2>4. \E d \in Caller : StopReturns(d)
    BY <1>1, <2>2, <2>3
    DEF Next, SweepStep, WorkerStep, vars, loopVars, CheckContext, Launch, EndSweep,
        RunOnce, Start, Tick, LeaveLoop, CloseDone, CancelParent, Claim, GiveUp, Call,
        FirstToken, Relieve, Fail, Penalize, Finish, BackoffEnds
  <2>5. StopReturns(c)
    BY <1>1, <2>1, <2>4 DEF StopReturns, IInv, TypeOK
  <2>6. place[n] = "done" /\ UNCHANGED <<place, worker>>
    BY <2>5 DEF StopReturns, sweepVars
  <2> QED
    BY <1>1, <2>1, <2>6 DEF IInv, LoopShape, Active
<1> QED
  BY <1>1, ProbeInvariant, PTL DEF Spec, StopLeavesNoProbe
============================================================================
