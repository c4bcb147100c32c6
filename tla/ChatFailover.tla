--------------------------- MODULE ChatFailover ----------------------------
(***************************************************************************)
(* One POST /v1/chat/completions request from its body to its usage        *)
(* record: ChatHandler of internal/gateway/attempt.go with the attempt it  *)
(* runs on each route, the race of the failover deadline against the       *)
(* commit of the response, a client that may leave at any moment, and an   *)
(* upstream that answers, stalls or breaks as it likes.                    *)
(*                                                                         *)
(* The handler is one goroutine; `phase` is where it stands.  The timer    *)
(* callback of the attempt budget and the client run concurrently with it. *)
(***************************************************************************)
EXTENDS FailurePolicy, FiniteSets

CONSTANTS
    Provider,        \* provider names, the keys of the concurrency slots
    NoProvider,      \* no slot is held
    MaxAttempts,     \* FailoverPolicy.MaxAttempts, normalized
    CandidateLists,  \* what resolveAttemptCandidates may return
    UpstreamErrors   \* errors a provider may return, cancellation apart

VARIABLES
    phase,           \* where the handler stands
    streaming,       \* req.Stream
    candidates,      \* the candidate list, resolved once
    attempted,       \* set of the routes attempted so far
    attempt,         \* number of attempts started
    current,         \* route of the running or the last attempt
    action,          \* what the last failure asks for
    lastErr,         \* error of the last attempt
    deadlinePassed,  \* the failover deadline is in the past
    budget,          \* state word of the attempt budget
    timerCancelled,  \* the deadline's callback has cancelled the attempt context
    clientGone,      \* the request context is done
    slot,            \* provider whose concurrency slot is held
    upstreamOpen,    \* the attempt holds an open upstream stream
    arrived,         \* what stream.Next returned last
    committed,       \* the attempt's committed flag
    semantic,        \* the attempt has seen a semantic event
    tokens,          \* the attempt has seen a token usage
    handled, err,    \* results of the attempt
    collector,       \* the request's usageCollector
    usageLog,        \* records appended to the usage sink
    response,        \* what has been written to the client
    called,          \* routes an upstream request was sent to
    verdict          \* what the attempts told the health manager of each route

attemptVars == <<budget, timerCancelled, slot, upstreamOpen, arrived,
                 committed, semantic, tokens, handled, err>>
loopVars == <<candidates, attempted, attempt, current, action, lastErr>>
outVars == <<collector, usageLog, response, called, verdict>>
vars == <<phase, streaming, deadlinePassed, clientGone,
          loopVars, attemptVars, outVars>>

ASSUME ConstantsAssumption ==
    /\ ProviderOf \in [Route -> Provider]
    /\ NoProvider \notin Provider
    /\ MaxAttempts \in 1..100
    /\ \A list \in CandidateLists : InCandidateListForm(list)
    /\ UpstreamErrors \subseteq Error
    /\ \A e \in UpstreamErrors : ~IsRequestCanceled(FALSE, e)

Phase == {"idle", "resolve", "loop", "acquire", "call", "next", "event",
          "commit", "write", "respond", "end", "finish", "return", "done"}
\* Phases in which an attempt is running.
AttemptPhase == {"acquire", "call", "next", "event", "commit", "write",
                 "respond", "end"}

Status == {0, 200, 400, 429, 500, 502, 503}
Ending == {"open", "done", "error"}
Result == {"", "success", "failure", "canceled", "partial"}

\* The state word of attemptBudget; "none" before the attempt and after Close.
BudgetState == {"none", "open", "committed", "expired"}
Verdict == {"none", "fail", "ok"}

EventKind == {"heartbeat", "delta", "finish", "eof", "error"}
StreamEvent == [kind : EventKind, usage : BOOLEAN, err : Error \cup {NoError}]
Event(kind, usage) == [kind |-> kind, usage |-> usage, err |-> NoError]
Broken(e) == [kind |-> "error", usage |-> FALSE, err |-> e]

\* usage.AttemptRecord, without its timings; the error is NoError on success.
AttemptRecord == [route : Route, committed : BOOLEAN, err : Error \cup {NoError}]

\* usage.Record: the attempts of a request, whose tokens it counts, its outcome.
UsageRecord == [attempts : Seq(AttemptRecord), finalRoute : Route \cup {NoRoute},
                tokens : Route \cup {NoRoute}, result : Result]

NewCollector == [attempts |-> <<>>, finalRoute |-> NoRoute,
                 tokens |-> NoRoute, result |-> ""]

\* What the client has received: a status line (0 before it), the routes the
\* content came from, and how the body ended.
Response == [status : Status, sources : SUBSET Route, ending : Ending]

NothingWritten == [status |-> 0, sources |-> {}, ending |-> "open"]

\* No attempt is running: no budget, no slot, no stream, fresh locals.
NoAttempt ==
    /\ budget = "none"
    /\ timerCancelled = FALSE
    /\ slot = NoProvider
    /\ upstreamOpen = FALSE
    /\ arrived = Event("heartbeat", FALSE)
    /\ committed = FALSE
    /\ semantic = FALSE
    /\ tokens = FALSE
    /\ handled = FALSE
    /\ err = NoError

Init ==
    /\ phase = "idle"
    /\ streaming \in BOOLEAN
    /\ candidates = <<>>
    /\ attempted = {}
    /\ attempt = 0
    /\ current = NoRoute
    /\ action = "Stop"
    /\ lastErr = NoError
    /\ deadlinePassed = FALSE
    /\ clientGone = FALSE
    /\ NoAttempt
    /\ collector = NewCollector
    /\ usageLog = <<>>
    /\ response = NothingWritten
    /\ called = {}
    /\ verdict = [r \in Route |-> "none"]

----------------------------------------------------------------------------
(* Before the first attempt. *)

\* writeError and writeJSON: a complete answer with one status line.
WriteError(status) ==
    response' = [status |-> status, sources |-> response.sources, ending |-> "done"]

\* An unreadable body, bad JSON, an unknown parameter or no messages: the
\* request is refused before it has a usage collector.
RefuseBody ==
    /\ phase = "idle"
    /\ WriteError(400)
    /\ phase' = "done"
    /\ UNCHANGED <<streaming, deadlinePassed, clientGone, loopVars, attemptVars,
                   collector, usageLog, called, verdict>>

AcceptBody ==
    /\ phase = "idle"
    /\ phase' = "resolve"
    /\ UNCHANGED <<streaming, deadlinePassed, clientGone, loopVars, attemptVars, outVars>>

\* No candidate (400 for an explicit model, 503 for fmr/auto), or a stream
\* asked of a connection that cannot be flushed.
RefuseRequest ==
    /\ phase = "resolve"
    /\ \/ <<>> \in CandidateLists /\ \E status \in {400, 503} : WriteError(status)
       \/ streaming /\ WriteError(500)
    /\ phase' = "return"
    /\ UNCHANGED <<streaming, deadlinePassed, clientGone, loopVars, attemptVars,
                   collector, usageLog, called, verdict>>

\* The candidates are read under the gateway's lock, once; the failover
\* deadline starts to run.
ResolveCandidates ==
    /\ phase = "resolve"
    /\ \E list \in CandidateLists \ {<<>>} : candidates' = list
    /\ phase' = "loop"
    /\ UNCHANGED <<streaming, deadlinePassed, clientGone, attempted, attempt, current,
                   action, lastErr, attemptVars, outVars>>

----------------------------------------------------------------------------
(* The loop of ChatHandler. *)

LoopCanceled ==
    /\ phase = "loop"
    /\ attempt < MaxAttempts
    /\ clientGone
    /\ phase' = "return"
    /\ UNCHANGED <<streaming, deadlinePassed, clientGone, loopVars, attemptVars, outVars>>

LoopExhausted ==
    /\ phase = "loop"
    /\ \/ attempt = MaxAttempts
       \/ ~clientGone /\ attempt > 0 /\ deadlinePassed
       \/ ~clientGone /\ NoNextCandidate(candidates, attempted, current, action)
    /\ phase' = "finish"
    /\ UNCHANGED <<streaming, deadlinePassed, clientGone, loopVars, attemptVars, outVars>>

\* Faulty variant: the loop runs once too often.
StartAttemptPastLimit(r) ==
    /\ phase = "loop"
    /\ attempt <= MaxAttempts
    /\ ~clientGone
    /\ ~(attempt > 0 /\ deadlinePassed)
    /\ IsNextCandidate(r, candidates, attempted, current, action)
    /\ attempted' = attempted \cup {r}
    /\ attempt' = attempt + 1
    /\ current' = r
    /\ budget' = "open"
    /\ phase' = "acquire"
    /\ UNCHANGED <<streaming, deadlinePassed, clientGone, candidates, action, lastErr,
                   timerCancelled, slot, upstreamOpen, arrived, committed, semantic,
                   tokens, handled, err, outVars>>

StartAttempt(r) ==
    /\ phase = "loop"
    /\ attempt < MaxAttempts
    /\ ~clientGone
    /\ ~(attempt > 0 /\ deadlinePassed)
    /\ IsNextCandidate(r, candidates, attempted, current, action)
    /\ attempted' = attempted \cup {r}
    /\ attempt' = attempt + 1
    /\ current' = r
    /\ budget' = "open"
    /\ phase' = "acquire"
    /\ UNCHANGED <<streaming, deadlinePassed, clientGone, candidates, action, lastErr,
                   timerCancelled, slot, upstreamOpen, arrived, committed, semantic,
                   tokens, handled, err, outVars>>

\* After the loop: the last failure becomes the answer.  A canceled failure
\* writes nothing.
Finish ==
    /\ phase = "finish"
    /\ LET status == IF lastErr = NoError THEN 503 ELSE UpstreamErrorStatus(lastErr)
       IN  IF clientGone \/ status = 0 THEN UNCHANGED response ELSE WriteError(status)
    /\ phase' = "return"
    /\ UNCHANGED <<streaming, deadlinePassed, clientGone, loopVars, attemptVars,
                   collector, usageLog, called, verdict>>

\* The deferred recordUsage of ChatHandler.
RecordUsage ==
    /\ phase = "return"
    /\ usageLog' = Append(usageLog,
         [collector EXCEPT !.result =
             IF @ # "" THEN @ ELSE IF clientGone THEN "canceled" ELSE "failure"])
    /\ phase' = "done"
    /\ UNCHANGED <<streaming, deadlinePassed, clientGone, loopVars, attemptVars,
                   collector, response, called, verdict>>

----------------------------------------------------------------------------
(* One attempt: runStreamingAttempt and runNonStreamingAttempt.  They share *)
(* every step up to the first semantic event.                               *)

\* The attempt's context is done: the client left, or the deadline fired.
CtxDone == clientGone \/ timerCancelled

Expired == budget = "expired"

\* recordAttemptFailure on the current route.
RecordAttemptFailure(e) ==
    verdict' = IF CountsAgainstRoute(clientGone, e)
               THEN [verdict EXCEPT ![current] = "fail"]
               ELSE verdict

RouteSuccess == verdict' = [verdict EXCEPT ![current] = "ok"]

\* The attempt returns (h, e) and its deferred functions are next.
ReturnFromAttempt(h, e) ==
    /\ handled' = h
    /\ err' = e
    /\ phase' = "end"

\* Errors the environment can produce now: cancellation needs a done context.
PossibleErrors ==
    UpstreamErrors \cup
        IF CtxDone THEN {Plain("canceled"), FailureError(NewFailure("Canceled", "Request"))}
                   ELSE {}

AcquireSlot ==
    /\ phase = "acquire"
    /\ ~CtxDone
    /\ slot' = ProviderOf[current]
    /\ phase' = "call"
    /\ UNCHANGED <<streaming, deadlinePassed, clientGone, loopVars, budget,
                   timerCancelled, upstreamOpen, arrived, committed, semantic,
                   tokens, handled, err, outVars>>

\* Faulty variant: the wait for a slot counts against the route.
SlotRefusedBlamed ==
    /\ phase = "acquire"
    /\ CtxDone
    /\ LET e == IF Expired THEN FailoverBudgetError ELSE Plain("canceled")
       IN  ReturnFromAttempt(FALSE, e) /\ RecordAttemptFailure(e)
    /\ UNCHANGED <<streaming, deadlinePassed, clientGone, loopVars, budget,
                   timerCancelled, slot, upstreamOpen, arrived, committed,
                   semantic, tokens, collector, usageLog, response, called>>

\* The context ended while waiting for a slot: no request was sent, so the
\* route's health is left alone.
SlotRefused ==
    /\ phase = "acquire"
    /\ CtxDone
    /\ ReturnFromAttempt(FALSE, IF Expired THEN FailoverBudgetError ELSE Plain("canceled"))
    /\ UNCHANGED <<streaming, deadlinePassed, clientGone, loopVars, budget,
                   timerCancelled, slot, upstreamOpen, arrived, committed,
                   semantic, tokens, outVars>>

UpstreamAccepts ==
    /\ phase = "call"
    /\ called' = called \cup {current}
    /\ upstreamOpen' = TRUE
    /\ phase' = "next"
    /\ UNCHANGED <<streaming, deadlinePassed, clientGone, loopVars, budget,
                   timerCancelled, slot, arrived, committed, semantic, tokens,
                   handled, err, collector, usageLog, response, verdict>>

\* ChatCompletion fails, or returns a nil stream.
UpstreamRefuses ==
    /\ phase = "call"
    /\ called' = called \cup {current}
    /\ \E e \in PossibleErrors :
         LET reported == IF Expired THEN FailoverBudgetError ELSE e
         IN  ReturnFromAttempt(FALSE, reported) /\ RecordAttemptFailure(reported)
    /\ UNCHANGED <<streaming, deadlinePassed, clientGone, loopVars, budget,
                   timerCancelled, slot, upstreamOpen, arrived, committed,
                   semantic, tokens, collector, usageLog, response>>

NilStream ==
    /\ phase = "call"
    /\ called' = called \cup {current}
    /\ LET e == FailureError(NewFailure("Protocol", "Route"))
       IN  ReturnFromAttempt(FALSE, e) /\ RecordAttemptFailure(e)
    /\ UNCHANGED <<streaming, deadlinePassed, clientGone, loopVars, budget,
                   timerCancelled, slot, upstreamOpen, arrived, committed,
                   semantic, tokens, collector, usageLog, response>>

\* stream.Next returns an event, the end of the stream, or an error.
NextReturns(ev) ==
    /\ phase = "next"
    /\ arrived' = ev
    /\ phase' = "event"
    /\ UNCHANGED <<streaming, deadlinePassed, clientGone, loopVars, budget,
                   timerCancelled, slot, upstreamOpen, committed, semantic,
                   tokens, handled, err, outVars>>

UpstreamEvents ==
    {Event("eof", FALSE)}
      \cup [kind : {"heartbeat", "delta", "finish"}, usage : BOOLEAN, err : {NoError}]
      \cup {Broken(e) : e \in PossibleErrors}

\* The deadline beat the event: whatever arrived is dropped.
FailAttemptWithBudget ==
    /\ ReturnFromAttempt(FALSE, FailoverBudgetError)
    /\ RecordAttemptFailure(FailoverBudgetError)
    /\ UNCHANGED <<streaming, deadlinePassed, clientGone, loopVars, budget,
                   timerCancelled, slot, upstreamOpen, arrived, committed,
                   semantic, tokens, collector, usageLog, response, called>>

EventTooLate ==
    /\ phase = "event"
    /\ Expired /\ ~committed
    /\ FailAttemptWithBudget

InTime == phase = "event" /\ ~(Expired /\ ~committed)

\* Faulty variant: an empty stream is a completed answer.
EndOfEmptyStream ==
    /\ InTime
    /\ arrived.kind = "eof"
    /\ response' = [response EXCEPT !.ending = "done"]
    /\ RouteSuccess
    /\ ReturnFromAttempt(TRUE, NoError)
    /\ UNCHANGED <<streaming, deadlinePassed, clientGone, loopVars, budget,
                   timerCancelled, slot, upstreamOpen, arrived, committed,
                   semantic, tokens, collector, usageLog, called>>

\* The stream ended.  What counts as an answer is a committed stream, or a
\* buffered response with at least one semantic event.
EndOfStream ==
    /\ InTime
    /\ arrived.kind = "eof"
    /\ IF ~(IF streaming THEN committed ELSE semantic)
       THEN LET e == FailureError(NewFailure("Protocol", "Route"))
            IN  /\ ReturnFromAttempt(FALSE, e)
                /\ RecordAttemptFailure(e)
                /\ UNCHANGED response
       ELSE IF streaming
            THEN /\ response' = [response EXCEPT !.ending = "done"]
                 /\ RouteSuccess
                 /\ ReturnFromAttempt(TRUE, NoError)
            ELSE /\ phase' = "respond"
                 /\ UNCHANGED <<handled, err, response, verdict>>
    /\ UNCHANGED <<streaming, deadlinePassed, clientGone, loopVars, budget,
                   timerCancelled, slot, upstreamOpen, arrived, committed,
                   semantic, tokens, collector, usageLog, called>>

\* Faulty variant: the attempt is not reported handled, so the loop goes on.
StreamBrokeUnhandled ==
    /\ InTime
    /\ arrived.kind = "error"
    /\ ReturnFromAttempt(FALSE, arrived.err)
    /\ RecordAttemptFailure(arrived.err)
    /\ response' = IF committed THEN [response EXCEPT !.ending = "error"] ELSE response
    /\ UNCHANGED <<streaming, deadlinePassed, clientGone, loopVars, budget,
                   timerCancelled, slot, upstreamOpen, arrived, committed,
                   semantic, tokens, collector, usageLog, called>>

\* The stream broke.  After the commit the answer can only be cut short: with
\* an SSE error, unless the client is gone.
StreamBroke ==
    /\ InTime
    /\ arrived.kind = "error"
    /\ ReturnFromAttempt(committed, arrived.err)
    /\ IF committed /\ IsRequestCanceled(clientGone, arrived.err)
       THEN UNCHANGED <<response, verdict>>
       ELSE /\ RecordAttemptFailure(arrived.err)
            /\ response' = IF committed THEN [response EXCEPT !.ending = "error"]
                           ELSE response
    /\ UNCHANGED <<streaming, deadlinePassed, clientGone, loopVars, budget,
                   timerCancelled, slot, upstreamOpen, arrived, committed,
                   semantic, tokens, collector, usageLog, called>>

\* Not semantic: nothing is forwarded, and only the buffered path reads its
\* usage.
Heartbeat ==
    /\ InTime
    /\ arrived.kind = "heartbeat"
    /\ tokens' = (tokens \/ (~streaming /\ arrived.usage))
    /\ phase' = "next"
    /\ UNCHANGED <<streaming, deadlinePassed, clientGone, loopVars, budget,
                   timerCancelled, slot, upstreamOpen, arrived, committed,
                   semantic, handled, err, outVars>>

SemanticEvent ==
    /\ InTime
    /\ arrived.kind \in {"delta", "finish"}
    /\ semantic' = TRUE
    /\ tokens' = (tokens \/ arrived.usage)
    /\ phase' = IF streaming THEN (IF committed THEN "write" ELSE "commit")
                ELSE (IF arrived.kind = "finish" THEN "respond" ELSE "next")
    /\ UNCHANGED <<streaming, deadlinePassed, clientGone, loopVars, budget,
                   timerCancelled, slot, upstreamOpen, arrived, committed,
                   handled, err, outVars>>

\* attemptBudget.Commit: one compare-and-swap, against the timer's.
Commit ==
    /\ phase = "commit"
    /\ budget = "open"
    /\ budget' = "committed"
    /\ committed' = TRUE
    /\ phase' = "write"
    /\ UNCHANGED <<streaming, deadlinePassed, clientGone, loopVars,
                   timerCancelled, slot, upstreamOpen, arrived, semantic,
                   tokens, handled, err, outVars>>

CommitLost ==
    /\ phase = "commit"
    /\ budget # "open"
    /\ FailAttemptWithBudget

\* writeChunk, and [DONE] after the chunk that finishes the choice.
WriteChunk ==
    /\ phase = "write"
    /\ response' = [status |-> 200,
                    sources |-> response.sources \cup {current},
                    ending |-> IF arrived.kind = "finish" THEN "done" ELSE response.ending]
    /\ IF arrived.kind = "finish"
       THEN RouteSuccess /\ ReturnFromAttempt(TRUE, NoError)
       ELSE phase' = "next" /\ UNCHANGED <<handled, err, verdict>>
    /\ UNCHANGED <<streaming, deadlinePassed, clientGone, loopVars, budget,
                   timerCancelled, slot, upstreamOpen, arrived, committed,
                   semantic, tokens, collector, usageLog, called>>

\* The buffered response in one piece; it does not ask the budget again.
Respond ==
    /\ phase = "respond"
    /\ response' = [status |-> 200, sources |-> response.sources \cup {current},
                    ending |-> "done"]
    /\ committed' = TRUE
    /\ RouteSuccess
    /\ ReturnFromAttempt(TRUE, NoError)
    /\ UNCHANGED <<streaming, deadlinePassed, clientGone, loopVars, budget,
                   timerCancelled, slot, upstreamOpen, arrived, semantic,
                   tokens, collector, usageLog, called>>

\* Faulty variant: the tokens of an attempt that was never committed count.
RecordedAnyTokens ==
    [attempts |-> Append(collector.attempts,
                         [route |-> current, committed |-> committed, err |-> err]),
     finalRoute |-> IF committed THEN current ELSE collector.finalRoute,
     tokens |-> IF tokens THEN current ELSE collector.tokens,
     result |-> CASE err = NoError -> "success"
                  [] err # NoError /\ IsRequestCanceled(clientGone, err) -> "canceled"
                  [] OTHER -> IF committed THEN "partial" ELSE "failure"]

\* usageCollector.record for the attempt that just returned.
Recorded ==
    [attempts |-> Append(collector.attempts,
                         [route |-> current, committed |-> committed, err |-> err]),
     finalRoute |-> IF committed THEN current ELSE collector.finalRoute,
     tokens |-> IF committed /\ tokens THEN current ELSE collector.tokens,
     result |-> CASE err = NoError -> "success"
                  [] err # NoError /\ IsRequestCanceled(clientGone, err) -> "canceled"
                  [] err # NoError /\ ~IsRequestCanceled(clientGone, err) /\ committed -> "partial"
                  [] OTHER -> IF collector.result \in {"", "success"} THEN "failure"
                              ELSE collector.result]

\* Faulty variant: the slot is not released.
CloseAttemptKeepsSlot ==
    /\ collector' = Recorded
    /\ upstreamOpen' = FALSE
    /\ budget' = "none"
    /\ timerCancelled' = FALSE
    /\ arrived' = Event("heartbeat", FALSE)
    /\ committed' = FALSE
    /\ semantic' = FALSE
    /\ tokens' = FALSE
    /\ handled' = FALSE
    /\ err' = NoError
    /\ UNCHANGED slot

\* The deferred stream.Close, release and record of the attempt, then
\* budget.Close; the attempt's locals go out of scope.
CloseAttempt ==
    /\ collector' = Recorded
    /\ slot' = NoProvider
    /\ upstreamOpen' = FALSE
    /\ budget' = "none"
    /\ timerCancelled' = FALSE
    /\ arrived' = Event("heartbeat", FALSE)
    /\ committed' = FALSE
    /\ semantic' = FALSE
    /\ tokens' = FALSE
    /\ handled' = FALSE
    /\ err' = NoError

\* ... and the decision of the loop.
EndAttempt ==
    /\ phase = "end"
    /\ CloseAttempt
    /\ IF handled
       THEN phase' = "return" /\ UNCHANGED <<lastErr, action>>
       ELSE /\ lastErr' = err
            /\ action' = FallbackAction(err)
            /\ phase' = IF FallbackAction(err) = "Stop" THEN "finish" ELSE "loop"
    /\ UNCHANGED <<streaming, deadlinePassed, clientGone, candidates, attempted,
                   attempt, current, usageLog, response, called, verdict>>

----------------------------------------------------------------------------
(* The environment of the handler. *)

DeadlinePasses ==
    /\ phase \notin {"idle", "resolve", "done"}
    /\ ~deadlinePassed
    /\ deadlinePassed' = TRUE
    /\ UNCHANGED <<phase, streaming, clientGone, loopVars, attemptVars, outVars>>

\* Faulty variant: the callback does not cancel the context.
TimerNeverCancels == FALSE /\ UNCHANGED vars

\* The timer's callback: first the compare-and-swap ...
TimerExpires ==
    /\ deadlinePassed
    /\ budget = "open"
    /\ budget' = "expired"
    /\ UNCHANGED <<phase, streaming, deadlinePassed, clientGone, loopVars,
                   timerCancelled, slot, upstreamOpen, arrived, committed,
                   semantic, tokens, handled, err, outVars>>

\* ... and only its winner cancels the attempt's context.
TimerCancels ==
    /\ Expired
    /\ ~timerCancelled
    /\ timerCancelled' = TRUE
    /\ UNCHANGED <<phase, streaming, deadlinePassed, clientGone, loopVars, budget,
                   slot, upstreamOpen, arrived, committed, semantic, tokens,
                   handled, err, outVars>>

ClientLeaves ==
    /\ phase \notin {"idle", "done"}
    /\ ~clientGone
    /\ clientGone' = TRUE
    /\ UNCHANGED <<phase, streaming, deadlinePassed, loopVars, attemptVars, outVars>>

Terminated ==
    /\ phase = "done"
    /\ UNCHANGED vars

\* Steps the handler's goroutine takes by itself.
HandlerStep ==
    \/ AcceptBody \/ RefuseRequest \/ ResolveCandidates
    \/ LoopCanceled \/ LoopExhausted
    \/ \E r \in Route : StartAttempt(r)
    \/ SlotRefused \/ EventTooLate \/ EndOfStream \/ StreamBroke \/ Heartbeat
    \/ SemanticEvent \/ Commit \/ CommitLost \/ WriteChunk \/ Respond
    \/ EndAttempt \/ Finish \/ RecordUsage

\* Steps that need an answer from outside.
UpstreamStep ==
    \/ AcquireSlot
    \/ UpstreamAccepts \/ UpstreamRefuses \/ NilStream
    \/ \E ev \in UpstreamEvents : NextReturns(ev)

Next ==
    \/ RefuseBody
    \/ HandlerStep
    \/ UpstreamStep
    \/ DeadlinePasses \/ TimerExpires \/ TimerCancels
    \/ ClientLeaves
    \/ Terminated

Spec == Init /\ [][Next]_vars

(***************************************************************************)
(* Fairness: the goroutine runs, time passes and the timer fires.  Of the  *)
(* upstream only what the HTTP client and the providers' Next guarantee is *)
(* assumed: a call whose context is done returns its error, if not at once *)
(* then after an event that was already on its way (hence SF).  Nothing    *)
(* makes a live upstream answer, a slot become free or a client leave.     *)
(***************************************************************************)
UpstreamGivesUp ==
    /\ CtxDone
    /\ UpstreamRefuses \/ NextReturns(Broken(Plain("canceled")))

Fairness ==
    /\ WF_vars(HandlerStep)
    /\ SF_vars(UpstreamGivesUp)
    /\ WF_vars(DeadlinePasses)
    /\ WF_vars(TimerExpires)
    /\ WF_vars(TimerCancels)

FairSpec == Spec /\ Fairness

----------------------------------------------------------------------------
(* Properties. *)

\* Every variable has its type (the struct and map types of attempt.go).
TypeOK ==
    /\ phase \in Phase
    /\ streaming \in BOOLEAN
    /\ candidates \in Seq(Candidate)
    /\ attempted \in SUBSET Route
    /\ attempt \in 0..MaxAttempts
    /\ current \in Route \cup {NoRoute}
    /\ action \in FailureAction
    /\ lastErr \in Error \cup {NoError}
    /\ deadlinePassed \in BOOLEAN
    /\ budget \in BudgetState
    /\ timerCancelled \in BOOLEAN
    /\ clientGone \in BOOLEAN
    /\ slot \in Provider \cup {NoProvider}
    /\ upstreamOpen \in BOOLEAN
    /\ arrived \in StreamEvent
    /\ committed \in BOOLEAN
    /\ semantic \in BOOLEAN
    /\ tokens \in BOOLEAN
    /\ handled \in BOOLEAN
    /\ err \in Error \cup {NoError}
    /\ collector \in UsageRecord
    /\ usageLog \in Seq(UsageRecord)
    /\ response \in Response
    /\ called \in SUBSET Route
    /\ verdict \in [Route -> Verdict]

\* The streams of two routes are never mixed in one answer, and what has been
\* forwarded came from the attempt that is still running or was the last one
\* (the commit guard of runStreamingAttempt, the handled result of ChatHandler).
OneSource ==
    response.sources \subseteq {current}

\* Once a byte of the answer is written no further route is attempted, the
\* status line stays, and a finished answer is never written to again
\* (Commit's "failover is forbidden", ChatHandler's return on handled).
AnswerIsFinal ==
    [][ /\ response.status # 0 => attempt' = attempt /\ response'.status = response.status
        /\ response.ending # "open" => response' = response ]_vars

\* An empty answer is only ever left to a client that is gone
\* (writeUpstreamError skips canceled failures: "Client is gone; nothing to
\* write"), however the deadline and the upstream's cancellation race.
SilenceMeansGone ==
    phase = "done" /\ response.status = 0 => clientGone

\* The deadline never cuts a stream that has been committed: its attempt
\* context stays alive and its budget stays committed (attemptBudget.Commit).
CommittedOutlivesDeadline ==
    streaming /\ committed => budget = "committed" /\ ~timerCancelled

\* However upstream events, the deadline and a leaving client interleave, the
\* client is answered by one route or has gone: ChatHandler with its budget.
AnswerIsSound == OneSource /\ SilenceMeansGone /\ CommittedOutlivesDeadline

\* A route is attempted at most once per request, at most MaxAttempts of them
\* are, and every attempt leaves exactly one attempt record, in order
\* (nextAttemptCandidate, the loop bound, the deferred record).
AttemptsAreRecordedOnce ==
    LET done == IF phase \in AttemptPhase THEN attempt - 1 ELSE attempt
    IN  /\ Len(collector.attempts) = done
        /\ attempt <= MaxAttempts
        /\ \A i, j \in 1..done :
              collector.attempts[i].route = collector.attempts[j].route => i = j
        /\ {collector.attempts[i].route : i \in 1..done}
              = IF phase \in AttemptPhase THEN attempted \ {current} ELSE attempted

\* Between attempts and after the last nothing is held: no concurrency slot,
\* no upstream stream, no armed timer (the deferred release and Close), and
\* an upstream stream is only open while its provider's slot is held.
NothingLeaks ==
    /\ phase \notin AttemptPhase => NoAttempt
    /\ upstreamOpen => slot = ProviderOf[current]

\* A request the upstream calls malformed is not sent to another route: a
\* request-scoped failure is always the last attempt (DecideFailureAction).
RequestFaultIsFinal ==
    \A i \in 1..Len(collector.attempts) :
        /\ collector.attempts[i].err # NoError
        /\ ClassifiedFailure(collector.attempts[i].err).scope = "Request"
        => i = attempt

\* A route of unknown access, kept as an alternate of its model's other routes.
FallbackOnly(r) ==
    \E i \in DOMAIN candidates : candidates[i].route = r /\ candidates[i].fallbackOnly

\* A fallback-only route (unknown access) is only used right after a failed
\* attempt on another route of the same model (nextAttemptCandidate).
UnknownAccessIsFallback ==
    \A i \in 1..Len(collector.attempts) :
        FallbackOnly(collector.attempts[i].route) =>
            /\ i > 1
            /\ ModelOf[collector.attempts[i-1].route] = ModelOf[collector.attempts[i].route]

\* What the failure of one attempt leaves to the one right after it.
Permits(failed, r) ==
    LET asked == FallbackAction(failed.err)
    IN  /\ asked # "Stop"
        /\ asked = "NextModel" => ModelOf[r] # ModelOf[failed.route]
        /\ asked = "DisableCredential" => CredentialKey(r) # CredentialKey(failed.route)
        /\ asked = "CooldownProvider" => ProviderOf[r] # ProviderOf[failed.route]

\* A failure that asks for another route leaves attempt i to a route r of its
\* model, as long as one of them has not been asked.
KeepsModel(i, r) ==
    LET failed == collector.attempts[i - 1]
        asked == {collector.attempts[j].route : j \in 1..(i - 1)}
    IN  FallbackAction(failed.err) = "NextRoute" =>
            \/ ModelOf[r] = ModelOf[failed.route]
            \/ \A k \in DOMAIN candidates :
                  ModelOf[candidates[k].route] = ModelOf[failed.route]
                      => candidates[k].route \in asked

\* Each recorded failure decided where the very next attempt went: off its
\* model, its credential or its provider, or to the rest of its model first
\* (fallbackDecision, kept in a variable of ChatHandler's loop until
\* nextAttemptCandidate reads it).
FailuresSteer ==
    \A i \in 2..Len(collector.attempts) :
        /\ Permits(collector.attempts[i - 1], collector.attempts[i].route)
        /\ KeepsModel(i, collector.attempts[i].route)

\* A request's own fault is its last attempt, alternates of unknown access only
\* follow routes of their model, and every attempt is where the failure right
\* before it sends it.  Only that failure counts: a model or a credential that
\* an earlier one ruled out may come back (nextAttemptCandidate compares with
\* `previous` alone; FailedCredentialExcluded and FailedModelExcluded fail).
NextFollowsFailure == RequestFaultIsFinal /\ UnknownAccessIsFallback /\ FailuresSteer

\* The record u is true of what has been written to the client.
TellsAnswer(u) ==
    /\ u.result = "success" <=> response.sources # {} /\ response.ending = "done"
    /\ u.result = "partial" => response.ending = "error"
    /\ u.result = "canceled" => clientGone
    /\ response.sources = IF u.finalRoute = NoRoute THEN {} ELSE {u.finalRoute}
    /\ u.tokens \in {NoRoute, u.finalRoute}

\* The usage log says what the client saw: one record for the request, success
\* exactly for an answer a route completed, partial only for one that was cut
\* short, the final route and its tokens exactly those that were forwarded
\* (usageCollector.record against the writes of the attempts).
UsageMatchesAnswer ==
    phase = "done" /\ usageLog # <<>> =>
        Len(usageLog) = 1 /\ TellsAnswer(usageLog[1])

\* The record tells every attempt, once, and the answer the client received
\* (usageCollector, attempt by attempt and in its deferred record).
UsageIsTrue == AttemptsAreRecordedOnce /\ UsageMatchesAnswer

\* Health learns the truth: a route is marked failed only if an upstream
\* request was sent to it (waiting for a slot is not its fault) and marked
\* working only if its answer was completed (recordAttemptFailure, RouteSuccess).
VerdictsAreEarned ==
    \A r \in Route :
        /\ verdict[r] # "none" => r \in called
        /\ verdict[r] = "ok" => response.sources = {r} /\ response.ending = "done"

\* After the client is gone no route is marked failed any more
\* (shouldRecordRouteFailure), whatever error its attempt ends with.
GoneClientBlamesNoRoute ==
    [][ clientGone => \A r \in Route : verdict'[r] = "fail" => verdict[r] = "fail" ]_vars

\* Every accepted request gets an answer or is given up: stalled upstreams and
\* full providers are cut by the deadline as long as nothing is committed.
EventuallyDecided ==
    phase = "resolve" ~> (response.status # 0 \/ phase = "done")

\* A client that leaves frees the handler, even in the middle of a stream.
GoneClientEndsRequest ==
    clientGone ~> phase = "done"

\* The deadline and the client's context between them always free the handler
\* of a request nothing is said to (attemptBudget, the request's context).
RequestEnds == EventuallyDecided /\ GoneClientEndsRequest

Answer == INSTANCE ClientAnswer WITH
    Source <- Route, answer <- response, gone <- clientGone, over <- (phase = "done")

\* ChatHandler keeps the promise of ClientAnswer: one source, begun once,
\* ended once, an answer for every client that stays.
KeepsAnswerPromise == Answer!Spec

\* PLAN_V7.2 says of a credential failure that candidates with the same
\* credential are excluded: no later attempt of the request may use it.
FailedCredentialExcluded ==
    \A i, j \in 1..Len(collector.attempts) :
        i < j /\ collector.attempts[i].err # NoError
              /\ FallbackAction(collector.attempts[i].err) = "DisableCredential"
        => CredentialKey(collector.attempts[j].route)
             # CredentialKey(collector.attempts[i].route)

\* It says of a 400 or a malformed response that its model is not retried: no
\* later attempt of the request may be at that model.
FailedModelExcluded ==
    \A i, j \in 1..Len(collector.attempts) :
        i < j /\ collector.attempts[i].err # NoError
              /\ FallbackAction(collector.attempts[i].err) = "NextModel"
        => ModelOf[collector.attempts[j].route] # ModelOf[collector.attempts[i].route]

----------------------------------------------------------------------------
(***************************************************************************)
(* The inductive invariant behind the safety properties: what holds of the *)
(* attempt, the commit, the answer and the errors at every step.           *)
(***************************************************************************)

\* An attempt exists exactly while the handler is inside one; it has a result
\* only when it has returned, and a broken stream has an error.
AttemptShape ==
    /\ phase \notin AttemptPhase => NoAttempt
    /\ phase \in AttemptPhase => current \in Route /\ budget # "none"
    /\ phase \in AttemptPhase \ {"end"} => ~handled /\ err = NoError
    /\ phase = "end" => handled \/ err \in Error
    /\ arrived.kind = "error" => arrived.err # NoError

\* Commit and the deadline exclude each other; only streams commit early.
CommitShape ==
    /\ phase \in {"acquire", "call", "commit", "respond"} => ~committed
    /\ phase = "commit" => streaming /\ arrived.kind \in {"delta", "finish"}
    /\ phase = "write" => streaming /\ committed
    /\ phase = "respond" => ~streaming
    /\ committed /\ phase # "end" => streaming
    /\ streaming /\ committed => budget = "committed" /\ ~timerCancelled
    /\ timerCancelled => budget = "expired"

\* The first content of the running stream.
Forwarding == [status |-> 200, sources |-> {current}, ending |-> "open"]

\* What the client has received at each step.
AnswerShape ==
    /\ phase \in {"idle", "resolve", "loop", "acquire", "call", "commit", "respond", "finish"}
         => response = NothingWritten
    /\ phase \in {"next", "event"}
         => response = IF committed THEN Forwarding ELSE NothingWritten
    /\ phase = "write" => response \in {NothingWritten, Forwarding}
    /\ phase = "end" =>
         IF handled THEN /\ committed
                         /\ response.status = 200
                         /\ response.sources = {current}
                         /\ response.ending = "open" => clientGone
                    ELSE response = NothingWritten
    /\ phase \in {"return", "done"} =>
         /\ response.sources \subseteq {current}
         /\ response.ending = "open" => clientGone
         /\ response.status = 0 => response = NothingWritten

\* A canceled failure that nothing is answered to is the client's doing.
CancelShape ==
    /\ phase = "event" /\ IsRequestCanceled(FALSE, arrived.err) => CtxDone
    /\ phase = "end" /\ UpstreamErrorStatus(err) = 0 => handled \/ clientGone
    /\ /\ phase \in {"idle", "resolve", "loop", "finish"}
       /\ UpstreamErrorStatus(lastErr) = 0
       => clientGone

IInv == TypeOK /\ AttemptShape /\ CommitShape /\ AnswerShape /\ CancelShape

(***************************************************************************)
(* What the request holds, what it tells the health manager and what it    *)
(* records: each of these is inductive on top of IInv, the fourth also on  *)
(* the third.                                                              *)
(***************************************************************************)

\* The upstream is only called with its provider's slot in hand.
HoldShape ==
    /\ phase = "acquire" => ~upstreamOpen
    /\ phase = "call" => slot = ProviderOf[current]
    /\ NothingLeaks

\* Once an answer is awaited, a request was sent.
VerdictShape ==
    /\ phase \in {"next", "event", "commit", "write", "respond"} => current \in called
    /\ VerdictsAreEarned

\* The running attempt is counted and not recorded yet.
RecordShape ==
    /\ phase \in AttemptPhase => attempt > 0 /\ current \in attempted
    /\ AttemptsAreRecordedOnce

\* The choice of the next attempt: the candidates have their form, the loop
\* knows the last attempt and what its failure asks for, no failure so far has
\* ended the request, and an attempt is running only where the one before it
\* permits: an alternate only after a route of its model.
ChoiceShape ==
    /\ InCandidateListForm(candidates)
    /\ phase \in {"idle", "resolve"} => attempt = 0
    /\ attempt = 0 <=> current = NoRoute
    /\ phase = "loop" /\ attempt > 0 => collector.attempts[attempt].route = current
    /\ phase \in AttemptPhase \cup {"loop"} =>
          \A i \in 1..Len(collector.attempts) :
              \/ collector.attempts[i].err = NoError
              \/ ClassifiedFailure(collector.attempts[i].err).scope # "Request"
    /\ phase \in AttemptPhase /\ FallbackOnly(current) =>
          /\ attempt > 1
          /\ ModelOf[collector.attempts[attempt - 1].route] = ModelOf[current]
    /\ phase = "loop" /\ attempt > 0 => action = FallbackAction(collector.attempts[attempt].err)
    /\ phase \in AttemptPhase /\ attempt > 1 =>
          /\ Permits(collector.attempts[attempt - 1], current)
          /\ KeepsModel(attempt, current)
    /\ NextFollowsFailure

\* The collector knows nothing of an answer before the handler returns, and the
\* attempt that ends the request says how its answer ended.
UsageShape ==
    /\ phase # "done" => usageLog = <<>>
    /\ collector.result = "canceled" => clientGone
    /\ phase \notin {"return", "done"} =>
          /\ collector.finalRoute = NoRoute /\ collector.tokens = NoRoute
          /\ collector.result \notin {"success", "partial"}
    /\ phase = "end" =>
          /\ handled = committed
          /\ IsRequestCanceled(FALSE, err) => clientGone
          /\ handled => (err = NoError <=> response.ending = "done")
          /\ handled /\ err # NoError /\ ~clientGone => response.ending = "error"
    /\ phase = "return" => TellsAnswer(collector)
    /\ UsageMatchesAnswer
============================================================================
