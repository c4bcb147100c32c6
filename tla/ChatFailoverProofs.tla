------------------------ MODULE ChatFailoverProofs -------------------------
(***************************************************************************)
(* For every set of routes, every candidate list, every number of attempts *)
(* and every upstream: the variables of a chat request keep their types,   *)
(* its answer comes from one route and is final, silence is only left to a *)
(* client that is gone, the deadline never cuts a committed stream, and    *)
(* the request implements the promise of ClientAnswer.  On top of that: an *)
(* attempt holds nothing when it has ended, health is told the truth, only *)
(* allowed alternates are tried, and the usage record is true.             *)
(***************************************************************************)
EXTENDS ChatFailover, TLAPS

----------------------------------------------------------------------------
(* The failure policy: every decision is a known action, every answer status *)
(* a known status, and the next candidate keeps the bounds the action sets.  *)

\* A classified, a plain and the absent error are told apart (errors.As).
LEMMA ErrorForms ==
    /\ \A e \in Error : /\ e.kind \in PlainKind \cup {"failure"}
                        /\ e.failure \in Failure
                        /\ e # NoError
    /\ FailoverBudgetError \in Error
    /\ \A k \in PlainKind : Plain(k) \in Error
    /\ \A c \in FailureClass, s \in FailureScope : FailureError(NewFailure(c, s)) \in Error
  <1>1. ASSUME NEW e \in Error
        PROVE  e.kind \in PlainKind \cup {"failure"} /\ e.failure \in Failure /\ e.kind # "nil"
    <2>1. CASE e \in {FailureError(f) : f \in Failure}
      <3>1. PICK f \in Failure : e = FailureError(f)
        BY <2>1
      <3>2. QED
        BY <3>1 DEF FailureError
    <2>2. CASE e \in {Plain(k) : k \in PlainKind}
      <3>1. PICK k \in PlainKind : e = Plain(k)
        BY <2>2
      <3>2. e.kind = k /\ e.failure = NewFailure("Unknown", "Request")
        BY <3>1 DEF Plain
      <3>3. QED
        BY <3>2 DEF PlainKind, NewFailure, Failure, FailureClass, FailureScope
    <2>3. QED
      BY <1>1, <2>1, <2>2 DEF Error
  <1>2. \A k \in PlainKind : Plain(k) \in Error
    BY Zenon DEF Error
  <1>3. \A f \in Failure : FailureError(f) \in Error
    BY Zenon DEF Error
  <1>4. \A c \in FailureClass, s \in FailureScope : NewFailure(c, s) \in Failure
    BY DEF NewFailure, Failure
  <1>5. FailoverBudgetError \in Error
    <2>1. "Timeout" \in FailureClass /\ "Route" \in FailureScope
      BY DEF FailureClass, FailureScope
    <2>2. QED
      BY <1>3, <1>4, <2>1 DEF FailoverBudgetError
  <1>6. NoError.kind = "nil"
    BY DEF NoError
  <1>7. QED
    BY <1>1, <1>2, <1>3, <1>4, <1>5, <1>6, Zenon

\* fallbackDecision classifies every error and asks for a known action.
LEMMA DecisionType ==
    ASSUME NEW e \in Error
    PROVE  ClassifiedFailure(e) \in Failure /\ FallbackAction(e) \in FailureAction
  <1>1. e.kind \in PlainKind \cup {"failure"} /\ e.failure \in Failure
    BY ErrorForms
  <1>2. ClassifiedFailure(e) \in Failure
    BY <1>1 DEF ClassifiedFailure, NewFailure, Failure, FailureClass, FailureScope, PlainKind
  <1>3. \A f \in Failure : DecideFailureAction(f) \in FailureAction
    BY DEF DecideFailureAction, FailureAction, Failure, FailureClass
  <1>4. QED
    BY <1>2, <1>3 DEF FallbackAction, FailureAction

\* writeUpstreamError answers with a known status, and is silent only about a
\* canceled failure.
LEMMA AnswerStatus ==
    ASSUME NEW e \in Error
    PROVE  /\ UpstreamErrorStatus(e) \in {0, 400, 429, 502}
           /\ UpstreamErrorStatus(e) = 0 => IsRequestCanceled(FALSE, e)
  BY ErrorForms DEF UpstreamErrorStatus, HTTPStatus, IsRequestCanceled, PlainKind

\* The next attempt is on a route of the list that was not attempted yet.
LEMMA NextCandidateIsFresh ==
    ASSUME NEW cands \in Seq(Candidate), NEW tried, NEW previous, NEW decision,
           NEW r, IsNextCandidate(r, cands, tried, previous, decision)
    PROVE  r \in Route /\ r \notin tried
  <1>1. PICK i \in PreferredIndices(cands, tried, previous, decision) : r = cands[i].route
    BY DEF IsNextCandidate
  <1>2. i \in EligibleIndices(cands, tried, previous, decision)
    BY <1>1 DEF PreferredIndices
  <1>3. i \in DOMAIN cands /\ cands[i].route \notin tried
    BY <1>2 DEF EligibleIndices, Acceptable
  <1>4. cands[i] \in Candidate
    BY <1>3
  <1>5. QED
    BY <1>1, <1>3, <1>4 DEF Candidate

\* A failure that asks for another attempt is not the request's own fault.
LEMMA RequestFaultStops ==
    ASSUME NEW e \in Error, FallbackAction(e) # "Stop"
    PROVE  ClassifiedFailure(e).scope # "Request"
  BY DEF FallbackAction, DecideFailureAction

\* An alternate of unknown access is only chosen after an attempt on a route of
\* its model.
LEMMA AlternateFollowsItsModel ==
    ASSUME NEW cands, InCandidateListForm(cands), NEW tried, NEW previous, NEW decision,
           NEW r, IsNextCandidate(r, cands, tried, previous, decision),
           NEW k \in DOMAIN cands, cands[k].route = r, cands[k].fallbackOnly
    PROVE  previous # NoRoute /\ ModelOf[r] = ModelOf[previous]
  <1>1. PICK i \in PreferredIndices(cands, tried, previous, decision) : r = cands[i].route
    BY DEF IsNextCandidate
  <1>2. i \in EligibleIndices(cands, tried, previous, decision)
    BY <1>1 DEF PreferredIndices
  <1>3. i \in DOMAIN cands
    BY <1>2 DEF EligibleIndices
  <1>4. cands[i].fallbackOnly
    BY <1>1, <1>3 DEF InCandidateListForm
  <1>5. previous # NoRoute
    BY <1>2, <1>4 DEF EligibleIndices
  <1>6. Acceptable(cands[i], tried, previous, decision)
    BY <1>2, <1>5 DEF EligibleIndices
  <1>7. QED
    BY <1>1, <1>4, <1>5, <1>6 DEF Acceptable

\* A failure that asks for another route is followed by one of its model, while
\* one is left.
LEMMA NextKeepsModel ==
    ASSUME NEW failed \in AttemptRecord, NEW cands, NEW tried, NEW r,
           IsNextCandidate(r, cands, tried, failed.route, "NextRoute")
    PROVE  \/ ModelOf[r] = ModelOf[failed.route]
           \/ \A k \in DOMAIN cands :
                 ModelOf[cands[k].route] = ModelOf[failed.route] => cands[k].route \in tried
  <1> DEFINE eligible == EligibleIndices(cands, tried, failed.route, "NextRoute")
             sameModel == {i \in eligible :
                             /\ failed.route # NoRoute
                             /\ ModelOf[cands[i].route] = ModelOf[failed.route]}
  <1> SUFFICES ASSUME NEW k \in DOMAIN cands, cands[k].route \notin tried,
                      ModelOf[cands[k].route] = ModelOf[failed.route]
               PROVE  ModelOf[r] = ModelOf[failed.route]
    OBVIOUS
  <1>1. failed.route # NoRoute
    BY NoRouteAssumption DEF AttemptRecord
  <1>2. k \in eligible
    BY <1>1 DEF EligibleIndices, Acceptable
  <1> HIDE DEF eligible
  <1>3. k \in sameModel
    BY <1>1, <1>2
  <1>4. PreferredIndices(cands, tried, failed.route, "NextRoute") = sameModel
    BY <1>3 DEF PreferredIndices, eligible
  <1>5. PICK i \in sameModel : r = cands[i].route
    BY <1>4 DEF IsNextCandidate
  <1>6. QED
    BY <1>5

\* The next attempt keeps off what the failed one has ruled out.
LEMMA NextIsPermitted ==
    ASSUME NEW failed \in AttemptRecord, NEW cands, NEW tried, NEW r,
           IsNextCandidate(r, cands, tried, failed.route, FallbackAction(failed.err))
    PROVE  Permits(failed, r)
  <1> DEFINE asked == FallbackAction(failed.err)
  <1>1. PICK i \in PreferredIndices(cands, tried, failed.route, asked) : r = cands[i].route
    BY DEF IsNextCandidate
  <1>2. i \in EligibleIndices(cands, tried, failed.route, asked)
    BY <1>1 DEF PreferredIndices
  <1>3. failed.route # NoRoute
    BY NoRouteAssumption DEF AttemptRecord
  <1> HIDE DEF asked
  <1>4. Acceptable(cands[i], tried, failed.route, asked)
    BY <1>2, <1>3 DEF EligibleIndices
  <1>5. QED
    BY <1>1, <1>4 DEF Acceptable, Permits, asked

----------------------------------------------------------------------------
(* What the handler meets. *)

USE DEF Phase, AttemptPhase

----------------------------------------------------------------------------
(* Types. *)

\* Whatever the upstream answers is an event with a known error.
LEMMA EnvironmentType ==
    /\ PossibleErrors \subseteq Error
    /\ UpstreamEvents \subseteq StreamEvent
    /\ Event("heartbeat", FALSE) \in StreamEvent
  <1>1. PossibleErrors \subseteq Error
    <2>1. "canceled" \in PlainKind /\ "Canceled" \in FailureClass /\ "Request" \in FailureScope
      BY DEF PlainKind, FailureClass, FailureScope
    <2>2. Plain("canceled") \in Error /\ FailureError(NewFailure("Canceled", "Request")) \in Error
      BY <2>1, ErrorForms, Zenon
    <2>3. QED
      BY <2>2, ConstantsAssumption DEF PossibleErrors
  <1>2. ASSUME NEW e \in PossibleErrors
        PROVE  Broken(e) \in StreamEvent
    BY <1>1 DEF Broken, StreamEvent, EventKind
  <1>3. Event("eof", FALSE) \in StreamEvent /\ Event("heartbeat", FALSE) \in StreamEvent
    BY DEF Event, StreamEvent, EventKind
  <1>4. [kind : {"heartbeat", "delta", "finish"}, usage : BOOLEAN, err : {NoError}]
          \subseteq StreamEvent
    BY DEF StreamEvent, EventKind
  <1>5. QED
    BY <1>1, <1>2, <1>3, <1>4 DEF UpstreamEvents

\* A protocol failure and a bare cancellation are errors.
LEMMA LocalErrors ==
    /\ FailureError(NewFailure("Protocol", "Route")) \in Error
    /\ Plain("canceled") \in Error
  <1>1. "Protocol" \in FailureClass /\ "Route" \in FailureScope /\ "canceled" \in PlainKind
    BY DEF PlainKind, FailureClass, FailureScope
  <1>2. QED
    BY <1>1, ErrorForms, Zenon

\* Only a done context makes the upstream answer with a cancellation, and only
\* a cancellation the upstream reported is left unanswered.
LEMMA Cancellations ==
    /\ UpstreamErrorStatus(FailoverBudgetError) # 0
    /\ UpstreamErrorStatus(Plain("canceled")) # 0
    /\ UpstreamErrorStatus(FailureError(NewFailure("Protocol", "Route"))) # 0
    /\ UpstreamErrorStatus(NoError) # 0
    /\ \A e \in PossibleErrors : IsRequestCanceled(FALSE, e) => CtxDone
    /\ \A ev \in UpstreamEvents : /\ IsRequestCanceled(FALSE, ev.err) => CtxDone
                                  /\ ev.kind = "error" => ev.err # NoError
  <1>1. UpstreamErrorStatus(FailoverBudgetError) # 0
    BY DEF UpstreamErrorStatus, FailoverBudgetError, FailureError, NewFailure, HTTPStatus
  <1>2. UpstreamErrorStatus(Plain("canceled")) # 0
    BY DEF UpstreamErrorStatus, Plain
  <1>3. UpstreamErrorStatus(FailureError(NewFailure("Protocol", "Route"))) # 0
    BY DEF UpstreamErrorStatus, FailureError, NewFailure, HTTPStatus
  <1>4. UpstreamErrorStatus(NoError) # 0 /\ ~IsRequestCanceled(FALSE, NoError)
    BY DEF UpstreamErrorStatus, NoError, IsRequestCanceled
  <1>5. ASSUME NEW e \in PossibleErrors, IsRequestCanceled(FALSE, e) PROVE CtxDone
    BY <1>5, ConstantsAssumption DEF PossibleErrors
  <1>6. ASSUME NEW ev \in UpstreamEvents
        PROVE  /\ IsRequestCanceled(FALSE, ev.err) => CtxDone
               /\ ev.kind = "error" => ev.err # NoError
    <2>1. CASE ev \in {Broken(e) : e \in PossibleErrors}
      <3>1. PICK e \in PossibleErrors : ev = Broken(e)
        BY <2>1, Zenon
      <3>2. ev.err = e /\ e # NoError
        BY <3>1, EnvironmentType, ErrorForms DEF Broken
      <3>3. QED
        BY <1>5, <3>2
    <2>2. CASE ev \in {Event("eof", FALSE)}
      <3>1. ev.err = NoError /\ ev.kind = "eof"
        BY <2>2 DEF Event
      <3>2. QED
        BY <1>4, <3>1
    <2>3. CASE ev \in [kind : {"heartbeat", "delta", "finish"}, usage : BOOLEAN, err : {NoError}]
      BY <1>4, <2>3
    <2>4. QED
      BY <2>1, <2>2, <2>3, Zenon DEF UpstreamEvents
  <1>7. QED
    BY <1>1, <1>2, <1>3, <1>4, <1>5, <1>6

\* The request's initial state, before its body is read, has its types.
LEMMA InitType == Init => TypeOK
  <1> SUFFICES ASSUME Init PROVE TypeOK
    OBVIOUS
  <1>1. collector \in UsageRecord
    <2>1. <<>> \in Seq(AttemptRecord)
      OBVIOUS
    <2>2. NewCollector \in UsageRecord
      BY <2>1 DEF NewCollector, UsageRecord, Result
    <2>3. QED
      BY <2>2 DEF Init
  <1>2. response \in Response
    BY DEF Init, NothingWritten, Response, Status, Ending
  <1>3. attempt \in 0..MaxAttempts
    BY ConstantsAssumption DEF Init
  <1>4. verdict \in [Route -> Verdict]
    BY DEF Init, Verdict
  <1>5. action \in FailureAction /\ budget \in BudgetState
    BY DEF Init, NoAttempt, FailureAction, BudgetState
  <1>6. candidates \in Seq(Candidate) /\ usageLog \in Seq(UsageRecord)
    BY DEF Init
  <1>7. /\ phase \in Phase /\ streaming \in BOOLEAN /\ attempted \in SUBSET Route
        /\ current \in Route \cup {NoRoute} /\ lastErr \in Error \cup {NoError}
        /\ deadlinePassed \in BOOLEAN /\ clientGone \in BOOLEAN /\ called \in SUBSET Route
    BY DEF Init
  <1>8. /\ timerCancelled \in BOOLEAN /\ slot \in Provider \cup {NoProvider}
        /\ upstreamOpen \in BOOLEAN /\ arrived \in StreamEvent /\ committed \in BOOLEAN
        /\ semantic \in BOOLEAN /\ tokens \in BOOLEAN /\ handled \in BOOLEAN
        /\ err \in Error \cup {NoError}
    BY EnvironmentType DEF Init, NoAttempt
  <1>9. QED
    BY <1>1, <1>2, <1>3, <1>4, <1>5, <1>6, <1>7, <1>8 DEF TypeOK

\* An answer with one status line is an answer.
LEMMA WriteErrorType ==
    ASSUME response \in Response, NEW status \in Status, WriteError(status)
    PROVE  response' \in Response
  BY DEF Response, WriteError, Ending

\* The loop of ChatHandler keeps the types.
LEMMA LoopType ==
    ASSUME TypeOK,
           \/ RefuseBody \/ AcceptBody \/ RefuseRequest \/ ResolveCandidates
           \/ LoopCanceled \/ LoopExhausted \/ (\E r \in Route : StartAttempt(r))
           \/ Finish \/ RecordUsage
    PROVE  TypeOK'
  <1> USE ConstantsAssumption DEF TypeOK, loopVars, attemptVars, outVars
  <1> USE DEF Status
  <1>1. CASE RefuseBody
    <2>1. response' \in Response
      BY <1>1, WriteErrorType DEF RefuseBody
    <2>2. QED
      BY <1>1, <2>1 DEF RefuseBody
  <1>2. CASE AcceptBody
    BY <1>2 DEF AcceptBody
  <1>3. CASE RefuseRequest
    <2>1. response' \in Response
      BY <1>3, WriteErrorType DEF RefuseRequest
    <2>2. QED
      BY <1>3, <2>1 DEF RefuseRequest
  <1>4. CASE ResolveCandidates
    BY <1>4 DEF ResolveCandidates, InCandidateListForm
  <1>5. CASE LoopCanceled
    BY <1>5 DEF LoopCanceled
  <1>6. CASE LoopExhausted
    BY <1>6 DEF LoopExhausted
  <1>7. ASSUME NEW r \in Route, StartAttempt(r) PROVE TypeOK'
    <2>1. attempt' \in 0..MaxAttempts
      BY <1>7 DEF StartAttempt
    <2>2. budget' \in BudgetState
      BY <1>7 DEF StartAttempt, BudgetState
    <2>3. QED
      BY <1>7, <2>1, <2>2 DEF StartAttempt
  <1>8. CASE Finish
    <2> DEFINE status == IF lastErr = NoError THEN 503 ELSE UpstreamErrorStatus(lastErr)
    <2>a. status \in Status
      <3>1. lastErr # NoError => UpstreamErrorStatus(lastErr) \in {0, 400, 429, 502}
        BY AnswerStatus
      <3>2. QED
        BY <3>1
    <2>b. IF clientGone \/ status = 0 THEN UNCHANGED response ELSE WriteError(status)
      BY <1>8 DEF Finish
    <2> HIDE DEF status
    <2>c. ASSUME clientGone \/ status = 0 PROVE response' \in Response
      BY <2>b, <2>c
    <2>d. ASSUME ~(clientGone \/ status = 0) PROVE response' \in Response
      <3>1. WriteError(status)
        BY <2>b, <2>d
      <3>2. QED
        BY <2>a, <3>1, WriteErrorType
    <2>1. response' \in Response
      BY <2>c, <2>d
    <2>2. QED
      BY <1>8, <2>1 DEF Finish
  <1>9. CASE RecordUsage
    <2> DEFINE rec == [collector EXCEPT !.result =
                         IF @ # "" THEN @ ELSE IF clientGone THEN "canceled" ELSE "failure"]
    <2>a. rec \in UsageRecord
      BY DEF UsageRecord, Result
    <2>b. /\ usageLog' = Append(usageLog, rec)
          /\ phase' = "done"
          /\ UNCHANGED <<streaming, deadlinePassed, clientGone, loopVars, attemptVars,
                         collector, response, called, verdict>>
      BY <1>9 DEF RecordUsage
    <2> HIDE DEF rec
    <2>1. usageLog' \in Seq(UsageRecord)
      BY <2>a, <2>b
    <2>2. QED
      BY <2>b, <2>1
  <1>10. QED
    BY <1>1, <1>2, <1>3, <1>4, <1>5, <1>6, <1>7, <1>8, <1>9

\* The budget's timer and the client keep the types.
LEMMA EnvironmentStepType ==
    ASSUME TypeOK,
           \/ DeadlinePasses \/ TimerExpires \/ TimerCancels \/ ClientLeaves
           \/ UNCHANGED vars
    PROVE  TypeOK'
  <1> USE DEF TypeOK, loopVars, attemptVars, outVars
  <1>1. CASE DeadlinePasses
    BY <1>1 DEF DeadlinePasses
  <1>2. CASE TimerExpires
    BY <1>2 DEF TimerExpires, BudgetState
  <1>3. CASE TimerCancels
    BY <1>3 DEF TimerCancels
  <1>4. CASE ClientLeaves
    BY <1>4 DEF ClientLeaves
  <1>5. CASE UNCHANGED vars
    BY <1>5 DEF vars
  <1>6. QED
    BY <1>1, <1>2, <1>3, <1>4, <1>5

\* An attempt leaves a typed verdict.
LEMMA VerdictType ==
    ASSUME TypeOK, NEW e
    PROVE  /\ RecordAttemptFailure(e) => verdict' \in [Route -> Verdict]
           /\ RouteSuccess => verdict' \in [Route -> Verdict]
  BY DEF TypeOK, RecordAttemptFailure, RouteSuccess, Verdict

\* What usageCollector.record makes of an attempt.
LEMMA RecordedType ==
    ASSUME TypeOK, current \in Route
    PROVE  Recorded \in UsageRecord
  <1> DEFINE rec == [route |-> current, committed |-> committed, err |-> err]
  <1>1. rec \in AttemptRecord
    BY DEF TypeOK, AttemptRecord
  <1>2. collector.attempts \in Seq(AttemptRecord) /\ collector.result \in Result
        /\ collector.finalRoute \in Route \cup {NoRoute} /\ collector.tokens \in Route \cup {NoRoute}
    BY DEF TypeOK, UsageRecord
  <1>3. Append(collector.attempts, rec) \in Seq(AttemptRecord)
    BY <1>1, <1>2
  <1>4. Recorded.result \in Result
    BY <1>2 DEF Recorded, Result
  <1> HIDE DEF rec
  <1>5. QED
    BY <1>2, <1>3, <1>4 DEF Recorded, UsageRecord, rec

\* The steps of an attempt keep the types.
LEMMA AttemptType ==
    ASSUME TypeOK, AttemptShape,
           \/ SlotRefused \/ EventTooLate \/ EndOfStream \/ StreamBroke \/ Heartbeat
           \/ SemanticEvent \/ Commit \/ CommitLost \/ WriteChunk \/ Respond
           \/ EndAttempt \/ UpstreamStep
    PROVE  TypeOK'
  <1> USE DEF TypeOK, loopVars, attemptVars, outVars
  <1>a. phase \in AttemptPhase => current \in Route
    BY DEF AttemptShape
  <1>b. FailoverBudgetError \in Error
    BY ErrorForms
  <1>c. StreamEvent = [kind : EventKind, usage : BOOLEAN, err : Error \cup {NoError}]
    BY DEF StreamEvent
  <1>1. CASE SlotRefused
    <2>1. handled' \in BOOLEAN /\ err' \in Error \cup {NoError} /\ phase' \in Phase
      BY <1>1, <1>b, LocalErrors DEF SlotRefused, ReturnFromAttempt
    <2>2. QED
      BY <1>1, <2>1 DEF SlotRefused
  <1>2. ASSUME FailAttemptWithBudget PROVE TypeOK'
    <2>1. handled' \in BOOLEAN /\ err' \in Error \cup {NoError} /\ phase' \in Phase
      BY <1>2, <1>b DEF FailAttemptWithBudget, ReturnFromAttempt
    <2>2. verdict' \in [Route -> Verdict]
      BY <1>2, VerdictType DEF FailAttemptWithBudget
    <2>3. QED
      BY <1>2, <2>1, <2>2 DEF FailAttemptWithBudget
  <1>3. CASE EventTooLate
    BY <1>2, <1>3 DEF EventTooLate
  <1>4. CASE CommitLost
    BY <1>2, <1>4 DEF CommitLost
  <1>5. CASE EndOfStream
    <2>1. response' \in Response
      BY <1>5 DEF EndOfStream, Response, Ending
    <2>2. verdict' \in [Route -> Verdict]
      BY <1>5, VerdictType DEF EndOfStream
    <2>3. handled' \in BOOLEAN /\ err' \in Error \cup {NoError} /\ phase' \in Phase
      BY <1>5, LocalErrors DEF EndOfStream, ReturnFromAttempt
    <2>4. QED
      BY <1>5, <2>1, <2>2, <2>3 DEF EndOfStream
  <1>6. CASE StreamBroke
    <2>1. response' \in Response
      BY <1>6 DEF StreamBroke, Response, Ending
    <2>2. verdict' \in [Route -> Verdict]
      BY <1>6, VerdictType DEF StreamBroke
    <2>3. handled' \in BOOLEAN /\ err' \in Error \cup {NoError} /\ phase' \in Phase
      BY <1>6, <1>c DEF StreamBroke, ReturnFromAttempt
    <2>4. QED
      BY <1>6, <2>1, <2>2, <2>3 DEF StreamBroke
  <1>7. CASE Heartbeat
    <2>1. tokens' \in BOOLEAN
      BY <1>7, <1>c DEF Heartbeat
    <2>2. QED
      BY <1>7, <2>1 DEF Heartbeat
  <1>8. CASE SemanticEvent
    <2>1. tokens' \in BOOLEAN
      BY <1>8, <1>c DEF SemanticEvent
    <2>2. phase' \in Phase
      BY <1>8 DEF SemanticEvent
    <2>3. QED
      BY <1>8, <2>1, <2>2 DEF SemanticEvent
  <1>9. CASE Commit
    BY <1>9 DEF Commit, BudgetState
  <1>10. CASE WriteChunk
    <2>1. response' \in Response
      BY <1>10, <1>a DEF WriteChunk, Response, Ending, Status
    <2>2. verdict' \in [Route -> Verdict]
      BY <1>10, VerdictType DEF WriteChunk
    <2>3. handled' \in BOOLEAN /\ err' \in Error \cup {NoError} /\ phase' \in Phase
      BY <1>10 DEF WriteChunk, ReturnFromAttempt
    <2>4. QED
      BY <1>10, <2>1, <2>2, <2>3 DEF WriteChunk
  <1>11. CASE Respond
    <2>1. response' \in Response
      BY <1>11, <1>a DEF Respond, Response, Ending, Status
    <2>2. verdict' \in [Route -> Verdict]
      BY <1>11, VerdictType DEF Respond
    <2>3. QED
      BY <1>11, <2>1, <2>2 DEF Respond, ReturnFromAttempt
  <1>12. CASE EndAttempt
    <2>1. collector' \in UsageRecord
      BY <1>12, <1>a, RecordedType DEF EndAttempt, CloseAttempt
    <2>2. lastErr' \in Error \cup {NoError} /\ action' \in FailureAction /\ phase' \in Phase
      BY <1>12, DecisionType DEF EndAttempt, AttemptShape
    <2>3. arrived' \in StreamEvent /\ budget' \in BudgetState
      BY <1>12, EnvironmentType DEF EndAttempt, CloseAttempt, BudgetState
    <2>4. QED
      BY <1>12, <2>1, <2>2, <2>3 DEF EndAttempt, CloseAttempt
  <1>13. CASE AcquireSlot
    BY <1>13, <1>a, ConstantsAssumption DEF AcquireSlot
  <1>14. CASE UpstreamAccepts
    BY <1>14, <1>a DEF UpstreamAccepts
  <1>15. CASE UpstreamRefuses
    <2>1. PICK e \in Error : ReturnFromAttempt(FALSE, e) /\ RecordAttemptFailure(e)
      BY <1>15, <1>b, EnvironmentType DEF UpstreamRefuses
    <2>2. verdict' \in [Route -> Verdict]
      BY <2>1, VerdictType
    <2>3. QED
      BY <1>15, <1>a, <2>1, <2>2 DEF UpstreamRefuses, ReturnFromAttempt
  <1>16. CASE NilStream
    <2>1. verdict' \in [Route -> Verdict]
      BY <1>16, VerdictType DEF NilStream
    <2>2. QED
      BY <1>16, <1>a, <2>1, LocalErrors DEF NilStream, ReturnFromAttempt
  <1>17. ASSUME NEW ev \in UpstreamEvents, NextReturns(ev) PROVE TypeOK'
    BY <1>17, EnvironmentType DEF NextReturns
  <1>18. QED
    BY <1>1, <1>3, <1>4, <1>5, <1>6, <1>7, <1>8, <1>9, <1>10, <1>11, <1>12, <1>13,
       <1>14, <1>15, <1>16, <1>17 DEF UpstreamStep

----------------------------------------------------------------------------
(* The inductive invariant. *)

Shapes == AttemptShape /\ CommitShape /\ AnswerShape /\ CancelShape

\* The loop of ChatHandler keeps the shapes of the attempt, the commit, the answer
\* and the errors.
LEMMA LoopShape ==
    ASSUME IInv,
           \/ RefuseBody \/ AcceptBody \/ RefuseRequest \/ ResolveCandidates
           \/ LoopCanceled \/ LoopExhausted \/ (\E r \in Route : StartAttempt(r))
           \/ Finish \/ RecordUsage
    PROVE  Shapes'
  <1> USE DEF IInv, Shapes, loopVars, attemptVars, outVars
  <1>1. CASE RefuseBody
    <2>1. AttemptShape'
      BY <1>1 DEF RefuseBody, WriteError, AttemptShape, NoAttempt
    <2>2. CommitShape'
      BY <1>1 DEF RefuseBody, WriteError, CommitShape, NoAttempt
    <2>3. AnswerShape'
      BY <1>1 DEF RefuseBody, WriteError, AnswerShape, Forwarding, NothingWritten, NoAttempt
    <2>4. CancelShape'
      BY <1>1 DEF RefuseBody, WriteError, CancelShape, CtxDone, NoAttempt
    <2>5. QED
      BY <2>1, <2>2, <2>3, <2>4
  <1>2. CASE AcceptBody
    <2>1. AttemptShape'
      BY <1>2 DEF AcceptBody, AttemptShape, NoAttempt
    <2>2. CommitShape'
      BY <1>2 DEF AcceptBody, CommitShape, NoAttempt
    <2>3. AnswerShape'
      BY <1>2 DEF AcceptBody, AnswerShape, Forwarding, NothingWritten, NoAttempt
    <2>4. CancelShape'
      BY <1>2 DEF AcceptBody, CancelShape, CtxDone, NoAttempt
    <2>5. QED
      BY <2>1, <2>2, <2>3, <2>4
  <1>3. CASE RefuseRequest
    <2>1. AttemptShape'
      BY <1>3 DEF RefuseRequest, WriteError, AttemptShape, NoAttempt
    <2>2. CommitShape'
      BY <1>3 DEF RefuseRequest, WriteError, CommitShape, NoAttempt
    <2>3. AnswerShape'
      <3>1. PICK status \in {400, 500, 503} : WriteError(status)
        BY <1>3 DEF RefuseRequest
      <3>2. response' = [status |-> status, sources |-> {}, ending |-> "done"]
        <4>1. response = NothingWritten
          BY <1>3 DEF RefuseRequest, AnswerShape
        <4>2. QED
          BY <3>1, <4>1 DEF WriteError, NothingWritten
      <3>3. phase' = "return"
        BY <1>3 DEF RefuseRequest
      <3>4. /\ response'.status # 0 /\ response'.sources = {}
            /\ response'.ending # "open"
        BY <3>2
      <3>5. QED
        BY <3>3, <3>4 DEF AnswerShape
    <2>4. CancelShape'
      BY <1>3 DEF RefuseRequest, WriteError, CancelShape, CtxDone, NoAttempt
    <2>5. QED
      BY <2>1, <2>2, <2>3, <2>4
  <1>4. CASE ResolveCandidates
    <2>1. AttemptShape'
      BY <1>4 DEF ResolveCandidates, AttemptShape, NoAttempt
    <2>2. CommitShape'
      BY <1>4 DEF ResolveCandidates, CommitShape, NoAttempt
    <2>3. AnswerShape'
      BY <1>4 DEF ResolveCandidates, AnswerShape, Forwarding, NothingWritten, NoAttempt
    <2>4. CancelShape'
      BY <1>4 DEF ResolveCandidates, CancelShape
    <2>5. QED
      BY <2>1, <2>2, <2>3, <2>4
  <1>5. CASE LoopCanceled
    <2>1. AttemptShape'
      BY <1>5 DEF LoopCanceled, AttemptShape, NoAttempt
    <2>2. CommitShape'
      BY <1>5 DEF LoopCanceled, CommitShape, NoAttempt
    <2>3. AnswerShape'
      BY <1>5 DEF LoopCanceled, AnswerShape, Forwarding, NothingWritten, NoAttempt
    <2>4. CancelShape'
      BY <1>5 DEF LoopCanceled, CancelShape, CtxDone, NoAttempt
    <2>5. QED
      BY <2>1, <2>2, <2>3, <2>4
  <1>6. CASE LoopExhausted
    <2>1. AttemptShape'
      BY <1>6 DEF LoopExhausted, AttemptShape, NoAttempt
    <2>2. CommitShape'
      BY <1>6 DEF LoopExhausted, CommitShape, NoAttempt
    <2>3. AnswerShape'
      BY <1>6 DEF LoopExhausted, AnswerShape, Forwarding, NothingWritten, NoAttempt
    <2>4. CancelShape'
      BY <1>6 DEF LoopExhausted, CancelShape, CtxDone, NoAttempt
    <2>5. QED
      BY <2>1, <2>2, <2>3, <2>4
  <1>7. ASSUME NEW r \in Route, StartAttempt(r) PROVE Shapes'
    <2>1. AttemptShape'
      BY <1>7 DEF StartAttempt, AttemptShape, NoAttempt
    <2>2. CommitShape'
      BY <1>7 DEF StartAttempt, CommitShape, AttemptShape, NoAttempt
    <2>3. AnswerShape'
      BY <1>7 DEF StartAttempt, AnswerShape, Forwarding, NothingWritten, NoAttempt
    <2>4. CancelShape'
      BY <1>7 DEF StartAttempt, CancelShape, CtxDone, NoAttempt
    <2>5. QED
      BY <2>1, <2>2, <2>3, <2>4
  <1>8. CASE Finish
    <2>1. AttemptShape'
      BY <1>8 DEF Finish, AttemptShape, NoAttempt
    <2>2. CommitShape'
      BY <1>8 DEF Finish, CommitShape, NoAttempt
    <2>3. AnswerShape'
      <3> DEFINE status == IF lastErr = NoError THEN 503 ELSE UpstreamErrorStatus(lastErr)
      <3>1. response' = IF clientGone \/ status = 0 THEN NothingWritten
                        ELSE [status |-> status, sources |-> {}, ending |-> "done"]
        <4>1. response = NothingWritten
          BY <1>8 DEF Finish, AnswerShape
        <4>2. IF clientGone \/ status = 0 THEN UNCHANGED response ELSE WriteError(status)
          BY <1>8 DEF Finish
        <4> HIDE DEF status
        <4>3. QED
          BY <4>1, <4>2 DEF WriteError, NothingWritten
      <3>2. status = 0 => clientGone
        BY <1>8 DEF Finish, CancelShape
      <3>3. phase' = "return" /\ clientGone' = clientGone
        BY <1>8 DEF Finish
      <3> HIDE DEF status
      <3>4. CASE clientGone \/ status = 0
        BY <3>1, <3>2, <3>3, <3>4 DEF AnswerShape, NothingWritten
      <3>5. CASE ~(clientGone \/ status = 0)
        <4>1. /\ response'.status # 0 /\ response'.sources = {}
              /\ response'.ending # "open"
          BY <3>1, <3>5
        <4>2. QED
          BY <3>3, <4>1 DEF AnswerShape
      <3>6. QED
        BY <3>4, <3>5
    <2>4. CancelShape'
      BY <1>8 DEF Finish, CancelShape, CtxDone, NoAttempt
    <2>5. QED
      BY <2>1, <2>2, <2>3, <2>4
  <1>9. CASE RecordUsage
    <2>1. AttemptShape'
      BY <1>9 DEF RecordUsage, AttemptShape, NoAttempt
    <2>2. CommitShape'
      BY <1>9 DEF RecordUsage, CommitShape, NoAttempt
    <2>3. AnswerShape'
      BY <1>9 DEF RecordUsage, AnswerShape, Forwarding, NothingWritten, NoAttempt
    <2>4. CancelShape'
      BY <1>9 DEF RecordUsage, CancelShape, CtxDone, NoAttempt
    <2>5. QED
      BY <2>1, <2>2, <2>3, <2>4
  <1>10. QED
    BY <1>1, <1>2, <1>3, <1>4, <1>5, <1>6, <1>7, <1>8, <1>9

\* So do the timer and the client.
LEMMA EnvironmentShape ==
    ASSUME IInv,
           \/ DeadlinePasses \/ TimerExpires \/ TimerCancels \/ ClientLeaves
           \/ UNCHANGED vars
    PROVE  Shapes'
  <1> USE DEF IInv, Shapes, loopVars, attemptVars, outVars
  <1>1. CASE DeadlinePasses
    <2>1. AttemptShape'
      BY <1>1 DEF DeadlinePasses, AttemptShape, NoAttempt
    <2>2. CommitShape'
      BY <1>1 DEF DeadlinePasses, CommitShape, NoAttempt
    <2>3. AnswerShape'
      BY <1>1 DEF DeadlinePasses, AnswerShape, Forwarding, NothingWritten, NoAttempt
    <2>4. CancelShape'
      BY <1>1 DEF DeadlinePasses, CancelShape, CtxDone, NoAttempt
    <2>5. QED
      BY <2>1, <2>2, <2>3, <2>4
  <1>2. CASE TimerExpires
    <2>1. AttemptShape'
      BY <1>2 DEF TimerExpires, AttemptShape, NoAttempt
    <2>2. CommitShape'
      BY <1>2 DEF TimerExpires, CommitShape, NoAttempt
    <2>3. AnswerShape'
      BY <1>2 DEF TimerExpires, AnswerShape, Forwarding, NothingWritten, NoAttempt
    <2>4. CancelShape'
      BY <1>2 DEF TimerExpires, CancelShape, CtxDone, NoAttempt
    <2>5. QED
      BY <2>1, <2>2, <2>3, <2>4
  <1>3. CASE TimerCancels
    <2>1. AttemptShape'
      BY <1>3 DEF TimerCancels, Expired, AttemptShape, NoAttempt
    <2>2. CommitShape'
      BY <1>3 DEF TimerCancels, Expired, CommitShape, NoAttempt
    <2>3. AnswerShape'
      BY <1>3 DEF TimerCancels, Expired, AnswerShape, Forwarding, NothingWritten, NoAttempt
    <2>4. CancelShape'
      BY <1>3 DEF TimerCancels, Expired, CancelShape, CtxDone, NoAttempt
    <2>5. QED
      BY <2>1, <2>2, <2>3, <2>4
  <1>4. CASE ClientLeaves
    <2>1. AttemptShape'
      BY <1>4 DEF ClientLeaves, AttemptShape, NoAttempt
    <2>2. CommitShape'
      BY <1>4 DEF ClientLeaves, CommitShape, NoAttempt
    <2>3. AnswerShape'
      BY <1>4 DEF ClientLeaves, AnswerShape, Forwarding, NothingWritten, NoAttempt
    <2>4. CancelShape'
      BY <1>4 DEF ClientLeaves, CancelShape, CtxDone, NoAttempt
    <2>5. QED
      BY <2>1, <2>2, <2>3, <2>4
  <1>5. CASE UNCHANGED vars
    <2>1. AttemptShape'
      BY <1>5 DEF vars, AttemptShape, NoAttempt
    <2>2. CommitShape'
      BY <1>5 DEF vars, CommitShape, NoAttempt
    <2>3. AnswerShape'
      BY <1>5 DEF vars, AnswerShape, Forwarding, NothingWritten, NoAttempt
    <2>4. CancelShape'
      BY <1>5 DEF vars, CancelShape, CtxDone, NoAttempt
    <2>5. QED
      BY <2>1, <2>2, <2>3, <2>4
  <1>6. QED
    BY <1>1, <1>2, <1>3, <1>4, <1>5

\* So do the steps of an attempt.
LEMMA AttemptStepShape ==
    ASSUME IInv,
           \/ SlotRefused \/ EventTooLate \/ EndOfStream \/ StreamBroke \/ Heartbeat
           \/ SemanticEvent \/ Commit \/ CommitLost \/ WriteChunk \/ Respond
           \/ EndAttempt \/ AcquireSlot \/ UpstreamAccepts \/ UpstreamRefuses
           \/ NilStream \/ (\E ev \in UpstreamEvents : NextReturns(ev))
    PROVE  Shapes'
  <1> USE DEF IInv, Shapes, loopVars, attemptVars, outVars
  <1>1. CASE SlotRefused
    <2>1. AttemptShape'
      BY <1>1, ErrorForms, LocalErrors, Cancellations, EnvironmentType DEF SlotRefused, ReturnFromAttempt, Expired, AttemptShape, NoAttempt
    <2>2. CommitShape'
      BY <1>1 DEF SlotRefused, ReturnFromAttempt, Expired, CommitShape, NoAttempt
    <2>3. AnswerShape'
      BY <1>1 DEF SlotRefused, ReturnFromAttempt, Expired, AnswerShape, Forwarding, NothingWritten, NoAttempt
    <2>4. CancelShape'
      BY <1>1, ErrorForms, LocalErrors, Cancellations, EnvironmentType DEF SlotRefused, ReturnFromAttempt, Expired, CancelShape
    <2>5. QED
      BY <2>1, <2>2, <2>3, <2>4
  <1>2. CASE EventTooLate
    <2>1. AttemptShape'
      BY <1>2, ErrorForms, LocalErrors, Cancellations, EnvironmentType DEF EventTooLate, FailAttemptWithBudget, ReturnFromAttempt, Expired, AttemptShape, NoAttempt
    <2>2. CommitShape'
      BY <1>2 DEF EventTooLate, FailAttemptWithBudget, ReturnFromAttempt, Expired, CommitShape, NoAttempt
    <2>3. AnswerShape'
      BY <1>2 DEF EventTooLate, FailAttemptWithBudget, ReturnFromAttempt, Expired, AnswerShape, Forwarding, NothingWritten, NoAttempt
    <2>4. CancelShape'
      BY <1>2, ErrorForms, LocalErrors, Cancellations, EnvironmentType DEF EventTooLate, FailAttemptWithBudget, ReturnFromAttempt, Expired, CancelShape
    <2>5. QED
      BY <2>1, <2>2, <2>3, <2>4
  <1>3. CASE EndOfStream
    <2>1. AttemptShape'
      BY <1>3, ErrorForms, LocalErrors, Cancellations, EnvironmentType DEF EndOfStream, ReturnFromAttempt, InTime, Expired, AttemptShape, NoAttempt
    <2>2. CommitShape'
      BY <1>3 DEF EndOfStream, ReturnFromAttempt, InTime, Expired, CommitShape, NoAttempt
    <2>3. AnswerShape'
      BY <1>3 DEF EndOfStream, ReturnFromAttempt, InTime, Expired, AnswerShape, CommitShape, Forwarding, NothingWritten, Ending
    <2>4. CancelShape'
      BY <1>3, ErrorForms, LocalErrors, Cancellations, EnvironmentType DEF EndOfStream, ReturnFromAttempt, InTime, Expired, CancelShape
    <2>5. QED
      BY <2>1, <2>2, <2>3, <2>4
  <1>4. CASE StreamBroke
    <2>1. AttemptShape'
      <3>1. arrived.err \in Error
        BY <1>4 DEF StreamBroke, InTime, AttemptShape, TypeOK, StreamEvent
      <3>2. QED
        BY <1>4, <3>1 DEF StreamBroke, ReturnFromAttempt, InTime, AttemptShape
    <2>2. CommitShape'
      BY <1>4 DEF StreamBroke, ReturnFromAttempt, InTime, Expired, CommitShape, NoAttempt
    <2>3. AnswerShape'
      <3>1. committed => IF IsRequestCanceled(clientGone, arrived.err)
                         THEN response' = Forwarding
                         ELSE response' = [Forwarding EXCEPT !.ending = "error"]
        BY <1>4 DEF StreamBroke, InTime, AnswerShape
      <3>2. ~committed => response' = NothingWritten
        BY <1>4 DEF StreamBroke, InTime, AnswerShape
      <3>3. committed /\ IsRequestCanceled(clientGone, arrived.err) => clientGone
        BY <1>4 DEF StreamBroke, InTime, CancelShape, CommitShape, CtxDone, IsRequestCanceled
      <3>4. /\ Forwarding.status = 200 /\ Forwarding.sources = {current}
            /\ [Forwarding EXCEPT !.ending = "error"].status = 200
            /\ [Forwarding EXCEPT !.ending = "error"].sources = {current}
            /\ [Forwarding EXCEPT !.ending = "error"].ending = "error"
        BY DEF Forwarding
      <3>5. /\ phase' = "end" /\ handled' = committed /\ committed' = committed
            /\ clientGone' = clientGone /\ current' = current
        BY <1>4 DEF StreamBroke, ReturnFromAttempt
      <3>6. CASE committed
        <4>1. /\ response'.status = 200 /\ response'.sources = {current}
              /\ response'.ending = "open" => clientGone
          BY <3>1, <3>3, <3>4, <3>6
        <4>2. QED
          BY <3>5, <3>6, <4>1 DEF AnswerShape
      <3>7. CASE ~committed
        BY <3>2, <3>5, <3>7 DEF AnswerShape
      <3>8. QED
        BY <3>6, <3>7
    <2>4. CancelShape'
      <3>1. arrived.err \in Error => (UpstreamErrorStatus(arrived.err) = 0 => IsRequestCanceled(FALSE, arrived.err))
        BY AnswerStatus
      <3>2. QED
        BY <1>4, <3>1, Cancellations DEF StreamBroke, ReturnFromAttempt, InTime, Expired, CancelShape,
           CommitShape, CtxDone, TypeOK, StreamEvent
    <2>5. QED
      BY <2>1, <2>2, <2>3, <2>4
  <1>5. CASE Heartbeat
    <2>1. AttemptShape'
      BY <1>5 DEF Heartbeat, InTime, Expired, AttemptShape, NoAttempt
    <2>2. CommitShape'
      BY <1>5 DEF Heartbeat, InTime, Expired, CommitShape, NoAttempt
    <2>3. AnswerShape'
      BY <1>5 DEF Heartbeat, InTime, Expired, AnswerShape, Forwarding, NothingWritten, NoAttempt
    <2>4. CancelShape'
      BY <1>5 DEF Heartbeat, InTime, Expired, CancelShape, CtxDone, NoAttempt
    <2>5. QED
      BY <2>1, <2>2, <2>3, <2>4
  <1>6. CASE SemanticEvent
    <2>1. AttemptShape'
      BY <1>6 DEF SemanticEvent, InTime, Expired, AttemptShape, NoAttempt
    <2>2. CommitShape'
      BY <1>6 DEF SemanticEvent, InTime, Expired, CommitShape, NoAttempt
    <2>3. AnswerShape'
      BY <1>6 DEF SemanticEvent, InTime, Expired, AnswerShape, CommitShape, Forwarding, NothingWritten
    <2>4. CancelShape'
      BY <1>6 DEF SemanticEvent, InTime, Expired, CancelShape, CtxDone, NoAttempt
    <2>5. QED
      BY <2>1, <2>2, <2>3, <2>4
  <1>7. CASE Commit
    <2>1. AttemptShape'
      BY <1>7 DEF Commit, AttemptShape, NoAttempt
    <2>2. CommitShape'
      BY <1>7 DEF Commit, CommitShape, NoAttempt
    <2>3. AnswerShape'
      BY <1>7 DEF Commit, AnswerShape, Forwarding, NothingWritten, NoAttempt
    <2>4. CancelShape'
      BY <1>7 DEF Commit, CancelShape, CtxDone, NoAttempt
    <2>5. QED
      BY <2>1, <2>2, <2>3, <2>4
  <1>8. CASE CommitLost
    <2>1. AttemptShape'
      BY <1>8, ErrorForms, LocalErrors, Cancellations, EnvironmentType DEF CommitLost, FailAttemptWithBudget, ReturnFromAttempt, AttemptShape, NoAttempt
    <2>2. CommitShape'
      BY <1>8 DEF CommitLost, FailAttemptWithBudget, ReturnFromAttempt, CommitShape, NoAttempt
    <2>3. AnswerShape'
      BY <1>8 DEF CommitLost, FailAttemptWithBudget, ReturnFromAttempt, AnswerShape, Forwarding, NothingWritten, NoAttempt
    <2>4. CancelShape'
      BY <1>8, ErrorForms, LocalErrors, Cancellations, EnvironmentType DEF CommitLost, FailAttemptWithBudget, ReturnFromAttempt, CancelShape
    <2>5. QED
      BY <2>1, <2>2, <2>3, <2>4
  <1>9. CASE WriteChunk
    <2>1. AttemptShape'
      BY <1>9 DEF WriteChunk, ReturnFromAttempt, AttemptShape, NoAttempt
    <2>2. CommitShape'
      BY <1>9 DEF WriteChunk, ReturnFromAttempt, CommitShape, NoAttempt
    <2>3. AnswerShape'
      BY <1>9 DEF WriteChunk, ReturnFromAttempt, AnswerShape, CommitShape, Forwarding, NothingWritten, Ending
    <2>4. CancelShape'
      BY <1>9 DEF WriteChunk, ReturnFromAttempt, CancelShape, CtxDone, NoAttempt
    <2>5. QED
      BY <2>1, <2>2, <2>3, <2>4
  <1>10. CASE Respond
    <2>1. AttemptShape'
      BY <1>10 DEF Respond, ReturnFromAttempt, AttemptShape, NoAttempt
    <2>2. CommitShape'
      BY <1>10 DEF Respond, ReturnFromAttempt, CommitShape, NoAttempt
    <2>3. AnswerShape'
      BY <1>10 DEF Respond, ReturnFromAttempt, AnswerShape, CommitShape, Forwarding, NothingWritten, Ending
    <2>4. CancelShape'
      BY <1>10 DEF Respond, ReturnFromAttempt, CancelShape, CtxDone, NoAttempt
    <2>5. QED
      BY <2>1, <2>2, <2>3, <2>4
  <1>11. CASE EndAttempt
    <2>1. AttemptShape'
      <3>1. NoAttempt' /\ arrived'.kind = "heartbeat" /\ phase' \in {"return", "finish", "loop"}
        BY <1>11 DEF EndAttempt, CloseAttempt, NoAttempt, Event
      <3>2. QED
        BY <3>1 DEF AttemptShape
    <2>2. CommitShape'
      BY <1>11 DEF EndAttempt, CloseAttempt, CommitShape, NoAttempt
    <2>3. AnswerShape'
      BY <1>11 DEF EndAttempt, CloseAttempt, AnswerShape, Forwarding, NothingWritten, NoAttempt
    <2>4. CancelShape'
      BY <1>11 DEF EndAttempt, CloseAttempt, CancelShape, CtxDone, NoAttempt
    <2>5. QED
      BY <2>1, <2>2, <2>3, <2>4
  <1>12. CASE AcquireSlot
    <2>1. AttemptShape'
      BY <1>12 DEF AcquireSlot, AttemptShape, NoAttempt
    <2>2. CommitShape'
      BY <1>12 DEF AcquireSlot, CommitShape, NoAttempt
    <2>3. AnswerShape'
      BY <1>12 DEF AcquireSlot, AnswerShape, Forwarding, NothingWritten, NoAttempt
    <2>4. CancelShape'
      BY <1>12 DEF AcquireSlot, CancelShape, CtxDone, NoAttempt
    <2>5. QED
      BY <2>1, <2>2, <2>3, <2>4
  <1>13. CASE UpstreamAccepts
    <2>1. AttemptShape'
      BY <1>13 DEF UpstreamAccepts, AttemptShape, NoAttempt
    <2>2. CommitShape'
      BY <1>13 DEF UpstreamAccepts, CommitShape, NoAttempt
    <2>3. AnswerShape'
      BY <1>13 DEF UpstreamAccepts, AnswerShape, CommitShape, Forwarding, NothingWritten
    <2>4. CancelShape'
      BY <1>13 DEF UpstreamAccepts, CancelShape, CtxDone, NoAttempt
    <2>5. QED
      BY <2>1, <2>2, <2>3, <2>4
  <1>14. CASE UpstreamRefuses
    <2>1. AttemptShape'
      <3>1. err' \in Error /\ phase' = "end"
        BY <1>14, ErrorForms, EnvironmentType DEF UpstreamRefuses, ReturnFromAttempt
      <3>2. QED
        BY <1>14, <3>1 DEF UpstreamRefuses, AttemptShape
    <2>2. CommitShape'
      BY <1>14 DEF UpstreamRefuses, ReturnFromAttempt, Expired, CommitShape, NoAttempt
    <2>3. AnswerShape'
      BY <1>14 DEF UpstreamRefuses, ReturnFromAttempt, Expired, AnswerShape, Forwarding, NothingWritten, NoAttempt
    <2>4. CancelShape'
      <3>1. PICK e \in PossibleErrors : err' = IF Expired THEN FailoverBudgetError ELSE e
        BY <1>14 DEF UpstreamRefuses, ReturnFromAttempt
      <3>2. UpstreamErrorStatus(e) = 0 => IsRequestCanceled(FALSE, e)
        BY AnswerStatus, EnvironmentType
      <3>3. phase' = "end" /\ UNCHANGED clientGone
        BY <1>14 DEF UpstreamRefuses, ReturnFromAttempt
      <3>4. UpstreamErrorStatus(err') = 0 => clientGone'
        BY <3>1, <3>2, <3>3, Cancellations DEF Expired, CtxDone, CommitShape
      <3>5. QED
        BY <3>3, <3>4 DEF CancelShape
    <2>5. QED
      BY <2>1, <2>2, <2>3, <2>4
  <1>15. CASE NilStream
    <2>1. AttemptShape'
      BY <1>15, ErrorForms, LocalErrors, Cancellations, EnvironmentType DEF NilStream, ReturnFromAttempt, AttemptShape, NoAttempt
    <2>2. CommitShape'
      BY <1>15 DEF NilStream, ReturnFromAttempt, CommitShape, NoAttempt
    <2>3. AnswerShape'
      BY <1>15 DEF NilStream, ReturnFromAttempt, AnswerShape, Forwarding, NothingWritten, NoAttempt
    <2>4. CancelShape'
      BY <1>15, ErrorForms, LocalErrors, Cancellations, EnvironmentType DEF NilStream, ReturnFromAttempt, CancelShape
    <2>5. QED
      BY <2>1, <2>2, <2>3, <2>4
  <1>16. ASSUME NEW ev \in UpstreamEvents, NextReturns(ev) PROVE Shapes'
    <2>1. AttemptShape'
      BY <1>16, Cancellations DEF NextReturns, AttemptShape, NoAttempt
    <2>2. CommitShape'
      BY <1>16 DEF NextReturns, CommitShape, NoAttempt
    <2>3. AnswerShape'
      BY <1>16 DEF NextReturns, AnswerShape, Forwarding, NothingWritten, NoAttempt
    <2>4. CancelShape'
      BY <1>16, Cancellations DEF NextReturns, CancelShape, CtxDone
    <2>5. QED
      BY <2>1, <2>2, <2>3, <2>4
  <1>17. QED
    BY <1>1, <1>2, <1>3, <1>4, <1>5, <1>6, <1>7, <1>8, <1>9, <1>10, <1>11, <1>12, <1>13, <1>14, <1>15, <1>16

\* The invariant holds of a request whose body has not been read.
LEMMA InitInvariant == Init => IInv
  <1> SUFFICES ASSUME Init PROVE IInv
    OBVIOUS
  <1>1. AttemptShape
    BY DEF Init, AttemptShape, NoAttempt, Event
  <1>2. CommitShape
    BY DEF Init, CommitShape, NoAttempt
  <1>3. AnswerShape
    BY DEF Init, AnswerShape
  <1>4. CancelShape
    BY Cancellations DEF Init, CancelShape
  <1>5. QED
    BY <1>1, <1>2, <1>3, <1>4, InitType DEF IInv

\* Every step of the handler, the timer and the client keeps the invariant.
LEMMA StepInvariant == IInv /\ [Next]_vars => IInv'
  <1> SUFFICES ASSUME IInv, [Next]_vars PROVE IInv'
    OBVIOUS
  <1>1. TypeOK /\ AttemptShape
    BY DEF IInv
  <1>2. TypeOK'
    BY <1>1, LoopType, AttemptType, EnvironmentStepType
       DEF Next, HandlerStep, Terminated
  <1>3. Shapes'
    BY LoopShape, AttemptStepShape, EnvironmentShape
       DEF Next, HandlerStep, UpstreamStep, Terminated
  <1>4. QED
    BY <1>2, <1>3 DEF IInv, Shapes

\* The invariant of attempt, commit, answer and errors holds throughout a request.
THEOREM InvariantHolds == Spec => []IInv
  BY InitInvariant, StepInvariant, PTL DEF Spec

----------------------------------------------------------------------------
(* What follows from it. *)

\* Every variable of the handler always has its type.
THEOREM TypeCorrect == Spec => []TypeOK
  <1>1. IInv => TypeOK
    BY DEF IInv
  <1>2. QED
    BY <1>1, InvariantHolds, PTL

\* The answer never mixes the streams of two routes (OneSource).
THEOREM AnswerHasOneSource == Spec => []OneSource
  <1>1. IInv => OneSource
    <2> SUFFICES ASSUME IInv PROVE OneSource
      OBVIOUS
    <2>1. NothingWritten.sources = {} /\ Forwarding.sources = {current}
      BY DEF NothingWritten, Forwarding
    <2>2. QED
      BY <2>1 DEF IInv, TypeOK, AnswerShape, OneSource
  <1>2. QED
    BY <1>1, InvariantHolds, PTL

\* A request that ends without an answer has lost its client (SilenceMeansGone).
THEOREM SilenceIsTheClients == Spec => []SilenceMeansGone
  <1>1. IInv => SilenceMeansGone
    BY DEF IInv, AnswerShape, SilenceMeansGone, NothingWritten
  <1>2. QED
    BY <1>1, InvariantHolds, PTL

\* The failover deadline never cuts a committed stream (CommittedOutlivesDeadline).
THEOREM CommitBeatsDeadline == Spec => []CommittedOutlivesDeadline
  <1>1. IInv => CommittedOutlivesDeadline
    BY DEF IInv, CommitShape, CommittedOutlivesDeadline
  <1>2. QED
    BY <1>1, InvariantHolds, PTL

\* One route answers, or the client has gone, and the deadline cuts nothing
\* that was begun (AnswerIsSound).
THEOREM AnswersAreSound == Spec => []AnswerIsSound
  <1>1. OneSource /\ SilenceMeansGone /\ CommittedOutlivesDeadline => AnswerIsSound
    BY DEF AnswerIsSound
  <1>2. QED
    BY <1>1, AnswerHasOneSource, SilenceIsTheClients, CommitBeatsDeadline, PTL

----------------------------------------------------------------------------
(* The request implements ClientAnswer. *)

USE DEF Answer!vars

\* The steps that write nothing to the client and do not finish the request.
Silent == response' = response /\ clientGone' = clientGone /\ phase # "done" /\ phase' # "done"

\* Most steps of an attempt are invisible to the client: slots, upstream calls,
\* events that are not forwarded, the timer.
LEMMA SilentSteps ==
    ASSUME IInv,
           \/ AcceptBody \/ ResolveCandidates \/ LoopCanceled \/ LoopExhausted
           \/ (\E r \in Route : StartAttempt(r))
           \/ SlotRefused \/ EventTooLate \/ Heartbeat \/ SemanticEvent
           \/ Commit \/ CommitLost \/ EndAttempt \/ UpstreamStep
    PROVE  Silent
  <1> USE DEF Silent, outVars
  <1>1. CASE AcceptBody \/ ResolveCandidates \/ LoopCanceled \/ LoopExhausted
    BY <1>1 DEF AcceptBody, ResolveCandidates, LoopCanceled, LoopExhausted
  <1>2. ASSUME NEW r \in Route, StartAttempt(r) PROVE Silent
    BY <1>2 DEF StartAttempt
  <1>3. CASE SlotRefused \/ EventTooLate \/ CommitLost
    BY <1>3 DEF SlotRefused, EventTooLate, CommitLost, FailAttemptWithBudget, ReturnFromAttempt
  <1>4. CASE Heartbeat \/ SemanticEvent \/ Commit
    BY <1>4 DEF Heartbeat, SemanticEvent, Commit, InTime
  <1>5. CASE EndAttempt
    BY <1>5 DEF EndAttempt
  <1>6. CASE UpstreamStep
    BY <1>6 DEF UpstreamStep, AcquireSlot, UpstreamAccepts, UpstreamRefuses, NilStream,
                NextReturns, ReturnFromAttempt
  <1>7. QED
    BY <1>1, <1>2, <1>3, <1>4, <1>5, <1>6

\* The abstract step taken by a step that writes to the client, or ends the
\* request, or by the environment.
LEMMA WritingSteps ==
    ASSUME IInv,
           \/ RefuseBody \/ RefuseRequest \/ Finish \/ EndOfStream \/ StreamBroke
           \/ WriteChunk \/ Respond \/ RecordUsage
           \/ DeadlinePasses \/ TimerExpires \/ TimerCancels \/ ClientLeaves
           \/ UNCHANGED vars
    PROVE  Answer!Next \/ UNCHANGED Answer!vars
  <1> USE DEF outVars
  <1>a. phase \notin {"return", "done"} /\ ~clientGone => phase # "done"
    OBVIOUS
  <1>b. ASSUME NEW status \in {400, 429, 500, 502, 503}, response = NothingWritten,
               phase # "done", WriteError(status), clientGone' = clientGone
        PROVE  Answer!Next
    <2>1. response' = [status |-> status, sources |-> {}, ending |-> "done"]
      BY <1>b DEF WriteError, NothingWritten
    <2>2. response.status = 0
      BY <1>b DEF NothingWritten
    <2>3. Answer!Refuse
      BY <1>b, <2>1, <2>2 DEF Answer!Refuse, Answer!Unanswered
    <2>4. QED
      BY <2>3 DEF Answer!Next
  <1>1. CASE RefuseBody
    BY <1>1, <1>b DEF RefuseBody, IInv, AnswerShape
  <1>2. CASE RefuseRequest
    <2>1. PICK status \in {400, 500, 503} : WriteError(status)
      BY <1>2 DEF RefuseRequest
    <2>2. QED
      BY <1>2, <1>b, <2>1 DEF RefuseRequest, IInv, AnswerShape
  <1>3. CASE Finish
    <2> DEFINE status == IF lastErr = NoError THEN 503 ELSE UpstreamErrorStatus(lastErr)
    <2>1. status \in {0, 400, 429, 502, 503}
      <3>1. lastErr # NoError => UpstreamErrorStatus(lastErr) \in {0, 400, 429, 502}
        BY AnswerStatus DEF IInv, TypeOK
      <3>2. QED
        BY <3>1
    <2>2. /\ IF clientGone \/ status = 0 THEN UNCHANGED response ELSE WriteError(status)
          /\ phase # "done" /\ phase' # "done" /\ clientGone' = clientGone
          /\ response = NothingWritten
      BY <1>3 DEF Finish, IInv, AnswerShape
    <2> HIDE DEF status
    <2>3. CASE clientGone \/ status = 0
      BY <2>2, <2>3
    <2>4. CASE ~(clientGone \/ status = 0)
      BY <1>b, <2>1, <2>2, <2>4
    <2>5. QED
      BY <2>3, <2>4
  <1>4. ASSUME NEW ending \in {"done", "error"}, response = Forwarding, phase # "done",
               response' = [response EXCEPT !.ending = ending],
               clientGone' = clientGone, phase' # "done"
        PROVE  Answer!Next
    <2>1. response.status = 200 /\ response.ending = "open"
      BY <1>4 DEF Forwarding
    <2>2. Answer!End
      BY <1>4, <2>1 DEF Answer!End
    <2>3. QED
      BY <2>2 DEF Answer!Next
  <1>5. CASE EndOfStream
    <2>1. /\ phase # "done" /\ phase' # "done" /\ clientGone' = clientGone
          /\ \/ response' = response
             \/ committed /\ response' = [response EXCEPT !.ending = "done"]
      BY <1>5 DEF EndOfStream, InTime, ReturnFromAttempt
    <2>2. committed => response = Forwarding
      BY <1>5 DEF EndOfStream, InTime, IInv, AnswerShape
    <2>3. QED
      BY <1>4, <2>1, <2>2
  <1>6. CASE StreamBroke
    <2>1. /\ phase # "done" /\ phase' # "done" /\ clientGone' = clientGone
          /\ \/ response' = response
             \/ committed /\ response' = [response EXCEPT !.ending = "error"]
      BY <1>6 DEF StreamBroke, InTime, ReturnFromAttempt
    <2>2. committed => response = Forwarding
      BY <1>6 DEF StreamBroke, InTime, IInv, AnswerShape
    <2>3. QED
      BY <1>4, <2>1, <2>2
  <1>7. ASSUME NEW ending \in {"open", "done"}, response = NothingWritten, phase # "done",
               response' = [status |-> 200, sources |-> {current}, ending |-> ending],
               clientGone' = clientGone, phase' # "done", current \in Route
        PROVE  Answer!Next
    <2>1. response.status = 0
      BY <1>7 DEF NothingWritten
    <2>2. Answer!Begin
      BY <1>7, <2>1 DEF Answer!Begin, Answer!Unanswered
    <2>3. QED
      BY <2>2 DEF Answer!Next
  <1>8. CASE WriteChunk
    <2>1. /\ phase # "done" /\ phase' # "done" /\ clientGone' = clientGone
          /\ current \in Route /\ response \in {NothingWritten, Forwarding}
      BY <1>8 DEF WriteChunk, ReturnFromAttempt, IInv, AnswerShape, AttemptShape
    <2>2. NothingWritten.sources = {} /\ Forwarding.sources = {current}
          /\ NothingWritten.ending = "open" /\ Forwarding.ending = "open"
      BY DEF NothingWritten, Forwarding
    <2>3. PICK ending \in {"open", "done"} :
             response' = [status |-> 200, sources |-> {current}, ending |-> ending]
      BY <1>8, <2>1, <2>2 DEF WriteChunk
    <2>4. CASE response = NothingWritten
      BY <1>7, <2>1, <2>3, <2>4
    <2>5. CASE response = Forwarding
      <3>1. response' = [response EXCEPT !.ending = ending]
        BY <2>3, <2>5 DEF Forwarding
      <3>2. ending = "open" => response' = response
        BY <2>3, <2>5 DEF Forwarding
      <3>3. QED
        BY <1>4, <2>1, <2>5, <3>1, <3>2
    <2>6. QED
      BY <2>1, <2>4, <2>5
  <1>9. CASE Respond
    <2>1. /\ phase # "done" /\ phase' # "done" /\ clientGone' = clientGone
          /\ current \in Route /\ response = NothingWritten
      BY <1>9 DEF Respond, ReturnFromAttempt, IInv, AnswerShape, AttemptShape
    <2>2. response' = [status |-> 200, sources |-> {current}, ending |-> "done"]
      BY <1>9, <2>1 DEF Respond, NothingWritten
    <2>3. QED
      BY <1>7, <2>1, <2>2
  <1>10. CASE RecordUsage
    <2>1. Answer!Close
      BY <1>10 DEF RecordUsage, IInv, AnswerShape, Answer!Close
    <2>2. QED
      BY <2>1 DEF Answer!Next
  <1>11. CASE DeadlinePasses \/ TimerExpires \/ TimerCancels
    BY <1>11 DEF DeadlinePasses, TimerExpires, TimerCancels
  <1>12. CASE ClientLeaves
    <2>1. Answer!Leave
      BY <1>12 DEF ClientLeaves, Answer!Leave
    <2>2. QED
      BY <2>1 DEF Answer!Next
  <1>13. CASE UNCHANGED vars
    BY <1>13 DEF vars
  <1>14. QED
    BY <1>1, <1>2, <1>3, <1>5, <1>6, <1>8, <1>9, <1>10, <1>11, <1>12, <1>13

\* Every step of the handler is a step of the promise or invisible to it.
LEMMA StepRefines == IInv /\ [Next]_vars => [Answer!Next]_(Answer!vars)
  <1> SUFFICES ASSUME IInv, [Next]_vars
               PROVE  Answer!Next \/ UNCHANGED Answer!vars
    OBVIOUS
  <1>1. Silent => UNCHANGED Answer!vars
    BY DEF Silent
  <1>2. QED
    BY <1>1, SilentSteps, WritingSteps DEF Next, HandlerStep, Terminated

\* A request keeps the promise ClientAnswer makes to the client.
THEOREM PromiseKept == Spec => KeepsAnswerPromise
  <1>1. Init => Answer!Init
    BY DEF Init, Answer!Init, NothingWritten
  <1>2. QED
    BY <1>1, StepRefines, InvariantHolds, PTL DEF Spec, KeepsAnswerPromise, Answer!Spec

\* No answer is started twice, and no route is attempted after the first byte
\* (AnswerIsFinal).
THEOREM AnswerStaysFinal == Spec => AnswerIsFinal
  <1> DEFINE Final == /\ response.status # 0 => attempt' = attempt /\ response'.status = response.status
                      /\ response.ending # "open" => response' = response
  <1>1. ASSUME IInv, [Next]_vars
        PROVE  /\ response.status # 0 => response'.status = response.status
               /\ response.ending # "open" => response' = response
    <2>a. response.status = 0 => response = NothingWritten
      <3>1. Forwarding.status = 200
        BY DEF Forwarding
      <3>2. QED
        BY <1>1, <3>1 DEF IInv, TypeOK, AnswerShape
    <2>1. CASE Answer!Next
      <3>1. CASE Answer!Refuse \/ Answer!Begin
        BY <2>a, <3>1 DEF Answer!Refuse, Answer!Begin, Answer!Unanswered, NothingWritten
      <3>2. CASE Answer!End
        <4>1. response.ending = "open" /\ response.status = 200
          BY <3>2 DEF Answer!End
        <4>2. response \in Response
          BY <1>1 DEF IInv, TypeOK
        <4>3. response'.status = response.status
          BY <3>2, <4>2 DEF Answer!End, Response
        <4>4. QED
          BY <4>1, <4>3
      <3>3. CASE Answer!Leave \/ Answer!Close
        BY <3>3 DEF Answer!Leave, Answer!Close
      <3>4. QED
        BY <2>1, <3>1, <3>2, <3>3 DEF Answer!Next
    <2>2. CASE UNCHANGED Answer!vars
      BY <2>2
    <2>3. QED
      BY <1>1, <2>1, <2>2, StepRefines
  <1>2. ASSUME IInv, [Next]_vars PROVE response.status # 0 => attempt' = attempt
    <2> USE DEF loopVars
    <2>1. ASSUME NEW r \in Route, StartAttempt(r) PROVE response.status = 0
      BY <1>2, <2>1 DEF StartAttempt, IInv, AnswerShape, NothingWritten
    <2>2. CASE RefuseBody \/ AcceptBody \/ RefuseRequest \/ ResolveCandidates
      BY <2>2 DEF RefuseBody, AcceptBody, RefuseRequest, ResolveCandidates
    <2>3. CASE LoopCanceled \/ LoopExhausted \/ Finish \/ RecordUsage \/ EndAttempt
      BY <2>3 DEF LoopCanceled, LoopExhausted, Finish, RecordUsage, EndAttempt
    <2>4. CASE SlotRefused \/ EventTooLate \/ CommitLost
      BY <2>4 DEF SlotRefused, EventTooLate, CommitLost, FailAttemptWithBudget
    <2>5. CASE EndOfStream \/ StreamBroke
      BY <2>5 DEF EndOfStream, StreamBroke
    <2>6. CASE Heartbeat \/ SemanticEvent \/ Commit \/ WriteChunk \/ Respond
      BY <2>6 DEF Heartbeat, SemanticEvent, Commit, WriteChunk, Respond
    <2>7. CASE UpstreamStep
      BY <2>7 DEF UpstreamStep, AcquireSlot, UpstreamAccepts, UpstreamRefuses, NilStream,
                  NextReturns
    <2>8. CASE DeadlinePasses \/ TimerExpires \/ TimerCancels \/ ClientLeaves \/ UNCHANGED vars
      BY <2>8 DEF DeadlinePasses, TimerExpires, TimerCancels, ClientLeaves, vars
    <2>9. QED
      BY <1>2, <2>1, <2>2, <2>3, <2>4, <2>5, <2>6, <2>7, <2>8 DEF Next, HandlerStep, Terminated
  <1>3. IInv /\ [Next]_vars => [Final]_vars
    BY <1>1, <1>2
  <1>4. QED
    BY <1>3, InvariantHolds, PTL DEF Spec, AnswerIsFinal

----------------------------------------------------------------------------
(* Slots and verdicts. *)

\* Nothing is held before the body is read.
LEMMA InitHolds == Init => HoldShape
  BY DEF Init, HoldShape, NothingLeaks, NoAttempt

\* No step leaves a slot, a stream or a timer behind, or calls an upstream
\* without its slot.
LEMMA StepHolds == IInv /\ IInv' /\ HoldShape /\ [Next]_vars => HoldShape'
  <1> SUFFICES ASSUME IInv, IInv', HoldShape, [Next]_vars PROVE HoldShape'
    OBVIOUS
  <1> USE DEF HoldShape, NothingLeaks, loopVars, attemptVars, outVars
  <1>a. phase' \notin AttemptPhase => NoAttempt'
    BY DEF IInv, AttemptShape
  <1>b. phase \notin AttemptPhase => slot = NoProvider /\ ~upstreamOpen
    BY DEF NoAttempt
  <1>1. CASE RefuseBody \/ AcceptBody \/ RefuseRequest \/ ResolveCandidates
    BY <1>1, <1>a DEF RefuseBody, AcceptBody, RefuseRequest, ResolveCandidates
  <1>2. CASE LoopCanceled \/ LoopExhausted \/ Finish \/ RecordUsage
    <2>1. /\ phase' \in {"return", "finish", "done"}
          /\ UNCHANGED <<slot, upstreamOpen, current>>
      BY <1>2 DEF LoopCanceled, LoopExhausted, Finish, RecordUsage
    <2>2. QED
      BY <2>1, <1>a
  <1>3. ASSUME NEW r \in Route, StartAttempt(r) PROVE HoldShape'
    BY <1>3, <1>a, <1>b DEF StartAttempt
  <1>4. CASE SlotRefused \/ EventTooLate \/ CommitLost
    BY <1>4, <1>a DEF SlotRefused, EventTooLate, CommitLost, FailAttemptWithBudget,
                      ReturnFromAttempt
  <1>5. CASE EndOfStream \/ StreamBroke \/ Respond
    BY <1>5, <1>a DEF EndOfStream, StreamBroke, Respond, InTime, ReturnFromAttempt
  <1>6. CASE Heartbeat \/ SemanticEvent \/ Commit \/ WriteChunk
    BY <1>6, <1>a DEF Heartbeat, SemanticEvent, Commit, WriteChunk, InTime, ReturnFromAttempt
  <1>7. CASE EndAttempt
    BY <1>7, <1>a DEF EndAttempt, CloseAttempt
  <1>8. CASE UpstreamStep
    BY <1>8, <1>a DEF UpstreamStep, AcquireSlot, UpstreamAccepts, UpstreamRefuses, NilStream,
                      NextReturns, ReturnFromAttempt
  <1>9. CASE DeadlinePasses \/ TimerExpires \/ TimerCancels \/ ClientLeaves \/ UNCHANGED vars
    BY <1>9, <1>a DEF DeadlinePasses, TimerExpires, TimerCancels, ClientLeaves, vars
  <1>10. QED
    BY <1>1, <1>2, <1>3, <1>4, <1>5, <1>6, <1>7, <1>8, <1>9 DEF Next, HandlerStep, Terminated

\* Slots, streams and timers are given back after every attempt, and a stream
\* is only open with the slot of its provider (NothingLeaks).
THEOREM AttemptsLeakNothing == Spec => []NothingLeaks
  <1>1. HoldShape => NothingLeaks
    BY DEF HoldShape
  <1>2. QED
    BY <1>1, InitHolds, StepHolds, InvariantHolds, PTL DEF Spec

\* A client that is gone is never the fault of a route: no error counts then.
LEMMA GoneBlamesNobody == \A e : ~CountsAgainstRoute(TRUE, e)
  BY DEF CountsAgainstRoute, IsRequestCanceled

\* What an attempt that fails on the current route may change in the verdicts.
LEMMA FailureVerdict ==
    ASSUME NEW e, verdict \in [Route -> Verdict], current \in Route, RecordAttemptFailure(e)
    PROVE  /\ verdict' \in [Route -> Verdict]
           /\ \A r \in Route : verdict'[r] = verdict[r] \/ (r = current /\ verdict'[r] = "fail")
           /\ clientGone => verdict' = verdict
  <1>1. CASE CountsAgainstRoute(clientGone, e)
    <2>1. verdict' = [verdict EXCEPT ![current] = "fail"]
      BY <1>1 DEF RecordAttemptFailure
    <2>2. clientGone # TRUE
      BY <1>1, GoneBlamesNobody
    <2>3. QED
      BY <2>1, <2>2 DEF Verdict
  <1>2. CASE ~CountsAgainstRoute(clientGone, e)
    BY <1>2 DEF RecordAttemptFailure
  <1>3. QED
    BY <1>1, <1>2

\* What an attempt that completes its answer changes in the verdicts.
LEMMA SuccessVerdict ==
    ASSUME verdict \in [Route -> Verdict], current \in Route, RouteSuccess
    PROVE  /\ verdict' \in [Route -> Verdict]
           /\ \A r \in Route : verdict'[r] = IF r = current THEN "ok" ELSE verdict[r]
  BY DEF RouteSuccess, Verdict

\* What one step may tell the health manager: nothing, that the running attempt
\* failed after its upstream was asked, or that it completed its answer.
LEMMA VerdictSteps ==
    ASSUME IInv, VerdictShape, [Next]_vars
    PROVE  \/ UNCHANGED <<verdict, response>>
           \/ verdict' = verdict /\ \A r \in Route : verdict[r] # "ok"
           \/ \E e : /\ RecordAttemptFailure(e) /\ current \in Route /\ current \in called'
                     /\ \A r \in Route : verdict[r] # "ok"
           \/ /\ RouteSuccess /\ current \in Route /\ current \in called'
              /\ \A r \in Route : verdict[r] # "ok"
              /\ response'.sources = {current} /\ response'.ending = "done"
  <1> DEFINE NoneOk == \A r \in Route : verdict[r] # "ok"
  <1> USE DEF loopVars, attemptVars, outVars
  <1>a. response.ending = "open" => NoneOk
    BY DEF VerdictShape, VerdictsAreEarned
  <1>b. NothingWritten.ending = "open" /\ Forwarding.ending = "open"
        /\ NothingWritten.sources = {} /\ Forwarding.sources = {current}
    BY DEF NothingWritten, Forwarding
  <1>c. phase \notin {"end", "return", "done"} => NoneOk
    BY <1>a, <1>b DEF IInv, TypeOK, AnswerShape
  <1>d. phase \in AttemptPhase => current \in Route
    BY DEF IInv, AttemptShape
  <1> HIDE DEF NoneOk
  <1>1. CASE RefuseBody \/ RefuseRequest \/ Finish
    BY <1>1, <1>c DEF RefuseBody, RefuseRequest, Finish, NoneOk
  <1>2. CASE AcceptBody \/ ResolveCandidates \/ LoopCanceled \/ LoopExhausted \/ RecordUsage
    BY <1>2 DEF AcceptBody, ResolveCandidates, LoopCanceled, LoopExhausted, RecordUsage
  <1>3. ASSUME NEW r \in Route, StartAttempt(r) PROVE UNCHANGED <<verdict, response>>
    BY <1>3 DEF StartAttempt
  <1>4. CASE SlotRefused
    BY <1>4 DEF SlotRefused
  <1>5. CASE EventTooLate \/ CommitLost
    <2>1. /\ RecordAttemptFailure(FailoverBudgetError) /\ called' = called
          /\ phase \in {"event", "commit"}
      BY <1>5 DEF EventTooLate, CommitLost, FailAttemptWithBudget
    <2>2. QED
      BY <2>1, <1>c, <1>d DEF VerdictShape, NoneOk
  <1>6. CASE EndOfStream
    <2>1. phase = "event" /\ called' = called
      BY <1>6 DEF EndOfStream, InTime
    <2>2. \/ \E e : RecordAttemptFailure(e)
          \/ committed /\ RouteSuccess /\ response' = [response EXCEPT !.ending = "done"]
          \/ UNCHANGED <<verdict, response>>
      BY <1>6 DEF EndOfStream
    <2>3. committed => response = Forwarding
      BY <2>1 DEF IInv, AnswerShape
    <2>4. [Forwarding EXCEPT !.ending = "done"].sources = {current}
          /\ [Forwarding EXCEPT !.ending = "done"].ending = "done"
      BY DEF Forwarding
    <2>5. QED
      BY <2>1, <2>2, <2>3, <2>4, <1>c, <1>d DEF VerdictShape, NoneOk
  <1>7. CASE StreamBroke
    <2>1. phase = "event" /\ called' = called
      BY <1>7 DEF StreamBroke, InTime
    <2>2. (\E e : RecordAttemptFailure(e)) \/ UNCHANGED <<verdict, response>>
      BY <1>7 DEF StreamBroke
    <2>3. QED
      BY <2>1, <2>2, <1>c, <1>d DEF VerdictShape, NoneOk
  <1>8. CASE Heartbeat \/ SemanticEvent \/ Commit
    BY <1>8 DEF Heartbeat, SemanticEvent, Commit
  <1>9. CASE WriteChunk
    <2>1. /\ phase = "write" /\ called' = called
          /\ response'.sources = response.sources \cup {current}
          /\ \/ verdict' = verdict
             \/ RouteSuccess /\ response'.ending = "done"
      BY <1>9 DEF WriteChunk
    <2>2. response.sources \subseteq {current}
      BY <1>b, <2>1 DEF IInv, AnswerShape
    <2>3. response'.sources = {current}
      BY <2>1, <2>2
    <2>4. QED
      BY <2>1, <2>3, <1>c, <1>d DEF VerdictShape, NoneOk
  <1>10. CASE Respond
    <2>1. /\ phase = "respond" /\ called' = called /\ RouteSuccess
          /\ response'.sources = response.sources \cup {current}
          /\ response'.ending = "done"
      BY <1>10 DEF Respond
    <2>2. response.sources = {}
      BY <1>b, <2>1 DEF IInv, AnswerShape
    <2>3. response'.sources = {current}
      BY <2>1, <2>2
    <2>4. QED
      BY <2>1, <2>3, <1>c, <1>d DEF VerdictShape, NoneOk
  <1>11. CASE EndAttempt
    BY <1>11 DEF EndAttempt
  <1>12. CASE AcquireSlot \/ UpstreamAccepts \/ (\E ev \in UpstreamEvents : NextReturns(ev))
    BY <1>12 DEF AcquireSlot, UpstreamAccepts, NextReturns
  <1>13. CASE UpstreamRefuses \/ NilStream
    <2>1. /\ phase = "call" /\ called' = called \cup {current}
          /\ \E e : RecordAttemptFailure(e)
      BY <1>13 DEF UpstreamRefuses, NilStream
    <2>2. QED
      BY <2>1, <1>c, <1>d DEF NoneOk
  <1>14. CASE DeadlinePasses \/ TimerExpires \/ TimerCancels \/ ClientLeaves \/ UNCHANGED vars
    BY <1>14 DEF DeadlinePasses, TimerExpires, TimerCancels, ClientLeaves, vars
  <1>15. QED
    BY <1>1, <1>2, <1>3, <1>4, <1>5, <1>6, <1>7, <1>8, <1>9, <1>10, <1>11, <1>12, <1>13, <1>14
       DEF Next, HandlerStep, UpstreamStep, Terminated

\* A route a request was sent to stays one, and an answer is only awaited from
\* the route it was sent to.
LEMMA CalledSteps ==
    ASSUME IInv, VerdictShape, [Next]_vars
    PROVE  /\ called \subseteq called'
           /\ phase' \in {"next", "event", "commit", "write", "respond"} => current' \in called'
  <1> USE DEF VerdictShape, loopVars, attemptVars, outVars
  <1>1. CASE RefuseBody \/ AcceptBody \/ RefuseRequest \/ ResolveCandidates
    BY <1>1 DEF RefuseBody, AcceptBody, RefuseRequest, ResolveCandidates
  <1>2. CASE LoopCanceled \/ LoopExhausted \/ Finish \/ RecordUsage
    BY <1>2 DEF LoopCanceled, LoopExhausted, Finish, RecordUsage
  <1>3. CASE (\E r \in Route : StartAttempt(r)) \/ EndAttempt
    BY <1>3 DEF StartAttempt, EndAttempt
  <1>4. CASE SlotRefused \/ EventTooLate \/ CommitLost
    BY <1>4 DEF SlotRefused, EventTooLate, CommitLost, FailAttemptWithBudget,
                      ReturnFromAttempt
  <1>5. CASE EndOfStream \/ StreamBroke \/ Respond
    BY <1>5 DEF EndOfStream, StreamBroke, Respond, InTime, ReturnFromAttempt
  <1>6. CASE Heartbeat \/ SemanticEvent \/ Commit \/ WriteChunk
    BY <1>6 DEF Heartbeat, SemanticEvent, Commit, WriteChunk, InTime, ReturnFromAttempt
  <1>7. CASE UpstreamStep
    BY <1>7 DEF UpstreamStep, AcquireSlot, UpstreamAccepts, UpstreamRefuses, NilStream,
                      NextReturns, ReturnFromAttempt
  <1>8. CASE DeadlinePasses \/ TimerExpires \/ TimerCancels \/ ClientLeaves \/ UNCHANGED vars
    BY <1>8 DEF DeadlinePasses, TimerExpires, TimerCancels, ClientLeaves, vars
  <1>9. QED
    BY <1>1, <1>2, <1>3, <1>4, <1>5, <1>6, <1>7, <1>8 DEF Next, HandlerStep, Terminated

\* Every verdict a step adds is earned.
LEMMA StepVerdicts == IInv /\ VerdictShape /\ [Next]_vars => VerdictShape'
  <1> SUFFICES ASSUME IInv, VerdictShape, [Next]_vars PROVE VerdictShape'
    OBVIOUS
  <1> USE DEF VerdictShape, VerdictsAreEarned
  <1>a. verdict \in [Route -> Verdict]
    BY DEF IInv, TypeOK
  <1>b. /\ called \subseteq called'
        /\ phase' \in {"next", "event", "commit", "write", "respond"} => current' \in called'
    BY CalledSteps
  <1>1. CASE UNCHANGED <<verdict, response>>
    BY <1>1, <1>b
  <1>2. CASE verdict' = verdict /\ \A r \in Route : verdict[r] # "ok"
    BY <1>2, <1>b
  <1>3. ASSUME NEW e, RecordAttemptFailure(e), current \in Route, current \in called',
               \A r \in Route : verdict[r] # "ok"
        PROVE  VerdictShape'
    BY <1>3, <1>a, <1>b, FailureVerdict
  <1>4. ASSUME RouteSuccess, current \in Route, current \in called',
               \A r \in Route : verdict[r] # "ok",
               response'.sources = {current}, response'.ending = "done"
        PROVE  VerdictShape'
    BY <1>4, <1>a, <1>b, SuccessVerdict
  <1>5. QED
    BY <1>1, <1>2, <1>3, <1>4, VerdictSteps

\* A route is marked failed only if it was asked, and working only if it
\* completed the answer (VerdictsAreEarned).
THEOREM VerdictsAreTrue == Spec => []VerdictsAreEarned
  <1>1. Init => VerdictShape
    BY DEF Init, VerdictShape, VerdictsAreEarned
  <1>2. VerdictShape => VerdictsAreEarned
    BY DEF VerdictShape
  <1>3. QED
    BY <1>1, <1>2, StepVerdicts, InvariantHolds, PTL DEF Spec

\* Once the client has gone no route is marked failed
\* (GoneClientBlamesNoRoute).
THEOREM GoneClientIsNoFault == Spec => GoneClientBlamesNoRoute
  <1> DEFINE Blameless == clientGone => \A r \in Route : verdict'[r] = "fail" => verdict[r] = "fail"
  <1>1. ASSUME IInv, VerdictShape, [Next]_vars PROVE Blameless
    <2>a. verdict \in [Route -> Verdict]
      BY <1>1 DEF IInv, TypeOK
    <2>1. CASE verdict' = verdict
      BY <2>1
    <2>2. ASSUME NEW e, RecordAttemptFailure(e), current \in Route PROVE Blameless
      BY <2>2, <2>a, FailureVerdict
    <2>3. CASE RouteSuccess /\ current \in Route
      BY <2>3, <2>a, SuccessVerdict
    <2>4. QED
      BY <1>1, <2>1, <2>2, <2>3, VerdictSteps
  <1>2. IInv /\ VerdictShape /\ [Next]_vars => [Blameless]_vars
    BY <1>1
  <1>3. Init => VerdictShape
    BY DEF Init, VerdictShape, VerdictsAreEarned
  <1>4. QED
    BY <1>2, <1>3, StepVerdicts, InvariantHolds, PTL DEF Spec, GoneClientBlamesNoRoute

----------------------------------------------------------------------------
(* Attempts and their records. *)

\* The steps that neither begin nor end an attempt.
Between == /\ UNCHANGED <<attempted, attempt, current, collector, action>>
           /\ phase' \in AttemptPhase <=> phase \in AttemptPhase
           /\ \/ candidates' = candidates
              \/ phase = "resolve" /\ InCandidateListForm(candidates')
           /\ phase' \in {"idle", "resolve"} => phase \in {"idle", "resolve"}
           /\ phase' = "loop" => phase \in {"loop", "resolve"}

\* Only StartAttempt and EndAttempt touch what is recorded.
LEMMA BetweenSteps ==
    ASSUME [Next]_vars
    PROVE  Between \/ EndAttempt \/ \E r \in Route : StartAttempt(r)
  <1> USE DEF Between, loopVars, attemptVars, outVars
  <1>1. CASE RefuseBody \/ AcceptBody \/ RefuseRequest \/ ResolveCandidates
    BY <1>1, ConstantsAssumption DEF RefuseBody, AcceptBody, RefuseRequest, ResolveCandidates
  <1>2. CASE LoopCanceled \/ LoopExhausted \/ Finish \/ RecordUsage
    <2>1. /\ phase \in {"loop", "finish", "return"}
          /\ phase' \in {"return", "finish", "done"}
          /\ UNCHANGED <<attempted, attempt, current, collector, candidates, action>>
      BY <1>2 DEF LoopCanceled, LoopExhausted, Finish, RecordUsage
    <2>2. QED
      BY <2>1
  <1>3. CASE SlotRefused \/ EventTooLate \/ CommitLost
    BY <1>3 DEF SlotRefused, EventTooLate, CommitLost, FailAttemptWithBudget,
                      ReturnFromAttempt
  <1>4. CASE EndOfStream \/ StreamBroke \/ Respond
    BY <1>4 DEF EndOfStream, StreamBroke, Respond, InTime, ReturnFromAttempt
  <1>5. CASE Heartbeat \/ SemanticEvent \/ Commit \/ WriteChunk
    BY <1>5 DEF Heartbeat, SemanticEvent, Commit, WriteChunk, InTime, ReturnFromAttempt
  <1>6. CASE UpstreamStep
    BY <1>6 DEF UpstreamStep, AcquireSlot, UpstreamAccepts, UpstreamRefuses, NilStream,
                      NextReturns, ReturnFromAttempt
  <1>7. CASE DeadlinePasses \/ TimerExpires \/ TimerCancels \/ ClientLeaves \/ UNCHANGED vars
    BY <1>7 DEF DeadlinePasses, TimerExpires, TimerCancels, ClientLeaves, vars
  <1>8. QED
    BY <1>1, <1>2, <1>3, <1>4, <1>5, <1>6, <1>7 DEF Next, HandlerStep, Terminated

\* The record an attempt leaves comes last; the others stay where they are.
LEMMA OneMoreRecord ==
    ASSUME TypeOK, current \in Route, EndAttempt
    PROVE  LET n == Len(collector.attempts)
               rec == [route |-> current, committed |-> committed, err |-> err]
           IN  /\ n \in Nat
               /\ Len(collector'.attempts) = n + 1
               /\ collector'.attempts[n + 1] = rec
               /\ \A i \in 1..n : collector'.attempts[i] = collector.attempts[i]
  <1> DEFINE rec == [route |-> current, committed |-> committed, err |-> err]
  <1>1. collector.attempts \in Seq(AttemptRecord) /\ rec \in AttemptRecord
    BY DEF TypeOK, UsageRecord, AttemptRecord
  <1>2. collector'.attempts = Append(collector.attempts, rec)
    BY DEF EndAttempt, CloseAttempt, Recorded
  <1> HIDE DEF rec
  <1>3. QED
    BY <1>1, <1>2 DEF rec

\* Attempts are counted when they begin and recorded when they end.
LEMMA StepRecords == IInv /\ RecordShape /\ [Next]_vars => RecordShape'
  <1> SUFFICES ASSUME IInv, RecordShape, [Next]_vars PROVE RecordShape'
    OBVIOUS
  <1>a. /\ attempt \in Nat /\ attempted \subseteq Route /\ candidates \in Seq(Candidate)
        /\ MaxAttempts \in Nat
    <2>1. MaxAttempts \in Nat
      BY ConstantsAssumption
    <2>2. QED
      BY <2>1 DEF IInv, TypeOK
  <1> USE DEF RecordShape, AttemptsAreRecordedOnce
  <1>b. TypeOK /\ (phase \in AttemptPhase => current \in Route)
    BY DEF IInv, AttemptShape
  <1>1. CASE Between
    BY <1>1 DEF Between
  <1>2. ASSUME NEW r \in Route, StartAttempt(r) PROVE RecordShape'
    <2>1. /\ phase = "loop" /\ phase' = "acquire" /\ attempt < MaxAttempts
          /\ attempted' = attempted \cup {r} /\ attempt' = attempt + 1 /\ current' = r
          /\ collector' = collector
      BY <1>2 DEF StartAttempt, outVars
    <2>2. r \notin attempted
      BY <1>2, <1>a, NextCandidateIsFresh DEF StartAttempt
    <2>3. attempt' - 1 = attempt /\ attempt' > 0 /\ attempt' <= MaxAttempts
      BY <2>1, <1>a
    <2>4. attempted' \ {current'} = attempted
      BY <2>1, <2>2
    <2>5. QED
      BY <2>1, <2>3, <2>4
  <1>3. CASE EndAttempt
    <2> DEFINE n == Len(collector.attempts)
    <2>1. /\ phase = "end" /\ phase' \notin AttemptPhase
          /\ UNCHANGED <<attempted, attempt, current>>
      BY <1>3 DEF EndAttempt
    <2>2. /\ n \in Nat /\ Len(collector'.attempts) = n + 1
          /\ collector'.attempts[n + 1].route = current
          /\ \A i \in 1..n : collector'.attempts[i] = collector.attempts[i]
      BY <1>3, <1>b, <2>1, OneMoreRecord
    <2>3. /\ n = attempt - 1 /\ n + 1 = attempt /\ current \in attempted
          /\ {collector.attempts[i].route : i \in 1..n} = attempted \ {current}
          /\ \A i, j \in 1..n :
                collector.attempts[i].route = collector.attempts[j].route => i = j
      BY <1>a, <2>1
    <2> HIDE DEF n
    <2>4. 1..(n + 1) = 1..n \cup {n + 1} /\ n + 1 \notin 1..n
      BY <2>2
    <2>5. \A i \in 1..n : collector.attempts[i].route \in attempted \ {current}
      BY <2>3
    <2>6. \A i, j \in 1..(n + 1) :
              collector'.attempts[i].route = collector'.attempts[j].route => i = j
      BY <2>2, <2>3, <2>4, <2>5
    <2>7. {collector'.attempts[i].route : i \in 1..(n + 1)} = attempted
      <3>1. \A i \in 1..(n + 1) : collector'.attempts[i].route \in attempted
        BY <2>2, <2>3, <2>4, <2>5
      <3>2. ASSUME NEW r \in attempted PROVE \E i \in 1..(n + 1) : r = collector'.attempts[i].route
        <4>1. CASE r = current
          BY <4>1, <2>2, <2>4
        <4>2. CASE r # current
          <5>1. PICK i \in 1..n : r = collector.attempts[i].route
            BY <4>2, <2>3
          <5>2. QED
            BY <5>1, <2>2, <2>4
        <4>3. QED
          BY <4>1, <4>2
      <3>3. QED
        BY <3>1, <3>2
    <2>8. QED
      BY <2>1, <2>2, <2>3, <2>6, <2>7
  <1>4. QED
    BY <1>1, <1>2, <1>3, BetweenSteps

\* Every attempt is recorded once, in order, on a route of its own
\* (AttemptsAreRecordedOnce).
LEMMA RecordsHold == Spec => []RecordShape
  <1>1. Init => RecordShape
    <2> SUFFICES ASSUME Init PROVE RecordShape
      OBVIOUS
    <2>1. collector.attempts = <<>> /\ attempted = {} /\ attempt = 0 /\ phase = "idle"
      BY DEF Init, NewCollector
    <2>2. {collector.attempts[i].route : i \in 1..0} = {}
      OBVIOUS
    <2>3. QED
      BY <2>1, <2>2, ConstantsAssumption DEF RecordShape, AttemptsAreRecordedOnce
  <1>2. QED
    BY <1>1, StepRecords, InvariantHolds, PTL DEF Spec

----------------------------------------------------------------------------
(* The choice of the next attempt. *)

\* The failure right before an attempt decided where it is.
LEMMA StepChooses == IInv /\ RecordShape /\ ChoiceShape /\ [Next]_vars => ChoiceShape'
  <1> SUFFICES ASSUME IInv, RecordShape, ChoiceShape, [Next]_vars PROVE ChoiceShape'
    OBVIOUS
  <1> DEFINE n == Len(collector.attempts)
  <1>a. n \in Nat /\ attempt \in Nat /\ candidates \in Seq(Candidate)
    <2>1. collector.attempts \in Seq(AttemptRecord)
      BY DEF IInv, TypeOK, UsageRecord
    <2>2. MaxAttempts \in Nat
      BY ConstantsAssumption
    <2>3. QED
      BY <2>1, <2>2 DEF IInv, TypeOK
  <1>b. n = IF phase \in AttemptPhase THEN attempt - 1 ELSE attempt
    BY DEF RecordShape, AttemptsAreRecordedOnce
  <1>1. CASE Between
    <2>1. CASE candidates' = candidates
      <3>1. phase \in {"idle", "resolve"} => n = 0
        BY <1>b DEF ChoiceShape
      <3> HIDE DEF n
      <3>2. FallbackOnly(current)' = FallbackOnly(current)
            /\ UnknownAccessIsFallback' = UnknownAccessIsFallback
            /\ RequestFaultIsFinal' = RequestFaultIsFinal
            /\ FailuresSteer' = FailuresSteer
        BY <1>1, <2>1 DEF Between, FallbackOnly, UnknownAccessIsFallback, RequestFaultIsFinal,
                          FailuresSteer, Permits, KeepsModel
      <3>3. phase' \in AttemptPhase \cup {"loop"} => phase \in AttemptPhase \cup {"loop", "resolve"}
        BY <1>1 DEF Between
      <3>4. QED
        BY <1>1, <1>a, <2>1, <3>1, <3>2, <3>3
           DEF Between, ChoiceShape, NextFollowsFailure, Permits, KeepsModel, n
    <2>2. CASE phase = "resolve" /\ InCandidateListForm(candidates')
      <3>1. attempt = 0 /\ n = 0 /\ attempt' = 0 /\ collector' = collector /\ current' = current
        BY <1>1, <1>b, <2>2 DEF Between, ChoiceShape
      <3>2. phase' \notin AttemptPhase
        BY <1>1, <2>2 DEF Between
      <3>3. QED
        BY <2>2, <3>1, <3>2 DEF ChoiceShape, NextFollowsFailure, UnknownAccessIsFallback,
                                 RequestFaultIsFinal, FailuresSteer
    <2>3. QED
      BY <1>1, <2>1, <2>2 DEF Between
  <1>2. ASSUME NEW r \in Route, StartAttempt(r) PROVE ChoiceShape'
    <2>1. /\ phase = "loop" /\ phase' = "acquire" /\ attempt' = attempt + 1 /\ current' = r
          /\ collector' = collector /\ candidates' = candidates
          /\ IsNextCandidate(r, candidates, attempted, current, action)
      BY <1>2 DEF StartAttempt, outVars
    <2>2. n = attempt /\ attempt' - 1 = attempt /\ attempt' # 0 /\ r # NoRoute
      BY <1>a, <1>b, <2>1, NoRouteAssumption
    <2>3. \A i \in 1..n : \/ collector.attempts[i].err = NoError
                          \/ ClassifiedFailure(collector.attempts[i].err).scope # "Request"
      BY <2>1 DEF ChoiceShape
    <2>4. ASSUME FallbackOnly(r)
          PROVE  attempt > 0 /\ ModelOf[collector.attempts[attempt].route] = ModelOf[r]
      <3>1. PICK k \in DOMAIN candidates : candidates[k].route = r /\ candidates[k].fallbackOnly
        BY <2>4 DEF FallbackOnly
      <3>2. current # NoRoute /\ ModelOf[r] = ModelOf[current]
        BY <2>1, <3>1, AlternateFollowsItsModel DEF ChoiceShape
      <3>3. attempt > 0
        BY <1>a, <3>2 DEF ChoiceShape
      <3>4. QED
        BY <2>1, <3>2, <3>3 DEF ChoiceShape
    <2>5. FallbackOnly(current)' => FallbackOnly(r)
      BY <2>1 DEF FallbackOnly
    <2>6. NextFollowsFailure'
      <3>a. FailuresSteer
        BY DEF ChoiceShape, NextFollowsFailure
      <3>b. \A i : KeepsModel(i, collector.attempts[i].route)'
                   <=> KeepsModel(i, collector.attempts[i].route)
        BY <2>1 DEF KeepsModel
      <3>1. FailuresSteer'
        BY <2>1, <3>a, <3>b DEF FailuresSteer, Permits
      <3>2. QED
        BY <2>1, <2>3, <3>1 DEF ChoiceShape, NextFollowsFailure, RequestFaultIsFinal,
                                UnknownAccessIsFallback, FallbackOnly
    <2>7. attempt > 0 => attempt' > 1
      BY <1>a, <2>1
    <2>9. attempt > 0 => Permits(collector.attempts[attempt], r)
      <3> SUFFICES ASSUME attempt > 0 PROVE Permits(collector.attempts[attempt], r)
        OBVIOUS
      <3>1. attempt \in 1..n
        BY <1>a, <2>2
      <3>2. collector.attempts[attempt] \in AttemptRecord
        BY <3>1 DEF IInv, TypeOK, UsageRecord
      <3>3. /\ collector.attempts[attempt].route = current
            /\ action = FallbackAction(collector.attempts[attempt].err)
        BY <2>1 DEF ChoiceShape
      <3>4. QED
        BY <2>1, <3>2, <3>3, NextIsPermitted
    <2>10. attempt' > 1 => Permits(collector'.attempts[attempt' - 1], current')
      <3>1. attempt' > 1 => attempt > 0 /\ attempt' - 1 = attempt
        BY <1>a, <2>1
      <3>2. QED
        BY <2>1, <2>9, <3>1
    <2>11. Permits(collector.attempts[attempt - 1], current)'
             <=> Permits(collector'.attempts[attempt' - 1], current')
      BY DEF Permits
    <2>12. attempt > 0 => KeepsModel(attempt + 1, r)
      <3> SUFFICES ASSUME attempt > 0,
                          FallbackAction(collector.attempts[attempt].err) = "NextRoute"
                   PROVE  LET failed == collector.attempts[attempt]
                          IN  \/ ModelOf[r] = ModelOf[failed.route]
                              \/ \A k \in DOMAIN candidates :
                                    ModelOf[candidates[k].route] = ModelOf[failed.route]
                                        => candidates[k].route
                                             \in {collector.attempts[j].route : j \in 1..attempt}
        BY <1>a DEF KeepsModel
      <3>1. collector.attempts[attempt] \in AttemptRecord
        BY <1>a, <2>2 DEF IInv, TypeOK, UsageRecord
      <3>2. /\ collector.attempts[attempt].route = current
            /\ action = "NextRoute"
        BY <2>1 DEF ChoiceShape
      <3>3. attempted = {collector.attempts[j].route : j \in 1..attempt}
        BY <2>1, <2>2 DEF RecordShape, AttemptsAreRecordedOnce, AttemptPhase
      <3>4. QED
        BY <2>1, <3>1, <3>2, <3>3, NextKeepsModel
    <2>13. attempt' > 1 => KeepsModel(attempt, current)'
      <3>1. attempt' > 1 => attempt > 0
        BY <1>a, <2>1
      <3>2. KeepsModel(attempt, current)' <=> KeepsModel(attempt + 1, r)
        BY <2>1 DEF KeepsModel
      <3>3. QED
        BY <2>12, <3>1, <3>2
    <2> HIDE DEF n
    <2>8. QED
      BY <2>1, <2>2, <2>3, <2>4, <2>5, <2>6, <2>7, <2>10, <2>11, <2>13 DEF ChoiceShape, n
  <1>3. CASE EndAttempt
    <2>1. /\ phase = "end" /\ phase' \in {"loop", "finish", "return"}
          /\ phase' = "loop" => /\ ~handled /\ FallbackAction(err) # "Stop"
                                /\ action' = FallbackAction(err)
          /\ UNCHANGED <<attempt, current, candidates>>
      BY <1>3 DEF EndAttempt
    <2>2. TypeOK /\ current \in Route
      BY <2>1 DEF IInv, AttemptShape
    <2>3. /\ Len(collector'.attempts) = n + 1
          /\ collector'.attempts[n + 1].route = current
          /\ collector'.attempts[n + 1].err = err
          /\ \A i \in 1..n : collector'.attempts[i] = collector.attempts[i]
      BY <1>3, <2>2, OneMoreRecord
    <2>4. n + 1 = attempt /\ n = attempt - 1
      BY <1>a, <1>b, <2>1
    <2>5. \A i \in 1..n : \/ collector.attempts[i].err = NoError
                          \/ ClassifiedFailure(collector.attempts[i].err).scope # "Request"
      BY <2>1 DEF ChoiceShape
    <2>6. phase' = "loop" => ClassifiedFailure(err).scope # "Request"
      <3>1. ~handled => err \in Error
        BY <2>1 DEF IInv, AttemptShape
      <3>2. QED
        BY <2>1, <3>1, RequestFaultStops
    <2>7. \A r : FallbackOnly(r)' <=> FallbackOnly(r)
      BY <2>1 DEF FallbackOnly
    <2> HIDE DEF n
    <2>8. 1..(n + 1) = 1..n \cup {n + 1}
      BY <1>a
    <2>9. RequestFaultIsFinal'
      BY <2>1, <2>3, <2>4, <2>5, <2>8 DEF RequestFaultIsFinal
    <2>10. UnknownAccessIsFallback'
      <3> SUFFICES ASSUME NEW i \in 1..(n + 1), FallbackOnly(collector'.attempts[i].route)
                   PROVE  /\ i > 1
                          /\ ModelOf[collector'.attempts[i-1].route]
                               = ModelOf[collector'.attempts[i].route]
        BY <2>3, <2>7 DEF UnknownAccessIsFallback
      <3>1. CASE i = n + 1
        <4>1. attempt > 1 /\ ModelOf[collector.attempts[attempt - 1].route] = ModelOf[current]
          BY <2>1, <2>3, <3>1 DEF ChoiceShape
        <4>2. i - 1 = n /\ i > 1 /\ n \in 1..n
          BY <1>a, <2>4, <3>1, <4>1
        <4>3. QED
          BY <2>3, <2>4, <3>1, <4>1, <4>2
      <3>2. CASE i \in 1..n
        <4>1. i > 1 /\ ModelOf[collector.attempts[i-1].route] = ModelOf[collector.attempts[i].route]
          BY <2>3, <3>2 DEF ChoiceShape, NextFollowsFailure, UnknownAccessIsFallback, n
        <4>2. i - 1 \in 1..n
          BY <1>a, <3>2, <4>1
        <4>3. QED
          BY <2>3, <3>2, <4>1, <4>2
      <3>3. QED
        BY <2>8, <3>1, <3>2
    <2>11. FailuresSteer'
      <3> SUFFICES ASSUME NEW i \in 2..(n + 1)
                   PROVE  /\ Permits(collector'.attempts[i - 1], collector'.attempts[i].route)
                          /\ KeepsModel(i, collector.attempts[i].route)'
        BY <2>3 DEF FailuresSteer, Permits
      <3>1. i - 1 \in 1..n /\ 1..(i - 1) \subseteq 1..n
        BY <1>a
      <3>2. {collector'.attempts[j].route : j \in 1..(i - 1)}
              = {collector.attempts[j].route : j \in 1..(i - 1)}
        BY <2>3, <3>1
      <3>3. ASSUME KeepsModel(i, collector'.attempts[i].route)
            PROVE  KeepsModel(i, collector.attempts[i].route)'
        BY <2>1, <2>3, <3>1, <3>2, <3>3 DEF KeepsModel
      <3>4. CASE i = n + 1
        <4>1. Permits(collector.attempts[attempt - 1], current) /\ KeepsModel(attempt, current)
          BY <1>a, <2>1, <2>4, <3>1, <3>4 DEF ChoiceShape
        <4>2. QED
          BY <2>3, <2>4, <3>1, <3>3, <3>4, <4>1
      <3>5. CASE i \in 1..n
        <4>1. /\ Permits(collector.attempts[i - 1], collector.attempts[i].route)
              /\ KeepsModel(i, collector.attempts[i].route)
          BY <3>5 DEF ChoiceShape, NextFollowsFailure, FailuresSteer, n
        <4>2. QED
          BY <2>3, <3>1, <3>3, <3>5, <4>1
      <3>6. QED
        BY <2>8, <3>4, <3>5
    <2>12. QED
      BY <2>1, <2>3, <2>4, <2>5, <2>6, <2>8, <2>9, <2>10, <2>11
         DEF ChoiceShape, NextFollowsFailure
  <1>4. QED
    BY <1>1, <1>2, <1>3, BetweenSteps

\* No request-scoped failure is followed by another attempt, an alternate of
\* unknown access only follows a route of its model, and every attempt is where
\* the failure right before it sends it: off the model, the credential or the
\* provider it ruled out, and to the rest of its model first if it only asks for
\* another route (NextFollowsFailure).
THEOREM NextAlwaysFollowsFailure == Spec => []NextFollowsFailure
  <1>1. Init => ChoiceShape
    <2> SUFFICES ASSUME Init PROVE ChoiceShape
      OBVIOUS
    <2>1. /\ collector.attempts = <<>> /\ candidates = <<>> /\ attempt = 0 /\ phase = "idle"
          /\ current = NoRoute
      BY DEF Init, NewCollector
    <2>2. InCandidateListForm(candidates)
      BY <2>1 DEF InCandidateListForm
    <2>3. QED
      BY <2>1, <2>2 DEF ChoiceShape, NextFollowsFailure, RequestFaultIsFinal,
                        UnknownAccessIsFallback, FailuresSteer
  <1>2. ChoiceShape => NextFollowsFailure
    BY DEF ChoiceShape
  <1>3. QED
    BY <1>1, <1>2, StepChooses, RecordsHold, InvariantHolds, PTL DEF Spec

----------------------------------------------------------------------------
(* The usage record. *)

\* How an attempt that has just returned accounts for its answer.
Accounted ==
    /\ handled = committed
    /\ IsRequestCanceled(FALSE, err) => clientGone
    /\ handled => (err = NoError <=> response.ending = "done")
    /\ handled /\ err # NoError /\ ~clientGone => response.ending = "error"

\* Errors of the gateway's own are no cancellations.
LEMMA OwnErrorsAreKnown ==
    /\ ~IsRequestCanceled(FALSE, NoError)
    /\ ~IsRequestCanceled(FALSE, FailoverBudgetError)
    /\ ~IsRequestCanceled(FALSE, FailureError(NewFailure("Protocol", "Route")))
    /\ FailureError(NewFailure("Protocol", "Route")) # NoError
    /\ FailoverBudgetError # NoError
  BY DEF IsRequestCanceled, NoError, FailoverBudgetError, FailureError, NewFailure

\* Steps inside a request that change nothing the record depends on.
LEMMA InnerSteps ==
    ASSUME UsageShape, UNCHANGED <<collector, usageLog, clientGone>>,
           phase \notin {"return", "done", "end"},
           \/ phase' \notin {"return", "done", "end"}
           \/ phase' = "end" /\ Accounted'
    PROVE  UsageShape'
  BY DEF UsageShape, UsageMatchesAnswer, Accounted

\* A request that ends without an answer from a route is recorded as such.
LEMMA UnansweredReturns ==
    ASSUME UsageShape, UNCHANGED <<collector, usageLog, clientGone>>,
           phase \notin {"return", "done", "end"}, phase' = "return",
           response'.sources = {}
    PROVE  UsageShape'
  BY DEF UsageShape, UsageMatchesAnswer, TellsAnswer

\* An attempt that fails before the commit leaves no answer to account for.
LEMMA FailedAttempt ==
    ASSUME NEW e, ReturnFromAttempt(FALSE, e), committed' = FALSE,
           IsRequestCanceled(FALSE, e) => clientGone'
    PROVE  phase' = "end" /\ Accounted'
  BY DEF ReturnFromAttempt, Accounted

\* The steps that return from an attempt account for it.
LEMMA ReturnsAreAccounted ==
    ASSUME IInv,
           \/ SlotRefused \/ EventTooLate \/ CommitLost \/ EndOfStream \/ StreamBroke
           \/ WriteChunk \/ Respond \/ UpstreamRefuses \/ NilStream,
           phase' = "end"
    PROVE  Accounted'
  <1> USE DEF outVars
  <1>a. committed \in BOOLEAN /\ response \in Response /\ streaming \in BOOLEAN
        /\ clientGone \in BOOLEAN
    BY DEF IInv, TypeOK
  <1>b. phase \in {"acquire", "call", "commit", "respond"} => committed = FALSE
    BY <1>a DEF IInv, CommitShape
  <1>c. timerCancelled => Expired
    BY DEF IInv, CommitShape, Expired
  <1>1. CASE SlotRefused
    <2>1. /\ phase = "acquire" /\ CtxDone /\ UNCHANGED <<committed, clientGone>>
          /\ ReturnFromAttempt(FALSE, IF Expired THEN FailoverBudgetError ELSE Plain("canceled"))
      BY <1>1 DEF SlotRefused
    <2>2. Expired \/ clientGone
      BY <1>c, <2>1 DEF CtxDone
    <2>3. QED
      BY <1>b, <2>1, <2>2, FailedAttempt, OwnErrorsAreKnown
  <1>2. CASE EventTooLate \/ CommitLost
    <2>1. /\ ReturnFromAttempt(FALSE, FailoverBudgetError) /\ UNCHANGED <<committed, clientGone>>
          /\ phase = "commit" \/ ~committed
      BY <1>2 DEF EventTooLate, CommitLost, FailAttemptWithBudget
    <2>2. QED
      BY <1>a, <1>b, <2>1, FailedAttempt, OwnErrorsAreKnown
  <1>3. CASE EndOfStream
    <2>1. phase = "event" /\ UNCHANGED <<committed, clientGone>>
      BY <1>3 DEF EndOfStream, InTime
    <2>2. committed => streaming
      BY <2>1 DEF IInv, CommitShape
    <2>3. CASE ~(IF streaming THEN committed ELSE semantic)
      <3>1. ReturnFromAttempt(FALSE, FailureError(NewFailure("Protocol", "Route")))
        BY <1>3, <2>3 DEF EndOfStream
      <3>2. committed' = FALSE
        BY <1>a, <2>1, <2>2, <2>3
      <3>3. QED
        BY <3>1, <3>2, FailedAttempt, OwnErrorsAreKnown
    <2>4. CASE streaming /\ committed
      <3>1. /\ response' = [response EXCEPT !.ending = "done"]
            /\ ReturnFromAttempt(TRUE, NoError)
        BY <1>3, <2>4 DEF EndOfStream
      <3>2. response'.ending = "done"
        BY <1>a, <3>1 DEF Response
      <3>3. QED
        BY <1>a, <2>1, <2>4, <3>1, <3>2, OwnErrorsAreKnown DEF ReturnFromAttempt, Accounted
    <2>5. CASE ~streaming /\ semantic
      BY <1>3, <2>5 DEF EndOfStream
    <2>6. QED
      BY <2>3, <2>4, <2>5
  <1>4. CASE StreamBroke
    <2>1. /\ phase = "event" /\ UNCHANGED <<committed, clientGone>>
          /\ ReturnFromAttempt(committed, arrived.err) /\ ~(Expired /\ ~committed)
          /\ arrived.kind = "error"
          /\ IF committed /\ IsRequestCanceled(clientGone, arrived.err)
             THEN UNCHANGED response
             ELSE response' = IF committed THEN [response EXCEPT !.ending = "error"]
                              ELSE response
      BY <1>4 DEF StreamBroke, InTime
    <2>2. /\ arrived.err # NoError
          /\ committed => streaming /\ ~timerCancelled /\ response = Forwarding
          /\ IsRequestCanceled(FALSE, arrived.err) => CtxDone
      BY <2>1 DEF IInv, AttemptShape, CommitShape, CancelShape, AnswerShape
    <2>3. IsRequestCanceled(FALSE, arrived.err) => clientGone
      BY <1>c, <2>1, <2>2 DEF CtxDone
    <2>4. Forwarding.ending = "open" /\ [Forwarding EXCEPT !.ending = "error"].ending = "error"
      BY DEF Forwarding
    <2>5. committed => response'.ending # "done"
      BY <2>1, <2>2, <2>4
    <2>6. committed /\ ~clientGone => response'.ending = "error"
      <3>1. ~clientGone => ~IsRequestCanceled(clientGone, arrived.err)
        BY <1>a, <2>3 DEF IsRequestCanceled
      <3>2. QED
        BY <2>1, <2>2, <2>4, <3>1
    <2>7. handled' = committed /\ err' = arrived.err
      BY <2>1 DEF ReturnFromAttempt
    <2>8. QED
      BY <2>1, <2>2, <2>3, <2>5, <2>6, <2>7 DEF Accounted
  <1>5. CASE WriteChunk
    <2>1. /\ phase = "write" /\ UNCHANGED <<committed, clientGone>>
          /\ arrived.kind = "finish" => response'.ending = "done" /\ ReturnFromAttempt(TRUE, NoError)
          /\ arrived.kind # "finish" => phase' = "next"
      BY <1>5 DEF WriteChunk
    <2>2. committed = TRUE
      BY <1>a, <2>1 DEF IInv, CommitShape
    <2>3. QED
      BY <2>1, <2>2, OwnErrorsAreKnown DEF ReturnFromAttempt, Accounted
  <1>6. CASE Respond
    <2>1. committed' = TRUE /\ response'.ending = "done" /\ ReturnFromAttempt(TRUE, NoError)
      BY <1>6 DEF Respond
    <2>2. QED
      BY <2>1, OwnErrorsAreKnown DEF ReturnFromAttempt, Accounted
  <1>7. CASE UpstreamRefuses
    <2>1. PICK e \in PossibleErrors :
             ReturnFromAttempt(FALSE, IF Expired THEN FailoverBudgetError ELSE e)
      BY <1>7 DEF UpstreamRefuses
    <2>2. phase = "call" /\ UNCHANGED <<committed, clientGone>>
      BY <1>7 DEF UpstreamRefuses
    <2>3. IsRequestCanceled(FALSE, e) => Expired \/ clientGone
      BY <1>c, Cancellations DEF CtxDone
    <2>4. IsRequestCanceled(FALSE, IF Expired THEN FailoverBudgetError ELSE e) => clientGone
      BY <2>3, OwnErrorsAreKnown
    <2>5. QED
      BY <1>b, <2>1, <2>2, <2>4, FailedAttempt
  <1>8. CASE NilStream
    <2>1. /\ phase = "call" /\ UNCHANGED <<committed, clientGone>>
          /\ ReturnFromAttempt(FALSE, FailureError(NewFailure("Protocol", "Route")))
      BY <1>8 DEF NilStream
    <2>2. QED
      BY <1>b, <2>1, FailedAttempt, OwnErrorsAreKnown
  <1>9. QED
    BY <1>1, <1>2, <1>3, <1>4, <1>5, <1>6, <1>7, <1>8

\* The record of the attempt that ends the request tells its answer.
LEMMA EndUsage == ASSUME IInv, UsageShape, EndAttempt PROVE UsageShape'
  <1>a. /\ phase = "end" /\ phase' \in {"loop", "finish", "return"}
        /\ phase' = "return" <=> handled
        /\ collector' = Recorded
        /\ UNCHANGED <<usageLog, clientGone, response>>
    BY DEF EndAttempt, CloseAttempt
  <1>b. /\ current \in Route /\ current # NoRoute
        /\ handled \/ err \in Error
        /\ Accounted
        /\ collector.finalRoute = NoRoute /\ collector.tokens = NoRoute
        /\ collector.result \notin {"success", "partial"}
        /\ collector.result = "canceled" => clientGone
        /\ usageLog = <<>>
    BY <1>a, NoRouteAssumption DEF IInv, AttemptShape, UsageShape, Accounted
  <1>c. /\ handled \in BOOLEAN /\ committed \in BOOLEAN /\ clientGone \in BOOLEAN
        /\ collector.result \in Result
    BY DEF IInv, TypeOK, UsageRecord
  <1>d. /\ Recorded.finalRoute = IF committed THEN current ELSE NoRoute
        /\ Recorded.tokens \in {NoRoute, Recorded.finalRoute}
    BY <1>b DEF Recorded
  <1>e. /\ err = NoError => Recorded.result = "success"
        /\ err # NoError /\ IsRequestCanceled(clientGone, err) => Recorded.result = "canceled"
        /\ err # NoError /\ ~IsRequestCanceled(clientGone, err) /\ committed
             => Recorded.result = "partial"
        /\ err # NoError /\ ~IsRequestCanceled(clientGone, err) /\ ~committed
             => Recorded.result = IF collector.result \in {"", "success"} THEN "failure"
                                  ELSE collector.result
    BY DEF Recorded
  <1>f. IsRequestCanceled(clientGone, err) => clientGone
    BY <1>b, <1>c DEF Accounted, IsRequestCanceled
  <1>g. clientGone => IsRequestCanceled(clientGone, err)
    BY DEF IsRequestCanceled
  <1>1. CASE ~handled
    <2>1. ~committed /\ err # NoError
      BY <1>1, <1>b, <1>c, ErrorForms DEF Accounted
    <2>2. /\ Recorded.result \notin {"success", "partial"}
          /\ Recorded.result = "canceled" => clientGone
      BY <1>b, <1>e, <1>f, <2>1
    <2>3. QED
      BY <1>1, <1>a, <1>b, <1>d, <2>1, <2>2 DEF UsageShape, UsageMatchesAnswer
  <1>2. CASE handled
    <2>1. committed /\ response.sources = {current}
      BY <1>2, <1>a, <1>b, <1>c DEF Accounted, IInv, AnswerShape
    <2>2. Recorded.result = "success" <=> response.ending = "done"
      BY <1>2, <1>b, <1>e, <2>1 DEF Accounted
    <2>3. Recorded.result = "partial" => response.ending = "error"
      BY <1>2, <1>b, <1>e, <1>g, <2>1 DEF Accounted
    <2>4. Recorded.result = "canceled" => clientGone
      BY <1>e, <1>f, <2>1
    <2>5. TellsAnswer(Recorded)
      BY <1>b, <1>d, <2>1, <2>2, <2>3, <2>4 DEF TellsAnswer
    <2>6. TellsAnswer(collector)'
      BY <1>a, <2>5 DEF TellsAnswer
    <2>7. QED
      BY <1>2, <1>a, <1>b, <2>4, <2>6 DEF UsageShape, UsageMatchesAnswer
  <1>3. QED
    BY <1>1, <1>2

\* The usage log is written once, when the handler returns.
LEMMA StepUsage == IInv /\ UsageShape /\ [Next]_vars => UsageShape'
  <1> SUFFICES ASSUME IInv, UsageShape, [Next]_vars PROVE UsageShape'
    OBVIOUS
  <1> USE DEF loopVars, attemptVars, outVars
  <1>a. phase \in {"resolve", "loop", "finish"} => response.sources = {}
    BY DEF IInv, AnswerShape, NothingWritten
  <1>1. CASE RefuseBody
    <2>1. phase = "idle" /\ phase' = "done" /\ UNCHANGED <<collector, usageLog, clientGone>>
      BY <1>1 DEF RefuseBody
    <2>2. QED
      BY <2>1 DEF UsageShape, UsageMatchesAnswer
  <1>2. CASE AcceptBody \/ ResolveCandidates \/ LoopExhausted
    <2>1. /\ phase \notin {"return", "done", "end"} /\ phase' \notin {"return", "done", "end"}
          /\ UNCHANGED <<collector, usageLog, clientGone>>
      BY <1>2 DEF AcceptBody, ResolveCandidates, LoopExhausted
    <2>2. QED
      BY <2>1, InnerSteps
  <1>3. CASE RefuseRequest
    <2>1. /\ phase = "resolve" /\ phase' = "return"
          /\ UNCHANGED <<collector, usageLog, clientGone>>
          /\ \E status : WriteError(status)
      BY <1>3 DEF RefuseRequest
    <2>2. response'.sources = {}
      BY <1>a, <2>1 DEF WriteError
    <2>3. QED
      BY <2>1, <2>2, UnansweredReturns
  <1>4. CASE LoopCanceled
    <2>1. /\ phase = "loop" /\ phase' = "return"
          /\ UNCHANGED <<collector, usageLog, clientGone, response>>
      BY <1>4 DEF LoopCanceled
    <2>2. QED
      BY <1>a, <2>1, UnansweredReturns
  <1>5. CASE Finish
    <2>1. /\ phase = "finish" /\ phase' = "return"
          /\ UNCHANGED <<collector, usageLog, clientGone>>
          /\ response' = response \/ \E status : WriteError(status)
      BY <1>5 DEF Finish
    <2>2. response'.sources = {}
      BY <1>a, <2>1 DEF WriteError
    <2>3. QED
      BY <2>1, <2>2, UnansweredReturns
  <1>6. CASE RecordUsage
    <2> DEFINE u == [collector EXCEPT !.result =
                       IF @ # "" THEN @ ELSE IF clientGone THEN "canceled" ELSE "failure"]
    <2>1. /\ phase = "return" /\ phase' = "done" /\ usageLog' = Append(usageLog, u)
          /\ UNCHANGED <<collector, clientGone, response>>
      BY <1>6 DEF RecordUsage
    <2>2. usageLog = <<>> /\ TellsAnswer(collector) /\ (collector.result = "canceled" => clientGone)
      BY <2>1 DEF UsageShape
    <2>3. /\ u.finalRoute = collector.finalRoute /\ u.tokens = collector.tokens
          /\ u.result = IF collector.result # "" THEN collector.result
                        ELSE IF clientGone THEN "canceled" ELSE "failure"
      BY DEF IInv, TypeOK, UsageRecord
    <2> HIDE DEF u
    <2>4. TellsAnswer(u)
      BY <2>2, <2>3 DEF TellsAnswer
    <2>5. usageLog' = <<u>>
      BY <2>1, <2>2
    <2>6. Len(usageLog') = 1 /\ usageLog'[1] = u
      BY <2>5
    <2>7. TellsAnswer(usageLog[1])'
      BY <2>1, <2>4, <2>6 DEF TellsAnswer
    <2>8. QED
      BY <2>1, <2>2, <2>6, <2>7 DEF UsageShape, UsageMatchesAnswer
  <1>7. ASSUME NEW r \in Route, StartAttempt(r) PROVE UsageShape'
    <2>1. /\ phase = "loop" /\ phase' = "acquire"
          /\ UNCHANGED <<collector, usageLog, clientGone>>
      BY <1>7 DEF StartAttempt
    <2>2. QED
      BY <2>1, InnerSteps
  <1>8. CASE \/ SlotRefused \/ EventTooLate \/ CommitLost \/ EndOfStream \/ StreamBroke
             \/ WriteChunk \/ Respond \/ UpstreamRefuses \/ NilStream
    <2>1. /\ phase \notin {"return", "done", "end"} /\ phase' \notin {"return", "done"}
          /\ UNCHANGED <<collector, usageLog, clientGone>>
      <3>1. CASE SlotRefused \/ EventTooLate \/ CommitLost
        BY <3>1 DEF SlotRefused, EventTooLate, CommitLost, FailAttemptWithBudget,
                    ReturnFromAttempt
      <3>2. CASE EndOfStream \/ StreamBroke \/ WriteChunk \/ Respond
        BY <3>2 DEF EndOfStream, StreamBroke, WriteChunk, Respond, InTime, ReturnFromAttempt
      <3>3. CASE UpstreamRefuses \/ NilStream
        BY <3>3 DEF UpstreamRefuses, NilStream, ReturnFromAttempt
      <3>4. QED
        BY <1>8, <3>1, <3>2, <3>3
    <2>2. phase' = "end" => Accounted'
      BY <1>8, ReturnsAreAccounted
    <2>3. QED
      BY <2>1, <2>2, InnerSteps
  <1>9. CASE Heartbeat \/ SemanticEvent \/ Commit
    <2>1. /\ phase \notin {"return", "done", "end"} /\ phase' \notin {"return", "done", "end"}
          /\ UNCHANGED <<collector, usageLog, clientGone>>
      BY <1>9 DEF Heartbeat, SemanticEvent, Commit, InTime
    <2>2. QED
      BY <2>1, InnerSteps
  <1>10. CASE AcquireSlot \/ UpstreamAccepts \/ (\E ev \in UpstreamEvents : NextReturns(ev))
    <2>1. /\ phase \notin {"return", "done", "end"} /\ phase' \notin {"return", "done", "end"}
          /\ UNCHANGED <<collector, usageLog, clientGone>>
      BY <1>10 DEF AcquireSlot, UpstreamAccepts, NextReturns
    <2>2. QED
      BY <2>1, InnerSteps
  <1>11. CASE EndAttempt
    BY <1>11, EndUsage
  <1>12. CASE DeadlinePasses \/ TimerExpires \/ TimerCancels \/ UNCHANGED vars
    <2>1. UNCHANGED <<phase, collector, usageLog, clientGone, response, handled, err, committed>>
      BY <1>12 DEF DeadlinePasses, TimerExpires, TimerCancels, vars
    <2>2. QED
      BY <2>1 DEF UsageShape, UsageMatchesAnswer, TellsAnswer
  <1>13. CASE ClientLeaves
    <2>1. /\ UNCHANGED <<phase, collector, usageLog, response, handled, err, committed>>
          /\ phase # "done" /\ clientGone' = TRUE
      BY <1>13 DEF ClientLeaves
    <2>2. QED
      BY <2>1 DEF UsageShape, UsageMatchesAnswer, TellsAnswer
  <1>14. QED
    BY <1>1, <1>2, <1>3, <1>4, <1>5, <1>6, <1>7, <1>8, <1>9, <1>10, <1>11, <1>12, <1>13
       DEF Next, HandlerStep, UpstreamStep, Terminated

\* The usage record tells every attempt once, and the outcome, the final route
\* and the tokens of the answer the client received (UsageIsTrue).
THEOREM UsageIsAlwaysTrue == Spec => []UsageIsTrue
  <1>1. Init => UsageShape
    <2> SUFFICES ASSUME Init PROVE UsageShape
      OBVIOUS
    <2>1. /\ phase = "idle" /\ usageLog = <<>>
          /\ collector.finalRoute = NoRoute /\ collector.tokens = NoRoute
          /\ collector.result = ""
      BY DEF Init, NewCollector
    <2>2. QED
      BY <2>1 DEF UsageShape, UsageMatchesAnswer
  <1>2. UsageShape /\ RecordShape => UsageIsTrue
    BY DEF UsageShape, RecordShape, UsageIsTrue
  <1>3. QED
    BY <1>1, <1>2, StepUsage, RecordsHold, InvariantHolds, PTL DEF Spec
============================================================================
