--------------------------- MODULE ProviderProofs ---------------------------
(***************************************************************************)
(* The two sides of a call to a provider: the stream that answers it and   *)
(* the slot it takes.                                                      *)
(*                                                                         *)
(* For answers of any length: the stream of every provider adapter gives   *)
(* what the upstream said and keeps the contract of provider.ChatStream,   *)
(* and a caller that has left is no reason to blame a route.               *)
(*                                                                         *)
(* For any callers, providers and caps: the health manager counts its      *)
(* callers right, strands none of them, and keeps the limit of SlotLimit.  *)
(***************************************************************************)
EXTENDS ProviderStream, ProviderSlots, FiniteSetTheorems, TLAPS

\* The lines of a body are a sequence within the bound; a document is one line.
LEMMA BodyForm ==
    ASSUME NEW b \in Body \cup ErrorBody
    PROVE  /\ b.lines \in Seq(Line) /\ Len(b.lines) \in 0..MaxLines
           /\ b.ending \in Ending
           /\ b \in DocumentBody => Len(b.lines) = 1
  <1>1. ASSUME NEW n \in Nat, NEW l \in [1..n -> Line]
        PROVE  l \in Seq(Line) /\ Len(l) = n
    OBVIOUS
  <1>2. CASE b \in DocumentBody
    <2>1. b.lines \in [1..1 -> Line] /\ b.ending \in Ending
      BY <1>2 DEF DocumentBody, Document, Line
    <2>2. b.lines \in Seq(Line) /\ Len(b.lines) = 1
      BY <1>1, <2>1
    <2>3. QED
      BY <2>1, <2>2, MaxLinesAssumption
  <1>3. CASE b \in EventBody \ DocumentBody
    <2>1. b.lines \in Lines /\ b.ending \in Ending
      BY <1>3 DEF EventBody
    <2>2. PICK n \in 0..MaxLines : b.lines \in [1..n -> Line]
      BY <2>1 DEF Lines
    <2>3. b.lines \in Seq(Line) /\ Len(b.lines) = n
      BY <1>1, <2>2, MaxLinesAssumption
    <2>4. QED
      BY <1>3, <2>1, <2>2, <2>3
  <1>4. CASE b \in ErrorBody \ DocumentBody
    <2>1. b.lines = <<>> /\ b.ending \in Ending
      BY <1>4 DEF ErrorBody, Ending
    <2>2. QED
      BY <1>4, <2>1, MaxLinesAssumption
  <1>5. QED
    BY <1>2, <1>3, <1>4 DEF Body

\* How an attempt or a read may end without an answer is a known result.
LEMMA ResultForms ==
    /\ \A k \in {"none", "unsupported", "stream", "event", "eof", "canceled", "deadline"} :
          Plain(k) \in Result
    /\ \A c \in {"Auth", "BadRequest", "Canceled", "Network", "Protocol", "RateLimited",
                 "ServerError", "Timeout"}, s \in {"Request", "Route", "Credential"} :
          Failure(c, s) \in Result
  <1>1. \A k \in {"none", "unsupported", "stream", "event", "eof", "canceled", "deadline"} :
          Plain(k) \in Result
    BY SMT DEF Result
  <1>2. ASSUME NEW c \in {"Auth", "BadRequest", "Canceled", "Network", "Protocol", "RateLimited",
                          "ServerError", "Timeout"},
               NEW s \in {"Request", "Route", "Credential"}
        PROVE  Failure(c, s) \in Result
    BY SMT DEF Result
  <1>3. QED
    BY <1>1, <1>2

\* What each adapter refuses before it sends anything.
Refused == {Fault \ {"none"}, {"unsupported", "malformed"}}

\* A step of a call, without its adapter ...
CallStep ==
    \/ \E refused \in Refused : RefuseUnsent(refused) \/ Send(refused)
    \/ SendFails \/ TurnedDown \/ Drain \/ Accepted \/ DocumentParsed
    \/ call.adapter = "opencode" /\ DocumentUnreadable(ExchangeFailure("Protocol"), "canceled")
    \/ call.adapter # "opencode" /\ DocumentUnreadable(Failure("Protocol", "Route"), "closed")
    \/ \E released \in {"canceled", "closed"} : DocumentRejected(released)
    \/ OwnTimeout \/ CtxDone

\* ... and one of its stream.
StreamStep ==
    \/ SharedNext \/ ReadTail \/ Close
    \/ DropsTail /\ DropTail

\* Every step of an adapter is one of these.
LEMMA StepKinds == [Next]_vars => CallStep \/ StreamStep \/ UNCHANGED vars
  <1> SUFFICES ASSUME Next PROVE CallStep \/ StreamStep
    OBVIOUS
  <1>1. CASE OpenCodeCall
    BY <1>1 DEF OpenCodeCall, Exchange, CallStep, Refused
  <1>2. CASE NvidiaCall \/ XaiCall \/ GeminiCall
    BY <1>2 DEF NvidiaCall, XaiCall, GeminiCall, SharedCall, Exchange, CallStep, Refused
  <1>3. CASE OpenCodeNext \/ NvidiaNext \/ XaiNext \/ GeminiNext
    BY <1>3 DEF OpenCodeNext, NvidiaNext, XaiNext, GeminiNext, StreamStep, DropsTail
  <1>4. CASE OwnTimeout \/ Close \/ CtxDone
    BY <1>4 DEF CallStep, StreamStep
  <1>5. QED
    BY <1>1, <1>2, <1>3, <1>4 DEF Next

----------------------------------------------------------------------------
(* Types and shape. *)

\* What a line does to the stream: an event, the end of it, or nothing yet.
LEMMA InterpretForms ==
    ASSUME NEW line, NEW after, Interpret(line, after)
    PROVE  /\ read' = read + 1
           /\ \/ /\ line = "delta" /\ out' = Append(out, read + 1)
                 /\ result' = Plain("event") /\ end' = after /\ place' = "idle"
              \/ /\ line = "done" /\ out' = out
                 /\ result' = Plain("eof") /\ end' = "eof" /\ place' = "idle"
              \/ /\ line = "garbage" /\ out' = out
                 /\ result' = Failure("Protocol", "Route") /\ end' = "error" /\ place' = "idle"
              \/ /\ line \notin {"delta", "done", "garbage"}
                 /\ end' = after /\ UNCHANGED <<out, place, result>>
  BY DEF Interpret, ReturnNext

\* The failures a call can end with before there is an answer are known.
LEMMA FailureForms ==
    /\ \A f : FaultFailure(f) \in Result
    /\ \A w \in {"Network", "Protocol"} : ExchangeFailure(w) \in Result
    /\ \A s : StatusFailure(s) \in Result
    /\ CtxErr \in Result
  <1>1. \A f : FaultFailure(f) \in Result
    BY ResultForms DEF FaultFailure
  <1>2. ASSUME NEW w \in {"Network", "Protocol"} PROVE ExchangeFailure(w) \in Result
    BY ResultForms DEF ExchangeFailure, GoneFailure
  <1>3. \A s : StatusFailure(s) \in Result
    BY ResultForms DEF StatusFailure
  <1>4. CtxErr \in Result
    BY ResultForms DEF CtxErr
  <1>5. QED
    BY <1>1, <1>2, <1>3, <1>4

\* A call not yet opened keeps the invariant.
LEMMA CallKeeps == ASSUME IInv, CallStep PROVE IInv'
  <1> USE DEF IInv, TypeOK, StreamShape
  <1>a. \A b \in Body \cup ErrorBody : Len(b.lines) \in 0..MaxLines /\ b.ending \in Ending
    BY BodyForm
  <1>1. ASSUME NEW refused \in Refused, RefuseUnsent(refused) PROVE IInv'
    BY <1>1, FailureForms DEF RefuseUnsent, ReturnError, Place
  <1>2. ASSUME NEW refused \in Refused, Send(refused) PROVE IInv'
    BY <1>2 DEF Send, Place
  <1>3. CASE SendFails
    BY <1>3, FailureForms DEF SendFails, ReturnError, Place
  <1>4. CASE TurnedDown
    <2>1. result' \in Result
      BY <1>4, FailureForms DEF TurnedDown
    <2>2. answer' \in Body \cup ErrorBody /\ 0 \in 0..Len(answer'.lines)
      BY <1>4, <1>a DEF TurnedDown
    <2>3. QED
      BY <1>4, <2>1, <2>2 DEF TurnedDown, Place
  <1>5. CASE Drain
    BY <1>5 DEF Drain, Place
  <1>6. CASE Accepted
    <2>1. answer' \in Body \cup ErrorBody /\ 0 \in 0..Len(answer'.lines)
      BY <1>6, <1>a DEF Accepted, Body
    <2>2. ~call.stream => Len(answer'.lines) = 1
      BY <1>6, <2>1, BodyForm DEF Accepted
    <2>3. result' \in Result
      BY <1>6, ResultForms DEF Accepted
    <2>4. QED
      BY <1>6, <2>1, <2>2, <2>3 DEF Accepted, Place
  <1>7. CASE DocumentParsed
    BY <1>7, ResultForms DEF DocumentParsed, Place
  <1>8. ASSUME NEW f \in Result, NEW released \in {"canceled", "closed"},
               DocumentUnreadable(f, released)
        PROVE  IInv'
    BY <1>8 DEF DocumentUnreadable, ReturnError, Place
  <1>9. ASSUME NEW released \in {"canceled", "closed"}, DocumentRejected(released) PROVE IInv'
    BY <1>9, ResultForms DEF DocumentRejected, ReturnError, Place
  <1>10. CASE OwnTimeout
    BY <1>10 DEF OwnTimeout
  <1>11. CASE CtxDone
    BY <1>11 DEF CtxDone
  <1>12. QED
    BY <1>1, <1>2, <1>3, <1>4, <1>5, <1>6, <1>7, <1>8, <1>9, <1>10, <1>11,
       FailureForms, ResultForms DEF CallStep

\* So does a line that is read from a stream.
LEMMA LineKeeps ==
    ASSUME IInv, place = "reading", NEW line, NEW after \in {"open", "eof"},
           read < Len(answer.lines), Interpret(line, after),
           after = "eof" => read + 1 = Len(answer.lines),
           UNCHANGED <<call, ctx, due, answer, body>>
    PROVE  IInv'
  <1>a. /\ read \in Nat /\ Len(answer.lines) \in 0..MaxLines /\ out \in Seq(1..MaxLines)
        /\ MaxLines \in Nat
    BY BodyForm, MaxLinesAssumption DEF IInv, TypeOK
  <1>b. /\ read' = read + 1 /\ read' \in 0..Len(answer.lines) /\ read + 1 \in 1..MaxLines
        /\ read \in 1..MaxLines \/ read = 0
    BY <1>a, InterpretForms
  <1>c. /\ out' = out \/ out' = Append(out, read + 1)
        /\ result' \in Result
        /\ end' \in {"open", "eof", "error"}
        /\ place' \in {"idle", "reading"}
        /\ place' = "reading" => end' = after
    BY InterpretForms, ResultForms DEF IInv, TypeOK
  <1>d. out' \in Seq(1..MaxLines) /\ \A k \in DOMAIN out' : out'[k] \in 1..(read + 1)
    <2>1. \A k \in DOMAIN out : out[k] \in 1..read
      BY DEF IInv, StreamShape
    <2>2. 1..read \subseteq 1..(read + 1) /\ read + 1 \in 1..(read + 1)
      BY <1>a
    <2>3. CASE out' = out
      BY <1>a, <2>1, <2>2, <2>3
    <2>4. CASE out' = Append(out, read + 1)
      <3>1. /\ Append(out, read + 1) \in Seq(1..MaxLines)
            /\ DOMAIN Append(out, read + 1) = DOMAIN out \cup {Len(out) + 1}
            /\ Append(out, read + 1)[Len(out) + 1] = read + 1
            /\ \A k \in DOMAIN out : Append(out, read + 1)[k] = out[k]
        BY <1>a, <1>b
      <3>2. QED
        BY <2>1, <2>2, <2>4, <3>1
    <2>5. QED
      BY <1>c, <2>3, <2>4
  <1>e. call.stream
    BY DEF IInv, StreamShape
  <1>1. TypeOK'
    BY <1>a, <1>b, <1>c, <1>d DEF IInv, TypeOK, Place
  <1>2. StreamShape'
    BY <1>a, <1>b, <1>c, <1>d, <1>e DEF StreamShape
  <1>3. QED
    BY <1>1, <1>2 DEF IInv

\* So does everything that happens to a stream.
LEMMA StreamKeeps == ASSUME IInv, StreamStep PROVE IInv'
  <1>a. place = "reading" /\ end # "open" => read = Len(answer.lines)
    BY DEF IInv, StreamShape
  <1>b. read \in Nat /\ Len(answer.lines) \in Nat /\ end \in {"open", "eof", "error"}
    BY BodyForm, MaxLinesAssumption DEF IInv, TypeOK
  <1>c. Plain("eof") \in Result /\ Plain("event") \in Result /\ CtxErr \in Result
        /\ Failure("Protocol", "Route") \in Result
    BY ResultForms, FailureForms
  <1>1. CASE BeginNext
    BY <1>1 DEF BeginNext, IInv, TypeOK, StreamShape, Place
  <1>2. ASSUME NEW r \in Result, NEW reason \in {"open", "eof", "error"}, ReturnNext(r, reason),
               end # "open" => reason # "open", place \in {"idle", "reading"},
               reason = "open" => call.stream, place = "idle" => end # "open",
               UNCHANGED <<call, ctx, due, answer, read, out, body>>
        PROVE  IInv'
    BY <1>2 DEF ReturnNext, IInv, TypeOK, StreamShape, Place
  <1>3. CASE NextAfterEnd
    BY <1>b, <1>c, <1>2, <1>3 DEF NextAfterEnd
  <1>4. CASE NextOfDocument
    <2>1. /\ ~call.stream /\ place = "idle" /\ read' = 1 /\ out' = <<1>>
          /\ result' = Plain("event") /\ end' = "eof" /\ place' = "idle"
          /\ UNCHANGED <<call, ctx, due, answer, body>>
      BY <1>4 DEF NextOfDocument, ReturnNext
    <2>2. Len(answer.lines) = 1
      BY <2>1 DEF IInv, StreamShape
    <2>3. <<1>> \in Seq(1..MaxLines) /\ \A k \in DOMAIN <<1>> : <<1>>[k] \in 1..1
      BY MaxLinesAssumption
    <2>4. QED
      BY <1>c, <2>1, <2>2, <2>3 DEF IInv, TypeOK, StreamShape, Place
  <1>5. CASE CtxEnds
    BY <1>c, <1>2, <1>5 DEF CtxEnds
  <1>6. CASE ReadLine
    <2>1. /\ place = "reading" /\ read < Len(answer.lines)
          /\ Interpret(answer.lines[read + 1], end)
          /\ UNCHANGED <<call, ctx, due, answer, body>>
      BY <1>6 DEF ReadLine
    <2>2. end = "open"
      BY <1>a, <1>b, <2>1
    <2>3. QED
      BY <2>1, <2>2, LineKeeps
  <1>7. CASE BodyEnds
    <2>1. \E r \in Result, reason \in {"eof", "error"} : ReturnNext(r, reason)
      BY <1>c, <1>7 DEF BodyEnds
    <2>2. QED
      BY <1>2, <1>7, <2>1 DEF BodyEnds
  <1>8. CASE DropTail
    BY <1>c, <1>2, <1>8 DEF DropTail
  <1>9. CASE ReadTail
    <2>1. /\ place = "reading" /\ read + 1 = Len(answer.lines) /\ read < Len(answer.lines)
          /\ UNCHANGED <<call, ctx, due, answer, body>>
          /\ \/ Interpret(answer.lines[read + 1], "eof")
             \/ read' = read + 1 /\ ReturnNext(Plain("eof"), "eof") /\ UNCHANGED out
      BY <1>b, <1>9 DEF ReadTail, AtTail
    <2>2. CASE Interpret(answer.lines[read + 1], "eof")
      BY <2>1, <2>2, LineKeeps
    <2>3. CASE read' = read + 1 /\ ReturnNext(Plain("eof"), "eof") /\ UNCHANGED out
      <3>1. read' \in 0..Len(answer.lines) /\ 1..read \subseteq 1..read'
        BY <1>b, <2>1, <2>3
      <3>2. QED
        BY <1>c, <2>1, <2>3, <3>1 DEF ReturnNext, IInv, TypeOK, StreamShape, Place
    <2>4. QED
      BY <2>1, <2>2, <2>3
  <1>10. CASE Close
    BY <1>10 DEF Close, IInv, TypeOK, StreamShape, Place
  <1>11. QED
    BY <1>1, <1>3, <1>4, <1>5, <1>6, <1>7, <1>8, <1>9, <1>10 DEF StreamStep, SharedNext

\* A call that has not begun has the invariant.
LEMMA InitStream == Init => IInv
  <1> SUFFICES ASSUME Init PROVE IInv
    OBVIOUS
  <1>1. NoAnswer \in ErrorBody /\ Len(NoAnswer.lines) = 0
    BY DEF NoAnswer, ErrorBody
  <1>2. TypeOK
    <2>1. /\ answer \in Body \cup ErrorBody /\ read \in 0..Len(answer.lines)
          /\ result \in Result
      BY <1>1, ResultForms DEF Init
    <2>2. out \in Seq(1..MaxLines)
      BY DEF Init
    <2>3. QED
      BY <2>1, <2>2 DEF Init, TypeOK, Place
  <1>3. StreamShape
    BY DEF Init, StreamShape
  <1>4. QED
    BY <1>2, <1>3 DEF IInv

\* Shape and types hold of every call and its stream.
THEOREM StreamInvariant == Spec => []IInv
  <1>1. IInv /\ UNCHANGED vars => IInv'
    BY DEF vars, IInv, TypeOK, StreamShape
  <1>2. IInv /\ [Next]_vars => IInv'
    BY <1>1, StepKinds, CallKeeps, StreamKeeps
  <1>3. QED
    BY <1>2, InitStream, PTL DEF Spec

\* Every variable of a call has its type, no line is read that is not there, and
\* a call that is over holds no response body (TypeOK).
THEOREM StreamTypes == Spec => []TypeOK
  <1>1. IInv => TypeOK
    BY DEF IInv
  <1>2. QED
    BY <1>1, StreamInvariant, PTL

----------------------------------------------------------------------------
(* What is delivered. *)

\* The lines that became events.
Heard == {out[k] : k \in DOMAIN out}

\* What was read but is not an event was no delta.
HeardAll == Heard = {i \in 1..read : answer.lines[i] = "delta"}

\* Nothing is unread after the end of a stream, but for what it may leave out.
AllRead ==
    end = "eof" =>
      \A i \in read+1..Len(answer.lines) :
         \/ \E j \in 1..read : Stops(j)
         \/ DropsTail /\ answer.ending = "cut" /\ i = Len(answer.lines)

\* A line that is read is heard exactly if it is a delta.
LEMMA LineIsHeard ==
    ASSUME IInv, HeardAll, NEW after, Interpret(answer.lines[read + 1], after),
           UNCHANGED answer
    PROVE  HeardAll'
  <1>a. read \in Nat /\ out \in Seq(1..MaxLines)
    BY BodyForm, MaxLinesAssumption DEF IInv, TypeOK
  <1>b. 1..(read + 1) = 1..read \cup {read + 1}
    BY <1>a
  <1>1. CASE answer.lines[read + 1] = "delta"
    <2>1. out' = Append(out, read + 1) /\ read' = read + 1
      BY <1>1, InterpretForms
    <2>2. /\ DOMAIN Append(out, read + 1) = DOMAIN out \cup {Len(out) + 1}
          /\ Append(out, read + 1)[Len(out) + 1] = read + 1
          /\ \A k \in DOMAIN out : Append(out, read + 1)[k] = out[k]
      BY <1>a
    <2>3. Heard' = Heard \cup {read + 1}
      BY <2>1, <2>2 DEF Heard
    <2>4. QED
      BY <1>1, <1>b, <2>1, <2>3 DEF HeardAll
  <1>2. CASE answer.lines[read + 1] # "delta"
    <2>1. out' = out /\ read' = read + 1
      BY <1>2, InterpretForms
    <2>2. Heard' = Heard
      BY <2>1 DEF Heard
    <2>3. QED
      BY <1>2, <1>b, <2>1, <2>2 DEF HeardAll
  <1>3. QED
    BY <1>1, <1>2

\* Before there is a stream nothing is read and nothing has ended.
LEMMA UnopenedIsUnheard ==
    ASSUME read = 0, out = <<>>, end = "open"
    PROVE  HeardAll /\ AllRead
  <1>1. Heard = {} /\ {i \in 1..0 : answer.lines[i] = "delta"} = {}
    BY DEF Heard
  <1>2. QED
    BY <1>1 DEF HeardAll, AllRead

\* Every delta up to the end of the stream is an event and nothing else is
\* (DeliversWhatWasSaid).
LEMMA StepDelivers == IInv /\ DeliversWhatWasSaid /\ [Next]_vars => DeliversWhatWasSaid'
  <1> SUFFICES ASSUME IInv, DeliversWhatWasSaid, [Next]_vars PROVE DeliversWhatWasSaid'
    OBVIOUS
  <1>a. DeliversWhatWasSaid <=> (call.stream => HeardAll /\ AllRead)
    BY DEF DeliversWhatWasSaid, HeardAll, AllRead, Heard
  <1>b. DeliversWhatWasSaid' <=> (call'.stream => HeardAll' /\ AllRead')
    BY DEF DeliversWhatWasSaid, HeardAll, AllRead, Heard, Stops, DropsTail
  <1>c. read \in Nat /\ Len(answer.lines) \in Nat /\ end \in {"open", "eof", "error"}
    BY BodyForm, MaxLinesAssumption DEF IInv, TypeOK
  <1>d. place = "reading" => call.stream
    BY DEF IInv, StreamShape
  <1>1. CASE CallStep
    <2>1. call' = call /\ UNCHANGED <<read, end, out>>
      <3>1. CASE \E refused \in Refused : RefuseUnsent(refused) \/ Send(refused)
        BY <3>1 DEF RefuseUnsent, Send
      <3>2. CASE SendFails \/ TurnedDown \/ Drain \/ Accepted \/ DocumentParsed
        BY <3>2 DEF SendFails, TurnedDown, Drain, Accepted, DocumentParsed
      <3>3. CASE \/ \E f, released : DocumentUnreadable(f, released)
                 \/ \E released \in {"canceled", "closed"} : DocumentRejected(released)
        BY <3>3 DEF DocumentUnreadable, DocumentRejected
      <3>4. CASE OwnTimeout \/ CtxDone
        BY <3>4 DEF OwnTimeout, CtxDone
      <3>5. QED
        BY <1>1, <3>1, <3>2, <3>3, <3>4 DEF CallStep
    <2>2. \/ answer' = answer
          \/ place = "sent"
      <3>1. CASE \E refused \in Refused : RefuseUnsent(refused) \/ Send(refused)
        BY <3>1 DEF RefuseUnsent, Send
      <3>2. CASE SendFails \/ TurnedDown \/ Drain \/ Accepted \/ DocumentParsed
        BY <3>2 DEF SendFails, TurnedDown, Drain, Accepted, DocumentParsed
      <3>3. CASE \/ \E f, released : DocumentUnreadable(f, released)
                 \/ \E released \in {"canceled", "closed"} : DocumentRejected(released)
        BY <3>3 DEF DocumentUnreadable, DocumentRejected
      <3>4. CASE OwnTimeout \/ CtxDone
        BY <3>4 DEF OwnTimeout, CtxDone
      <3>5. QED
        BY <1>1, <3>1, <3>2, <3>3, <3>4 DEF CallStep
    <2>3. CASE answer' = answer
      BY <2>1, <2>3 DEF DeliversWhatWasSaid, Stops, DropsTail
    <2>4. CASE place = "sent"
      <3>1. read' = 0 /\ out' = <<>> /\ end' = "open"
        BY <2>1, <2>4 DEF IInv, StreamShape
      <3>2. {out'[k] : k \in DOMAIN out'} = {}
        BY <3>1
      <3>3. {i \in 1..read' : answer'.lines[i] = "delta"} = {}
        BY <3>1
      <3>4. QED
        BY <3>1, <3>2, <3>3 DEF DeliversWhatWasSaid
    <2>5. QED
      BY <2>2, <2>3, <2>4
  <1>2. ASSUME UNCHANGED <<call, answer, read, out>>, end' # "eof" \/ end = "eof"
        PROVE  DeliversWhatWasSaid'
    BY <1>2 DEF DeliversWhatWasSaid, Stops, DropsTail
  <1>3. CASE BeginNext \/ NextAfterEnd \/ CtxEnds \/ Close \/ UNCHANGED vars
    BY <1>2, <1>3 DEF BeginNext, NextAfterEnd, CtxEnds, Close, ReturnNext, vars
  <1>4. CASE NextOfDocument
    BY <1>4 DEF NextOfDocument, DeliversWhatWasSaid
  <1>5. CASE ReadLine
    <2>1. /\ place = "reading" /\ read < Len(answer.lines)
          /\ Interpret(answer.lines[read + 1], end)
          /\ UNCHANGED <<call, answer>>
      BY <1>5 DEF ReadLine
    <2>2. end = "open"
      BY <1>c, <2>1 DEF IInv, StreamShape
    <2>3. HeardAll'
      BY <1>a, <1>d, <2>1, LineIsHeard
    <2>4. read' = read + 1 /\ (end' = "eof" => answer.lines[read + 1] = "done")
      BY <2>1, <2>2, InterpretForms
    <2>5. AllRead'
      <3> SUFFICES ASSUME end' = "eof" PROVE \E j \in 1..read' : Stops(j)'
        BY DEF AllRead
      <3>1. read + 1 \in 1..read' /\ answer'.lines[read + 1] = "done"
        BY <1>c, <2>1, <2>4
      <3>2. QED
        BY <3>1 DEF Stops
    <2>6. QED
      BY <1>b, <2>3, <2>5
  <1>6. ASSUME read' = Len(answer'.lines), HeardAll' PROVE DeliversWhatWasSaid'
    <2>1. read'+1..Len(answer'.lines) = {}
      <3>1. Len(answer'.lines) \in Nat
        <4>1. IInv'
          <5>1. IInv /\ UNCHANGED vars => IInv'
            BY DEF vars, IInv, TypeOK, StreamShape
          <5>2. QED
            BY <5>1, StepKinds, CallKeeps, StreamKeeps
        <4>2. \A b \in Body \cup ErrorBody : Len(b.lines) \in Nat
          BY BodyForm, MaxLinesAssumption
        <4>3. answer' \in Body \cup ErrorBody
          BY <4>1 DEF IInv, TypeOK
        <4>4. QED
          BY <4>2, <4>3
      <3>2. QED
        BY <1>6, <3>1
    <2>2. AllRead'
      BY <2>1 DEF AllRead
    <2>3. QED
      BY <1>6, <1>b, <2>2
  <1>7. CASE BodyEnds
    <2>1. /\ read' = Len(answer'.lines) /\ UNCHANGED <<call, answer, read, out>>
          /\ place = "reading"
      BY <1>7 DEF BodyEnds
    <2>2. HeardAll'
      BY <1>a, <1>d, <2>1 DEF HeardAll, Heard
    <2>3. QED
      BY <1>6, <2>1, <2>2
  <1>8. CASE DropsTail /\ DropTail
    <2>1. /\ DropsTail /\ read + 1 = Len(answer.lines) /\ answer.ending = "cut"
          /\ UNCHANGED <<call, answer, read, out>> /\ place = "reading"
      BY <1>8 DEF DropTail, AtTail
    <2>2. HeardAll'
      BY <1>a, <1>d, <2>1 DEF HeardAll, Heard
    <2>3. AllRead'
      BY <1>c, <2>1 DEF AllRead, DropsTail
    <2>4. QED
      BY <1>b, <2>2, <2>3
  <1>9. CASE ReadTail
    <2>1. /\ place = "reading" /\ read + 1 = Len(answer.lines) /\ UNCHANGED <<call, answer>>
          /\ \/ Interpret(answer.lines[read + 1], "eof")
             \/ /\ answer.lines[read + 1] = "noise" /\ read' = read + 1 /\ UNCHANGED out
      BY <1>9 DEF ReadTail, AtTail
    <2>2. read' = read + 1
      BY <2>1, InterpretForms
    <2>3. HeardAll'
      <3>1. CASE Interpret(answer.lines[read + 1], "eof")
        BY <1>a, <1>d, <2>1, <3>1, LineIsHeard
      <3>2. CASE answer.lines[read + 1] = "noise" /\ UNCHANGED out
        <4>1. 1..(read + 1) = 1..read \cup {read + 1}
          BY <1>c
        <4>2. Heard' = Heard
          BY <3>2 DEF Heard
        <4>3. QED
          BY <1>a, <1>d, <2>1, <2>2, <3>2, <4>1, <4>2 DEF HeardAll
      <3>3. QED
        BY <2>1, <3>1, <3>2
    <2>4. QED
      BY <1>6, <2>1, <2>2, <2>3
  <1>10. QED
    BY <1>1, <1>3, <1>4, <1>5, <1>7, <1>8, <1>9, StepKinds DEF StreamStep, SharedNext

\* The reader gets every delta that was read, once, and the end of the stream
\* only when all was read that the adapter reads (DeliversWhatWasSaid).
THEOREM StreamsAreTrue == Spec => []DeliversWhatWasSaid
  <1>1. Init => DeliversWhatWasSaid
    <2> SUFFICES ASSUME Init PROVE DeliversWhatWasSaid
      OBVIOUS
    <2>1. read = 0 /\ out = <<>> /\ end = "open"
      BY DEF Init
    <2>2. QED
      BY <2>1, UnopenedIsUnheard DEF DeliversWhatWasSaid, HeardAll, AllRead, Heard
  <1>2. QED
    BY <1>1, StepDelivers, StreamInvariant, PTL DEF Spec

----------------------------------------------------------------------------
(* Who is blamed. *)

\* A step that is about what the upstream said, or says nothing of a route.
Blameless ==
    /\ ctx # "live" /\ result' # result
    /\ result'.kind = "failure" /\ result'.scope = "Route"
    => ServerSaidIt \/ (place = "document" /\ call.adapter # "opencode")

\* Errors that are not the route's.
LEMMA NoRouteForms ==
    /\ \A f : FaultFailure(f).kind # "failure" \/ FaultFailure(f).scope # "Route"
    /\ ctx # "live" => \A w : ExchangeFailure(w).scope # "Route"
    /\ CtxErr.kind # "failure"
    /\ \A k \in {"none", "unsupported", "stream", "event", "eof", "canceled", "deadline"} :
          Plain(k).kind # "failure"
  BY DEF FaultFailure, ExchangeFailure, GoneFailure, CtxErr, Plain, Failure

\* No step blames a route for a caller that has left.
LEMMA StepBlames == IInv /\ [Next]_vars => Blameless
  <1> SUFFICES ASSUME IInv, [Next]_vars PROVE Blameless
    OBVIOUS
  <1>a. read \in Nat
    BY BodyForm, MaxLinesAssumption DEF IInv, TypeOK
  <1>1. ASSUME \/ result' = result
               \/ result'.kind # "failure"
               \/ ctx # "live" => result'.scope # "Route"
        PROVE  Blameless
    BY <1>1 DEF Blameless
  <1>2. CASE \E refused \in Refused : RefuseUnsent(refused) \/ Send(refused)
    BY <1>1, <1>2, NoRouteForms DEF RefuseUnsent, ReturnError, Send
  <1>3. CASE SendFails
    BY <1>1, <1>3, NoRouteForms DEF SendFails, ReturnError
  <1>4. CASE TurnedDown
    BY <1>4 DEF TurnedDown, Blameless, ServerSaidIt
  <1>5. CASE Drain \/ OwnTimeout \/ CtxDone \/ BeginNext \/ Close \/ UNCHANGED vars
    BY <1>1, <1>5 DEF Drain, OwnTimeout, CtxDone, BeginNext, Close, vars
  <1>6. CASE Accepted \/ DocumentParsed \/ NextAfterEnd \/ NextOfDocument \/ CtxEnds \/ DropTail
    BY <1>1, <1>6, NoRouteForms DEF Accepted, DocumentParsed, NextAfterEnd, NextOfDocument,
                                    CtxEnds, DropTail, ReturnNext
  <1>7. CASE call.adapter = "opencode" /\ DocumentUnreadable(ExchangeFailure("Protocol"), "canceled")
    BY <1>1, <1>7, NoRouteForms DEF DocumentUnreadable, ReturnError
  <1>8. CASE call.adapter # "opencode" /\ DocumentUnreadable(Failure("Protocol", "Route"), "closed")
    BY <1>8 DEF DocumentUnreadable, Blameless
  <1>9. CASE \E released \in {"canceled", "closed"} : DocumentRejected(released)
    BY <1>9 DEF DocumentRejected, Blameless, ServerSaidIt
  <1>10. CASE ReadLine \/ ReadTail
    <2>1. place = "reading" /\ read' = read + 1
      BY <1>10, InterpretForms DEF ReadLine, ReadTail
    <2>2. ServerSaidIt
      BY <1>a, <2>1 DEF ServerSaidIt
    <2>3. QED
      BY <2>2 DEF Blameless
  <1>11. CASE BodyEnds
    <2>1. ctx # "live" => result' \in {Plain("eof"), CtxErr}
      BY <1>11 DEF BodyEnds, ReturnNext
    <2>2. QED
      BY <1>1, <2>1, NoRouteForms DEF Blameless
  <1>12. QED
    BY <1>2, <1>3, <1>4, <1>5, <1>6, <1>7, <1>8, <1>9, <1>10, <1>11, StepKinds
       DEF CallStep, StreamStep, SharedNext

\* Once its context is done, a call blames a route only for what the upstream
\* has answered (GoneCallerBlamesNoRoute).
THEOREM GoneCallersBlameNobody == Spec => GoneCallerBlamesNoRoute
  <1>1. IInv /\ [Next]_vars => [Blameless]_vars
    BY StepBlames
  <1>2. QED
    BY <1>1, StreamInvariant, PTL DEF Spec, GoneCallerBlamesNoRoute, Blameless

----------------------------------------------------------------------------
(* Every adapter implements StreamContract. *)

\* What the contract sees of the place a call has reached.
State ==
    CASE place \in {"calling", "sent", "draining", "document"} -> "none"
      [] place = "over" -> "closed"
      [] place \in {"idle", "reading"} /\ end = "open" -> "open"
      [] OTHER -> "ended"

\* The state of the contract at each place.
LEMMA StateForms ==
    ASSUME IInv
    PROVE  /\ place \in {"calling", "sent", "draining", "document"} => State = "none"
           /\ place = "over" => State = "closed"
           /\ place \in {"idle", "reading"} /\ end = "open" => State = "open"
           /\ place \in {"idle", "reading"} /\ end # "open" => State = "ended"
  BY DEF State, IInv, TypeOK, Place

\* A line that is read is a delivery, an end or nothing to the contract.
LEMMA LineRefines ==
    ASSUME IInv, IInv', place = "reading", end = "open", read < Len(answer.lines),
           NEW after \in {"open", "eof"}, Interpret(answer.lines[read + 1], after)
    PROVE  Contract!Next \/ UNCHANGED Contract!vars
  <1> USE DEF Contract!vars
  <1>a. /\ read \in Nat /\ Len(answer.lines) \in 0..MaxLines /\ MaxLines \in Nat
        /\ \A k \in DOMAIN out : out[k] \in 1..read
    BY BodyForm, MaxLinesAssumption DEF IInv, TypeOK, StreamShape
  <1>b. State = "open" /\ State' \in {"open", "ended"}
    <2>1. place' \in {"idle", "reading"} /\ end' \in {"open", "eof", "error"}
      BY InterpretForms DEF IInv, TypeOK
    <2>2. QED
      BY <2>1, StateForms DEF State
  <1>1. CASE out' = Append(out, read + 1)
    <2>1. read + 1 \in 1..MaxLines /\ \A k \in DOMAIN out : out[k] < read + 1
      BY <1>a
    <2>2. Contract!Deliver
      BY <1>1, <1>b, <2>1 DEF Contract!Deliver, State
    <2>3. QED
      BY <2>2 DEF Contract!Next
  <1>2. CASE out' = out /\ State' = "ended"
    <2>1. Contract!End
      BY <1>2, <1>b DEF Contract!End, State
    <2>2. QED
      BY <2>1 DEF Contract!Next
  <1>3. CASE out' = out /\ State' = "open"
    BY <1>3, <1>b DEF State
  <1>4. QED
    BY <1>1, <1>2, <1>3, <1>b, InterpretForms

\* Every step of an adapter is a step of the contract or invisible to it.
LEMMA StreamRefines ==
    IInv /\ IInv' /\ [Next]_vars => [Contract!Next]_(Contract!vars)
  <1> SUFFICES ASSUME IInv, IInv', [Next]_vars
               PROVE  Contract!Next \/ UNCHANGED Contract!vars
    OBVIOUS
  <1> USE DEF Contract!vars
  <1>a. /\ read \in Nat /\ Len(answer.lines) \in Nat /\ end \in {"open", "eof", "error"}
        /\ place \in Place
    BY BodyForm, MaxLinesAssumption DEF IInv, TypeOK
  <1>b. place \in {"calling", "sent", "draining", "document"} => out = <<>> /\ end = "open"
    BY DEF IInv, StreamShape
  <1>c. /\ place' \in {"calling", "sent", "draining", "document"} => State' = "none"
        /\ place' = "over" => State' = "closed"
        /\ place' \in {"idle", "reading"} /\ end' = "open" => State' = "open"
        /\ place' \in {"idle", "reading"} /\ end' # "open" => State' = "ended"
    BY DEF State, IInv, TypeOK, Place
  <1>1. ASSUME UNCHANGED <<out, State>> PROVE UNCHANGED Contract!vars
    BY <1>1 DEF State
  <1>2. ASSUME State = "none", State' \in {"open", "closed"}, out' = out PROVE Contract!Next
    BY <1>2 DEF State, Contract!Open, Contract!Next
  <1>3. ASSUME State = "open", State' = "ended", out' = out PROVE Contract!Next
    BY <1>3 DEF State, Contract!End, Contract!Next
  <1>4. ASSUME State \in {"open", "ended"}, State' = "closed", out' = out PROVE Contract!Next
    BY <1>4 DEF State, Contract!Close, Contract!Next
  <1>5. CASE \E refused \in Refused : RefuseUnsent(refused) \/ Send(refused)
    <2>1. /\ place = "calling" /\ place' \in {"sent", "over"} /\ UNCHANGED <<out, end>>
      BY <1>5 DEF RefuseUnsent, ReturnError, Send
    <2>2. QED
      BY <1>1, <1>2, <1>c, <2>1, StateForms
  <1>6. CASE SendFails \/ TurnedDown \/ Drain \/ Accepted
    <2>1. /\ place \in {"sent", "draining"}
          /\ place' \in {"draining", "over", "idle", "document"} /\ UNCHANGED <<out, end>>
      BY <1>6 DEF SendFails, ReturnError, TurnedDown, Drain, Accepted
    <2>2. QED
      BY <1>1, <1>2, <1>b, <1>c, <2>1, StateForms
  <1>7. CASE \/ DocumentParsed
             \/ \E f, released : DocumentUnreadable(f, released)
             \/ \E released \in {"canceled", "closed"} : DocumentRejected(released)
    <2>1. place = "document" /\ place' \in {"over", "idle"} /\ UNCHANGED <<out, end>>
      BY <1>7 DEF DocumentParsed, DocumentUnreadable, DocumentRejected, ReturnError
    <2>2. QED
      BY <1>2, <1>b, <1>c, <2>1, StateForms
  <1>8. CASE OwnTimeout \/ CtxDone \/ UNCHANGED vars
    <2>1. UNCHANGED <<place, out, end>>
      BY <1>8 DEF OwnTimeout, CtxDone, vars
    <2>2. QED
      BY <1>1, <2>1 DEF State
  <1>9. CASE BeginNext
    <2>1. place = "idle" /\ place' = "reading" /\ UNCHANGED <<out, end>>
      BY <1>9 DEF BeginNext
    <2>2. QED
      BY <1>1, <1>c, <2>1, StateForms
  <1>10. CASE NextAfterEnd \/ CtxEnds \/ BodyEnds \/ DropTail
    <2>1. /\ place \in {"idle", "reading"} /\ place' = "idle" /\ out' = out
          /\ end' # "open"
      BY <1>10 DEF NextAfterEnd, CtxEnds, BodyEnds, DropTail, ReturnNext
    <2>2. QED
      BY <1>1, <1>3, <1>c, <2>1, StateForms
  <1>11. CASE NextOfDocument
    <2>1. /\ place = "idle" /\ ~call.stream /\ end = "open" /\ out' = <<1>>
          /\ place' = "idle" /\ end' = "eof"
      BY <1>11 DEF NextOfDocument, ReturnNext
    <2>2. out = <<>>
      BY <2>1 DEF IInv, StreamShape
    <2>3. out' = Append(out, 1) /\ 1 \in 1..MaxLines /\ \A i \in DOMAIN out : out[i] < 1
      BY <2>1, <2>2, MaxLinesAssumption
    <2>4. State = "open" /\ State' = "ended"
      BY <1>c, <2>1, StateForms
    <2>5. Contract!Deliver
      BY <2>3, <2>4 DEF Contract!Deliver, State
    <2>6. QED
      BY <2>5 DEF Contract!Next
  <1>12. CASE ReadLine
    <2>1. /\ place = "reading" /\ read < Len(answer.lines)
          /\ Interpret(answer.lines[read + 1], end)
      BY <1>12 DEF ReadLine
    <2>2. end = "open"
      BY <1>a, <2>1 DEF IInv, StreamShape
    <2>3. QED
      BY <2>1, <2>2, LineRefines
  <1>13. CASE ReadTail
    <2>1. /\ place = "reading" /\ read + 1 = Len(answer.lines)
          /\ \/ Interpret(answer.lines[read + 1], "eof")
             \/ ReturnNext(Plain("eof"), "eof") /\ UNCHANGED out
      BY <1>13 DEF ReadTail, AtTail
    <2>2. read < Len(answer.lines) /\ end = "open"
      BY <1>a, <2>1 DEF IInv, StreamShape
    <2>3. CASE Interpret(answer.lines[read + 1], "eof")
      BY <2>1, <2>2, <2>3, LineRefines
    <2>4. CASE ReturnNext(Plain("eof"), "eof") /\ UNCHANGED out
      <3>1. State = "open" /\ State' = "ended"
        BY <1>c, <2>1, <2>2, <2>4, StateForms DEF ReturnNext
      <3>2. QED
        BY <1>3, <2>4, <3>1
    <2>5. QED
      BY <2>1, <2>3, <2>4
  <1>14. CASE Close
    <2>1. place = "idle" /\ place' = "over" /\ UNCHANGED <<out, end>>
      BY <1>14 DEF Close
    <2>2. QED
      BY <1>4, <1>c, <2>1, StateForms
  <1>15. QED
    BY <1>5, <1>6, <1>7, <1>8, <1>9, <1>10, <1>11, <1>12, <1>13, <1>14, StepKinds
       DEF CallStep, StreamStep, SharedNext

\* A call gives one stream or none, the stream the lines of the answer in their
\* order until it ends, and nothing after that (KeepsStreamContract).
THEOREM ContractIsKept == Spec => KeepsStreamContract
  <1>1. Init => Contract!Init
    BY DEF Init, Contract!Init
  <1>2. QED
    BY <1>1, StreamRefines, StreamInvariant, PTL DEF Spec, KeepsStreamContract, Contract!Spec

----------------------------------------------------------------------------
(* The slots. *)

USE SlotsAssumption

----------------------------------------------------------------------------
(* Types. *)

\* Waking the callers of a provider keeps their types (notifyLocked).
LEMMA NotifyType ==
    ASSUME SlotsTypeOK, NEW p \in Provider
    PROVE  NotifyLocked(p) \in [Caller -> PC]
  BY DEF SlotsTypeOK, NotifyLocked, PC

\* Every step of a caller or of the manager keeps the types.
LEMMA StepType == SlotsTypeOK /\ [SlotsNext]_slotsVars => SlotsTypeOK'
  <1> SUFFICES ASSUME SlotsTypeOK, [SlotsNext]_slotsVars PROVE SlotsTypeOK'
    OBVIOUS
  <1> USE DEF SlotsTypeOK
  <1>1. ASSUME NEW c \in Caller, Acquire(c) PROVE SlotsTypeOK'
    BY <1>1 DEF Acquire, Refuse, Admit, Park, Retry, StopWaiting, PC
  <1>2. ASSUME NEW c \in Caller, Release(c) PROVE SlotsTypeOK'
    <2>1. pc' \in [Caller -> PC]
      BY <1>2, NotifyType DEF Release, PC
    <2>2. inFlight' \in [Provider -> Nat]
      BY <1>2 DEF Release
    <2>3. QED
      BY <1>2, <2>1, <2>2 DEF Release
  <1>3. ASSUME NEW c \in Caller, CancelContext(c) PROVE SlotsTypeOK'
    BY <1>3 DEF CancelContext
  <1>4. ASSUME NEW c \in Caller, NEW p \in Provider, Ask(c, p) PROVE SlotsTypeOK'
    BY <1>4 DEF Ask, PC
  <1>5. ASSUME NEW p \in Provider, NEW n \in Cap, SetProviderCap(p, n) PROVE SlotsTypeOK'
    BY <1>5, NotifyType DEF SetProviderCap
  <1>6. CASE UNCHANGED slotsVars
    BY <1>6 DEF slotsVars
  <1>7. QED
    BY <1>1, <1>2, <1>3, <1>4, <1>5, <1>6 DEF SlotsNext

\* The manager's variables always have their types.
THEOREM SlotsTypeCorrect == SlotsSpec => []SlotsTypeOK
  <1>1. SlotsInit => SlotsTypeOK
    BY DEF SlotsInit, SlotsTypeOK, PC
  <1>2. QED
    BY <1>1, StepType, PTL DEF SlotsSpec

----------------------------------------------------------------------------
(* The counter. *)

\* How each step changes the callers inside.
LEMMA HolderSteps ==
    ASSUME SlotsTypeOK, [SlotsNext]_slotsVars, NEW p \in Provider
    PROVE  \/ Holders(p)' = Holders(p) /\ inFlight'[p] = inFlight[p]
           \/ \E c \in Caller \ Holders(p) :
                 /\ Admit(c) /\ want[c] = p
                 /\ Holders(p)' = Holders(p) \cup {c}
                 /\ inFlight'[p] = inFlight[p] + 1
           \/ \E c \in Holders(p) :
                 /\ Release(c) /\ want[c] = p
                 /\ Holders(p)' = Holders(p) \ {c}
                 /\ inFlight'[p] = IF inFlight[p] > 0 THEN inFlight[p] - 1 ELSE inFlight[p]
  <1> USE DEF SlotsTypeOK, Holders
  <1>1. ASSUME NEW c \in Caller, Refuse(c) \/ Park(c) \/ Retry(c) \/ StopWaiting(c)
        PROVE  Holders(p)' = Holders(p) /\ inFlight'[p] = inFlight[p]
    BY <1>1 DEF Refuse, Park, Retry, StopWaiting
  <1>2. ASSUME NEW c \in Caller, Admit(c), want[c] = p
        PROVE  /\ c \notin Holders(p) /\ Holders(p)' = Holders(p) \cup {c}
               /\ inFlight'[p] = inFlight[p] + 1
    BY <1>2 DEF Admit
  <1>3. ASSUME NEW c \in Caller, Admit(c), want[c] # p
        PROVE  Holders(p)' = Holders(p) /\ inFlight'[p] = inFlight[p]
    BY <1>3 DEF Admit
  <1>4. ASSUME NEW c \in Caller, Release(c)
        PROVE  \A d \in Caller : pc'[d] = "holding" <=> pc[d] = "holding" /\ d # c
    BY <1>4 DEF Release, NotifyLocked
  <1>5. ASSUME NEW c \in Caller, Release(c), want[c] = p
        PROVE  /\ c \in Holders(p) /\ Holders(p)' = Holders(p) \ {c}
               /\ inFlight'[p] = IF inFlight[p] > 0 THEN inFlight[p] - 1 ELSE inFlight[p]
    <2>1. c \in Holders(p) /\ want' = want
      BY <1>5 DEF Release
    <2>2. Holders(p)' = Holders(p) \ {c}
      BY <1>4, <1>5, <2>1
    <2>3. inFlight'[p] = IF inFlight[p] > 0 THEN inFlight[p] - 1 ELSE inFlight[p]
      BY <1>5 DEF Release
    <2>4. QED
      BY <2>1, <2>2, <2>3
  <1>6. ASSUME NEW c \in Caller, Release(c), want[c] # p
        PROVE  Holders(p)' = Holders(p) /\ inFlight'[p] = inFlight[p]
    <2>1. want' = want /\ inFlight'[p] = inFlight[p]
      BY <1>6 DEF Release
    <2>2. QED
      BY <1>4, <1>6, <2>1
  <1>7. ASSUME NEW c \in Caller, CancelContext(c)
        PROVE  Holders(p)' = Holders(p) /\ inFlight'[p] = inFlight[p]
    BY <1>7 DEF CancelContext
  <1>8. ASSUME NEW c \in Caller, NEW q \in Provider, Ask(c, q)
        PROVE  Holders(p)' = Holders(p) /\ inFlight'[p] = inFlight[p]
    BY <1>8 DEF Ask
  <1>9. ASSUME NEW q \in Provider, NEW n \in Cap, SetProviderCap(q, n)
        PROVE  Holders(p)' = Holders(p) /\ inFlight'[p] = inFlight[p]
    BY <1>9 DEF SetProviderCap, NotifyLocked
  <1>10. ASSUME UNCHANGED slotsVars
         PROVE  Holders(p)' = Holders(p) /\ inFlight'[p] = inFlight[p]
    BY <1>10 DEF slotsVars
  <1> HIDE DEF Holders
  <1>11. QED
    BY <1>1, <1>2, <1>3, <1>5, <1>6, <1>7, <1>8, <1>9, <1>10 DEF SlotsNext, Acquire

\* The callers that hold a provider's slots can be counted.
LEMMA HoldersFinite ==
    ASSUME NEW p
    PROVE  IsFiniteSet(Holders(p)) /\ Cardinality(Holders(p)) \in Nat
  BY FS_Subset, FS_CardinalityType DEF Holders

\* Every step moves the counter with the callers inside (AcquireSlot, ReleaseSlot).
LEMMA StepCount == SlotsTypeOK /\ InFlightIsHolders /\ [SlotsNext]_slotsVars => InFlightIsHolders'
  <1> SUFFICES ASSUME SlotsTypeOK, InFlightIsHolders, [SlotsNext]_slotsVars, NEW p \in Provider
               PROVE  inFlight'[p] = Cardinality(Holders(p)')
    BY DEF InFlightIsHolders
  <1>1. inFlight[p] = Cardinality(Holders(p)) /\ inFlight[p] \in Nat
    BY DEF InFlightIsHolders, SlotsTypeOK
  <1>2. CASE Holders(p)' = Holders(p) /\ inFlight'[p] = inFlight[p]
    BY <1>1, <1>2
  <1>3. ASSUME NEW c \in Caller \ Holders(p), Holders(p)' = Holders(p) \cup {c},
               inFlight'[p] = inFlight[p] + 1
        PROVE  inFlight'[p] = Cardinality(Holders(p)')
    BY <1>1, <1>3, HoldersFinite, FS_AddElement
  <1>4. ASSUME NEW c \in Holders(p), Holders(p)' = Holders(p) \ {c},
               inFlight'[p] = IF inFlight[p] > 0 THEN inFlight[p] - 1 ELSE inFlight[p]
        PROVE  inFlight'[p] = Cardinality(Holders(p)')
    <2>1. Cardinality(Holders(p)) > 0
      BY <1>4, HoldersFinite, FS_EmptySet
    <2>2. Cardinality(Holders(p) \ {c}) = Cardinality(Holders(p)) - 1
      BY <1>4, HoldersFinite, FS_RemoveElement
    <2>3. QED
      BY <1>1, <1>4, <2>1, <2>2
  <1>5. QED
    BY <1>2, <1>3, <1>4, HolderSteps

\* The manager's counter is the number of callers inside (InFlightIsHolders).
THEOREM CountIsRight == SlotsSpec => []InFlightIsHolders
  <1>1. SlotsInit => InFlightIsHolders
    <2> SUFFICES ASSUME SlotsInit, NEW p \in Provider PROVE inFlight[p] = Cardinality(Holders(p))
      BY DEF InFlightIsHolders
    <2>1. Holders(p) = {}
      BY DEF SlotsInit, Holders
    <2>2. QED
      BY <2>1, FS_EmptySet DEF SlotsInit
  <1>2. QED
    BY <1>1, StepCount, SlotsTypeCorrect, PTL DEF SlotsSpec

----------------------------------------------------------------------------
(* The waiters. *)

\* Every step that makes room wakes the sleepers, and nobody goes to sleep on
\* room (AcquireSlot, ReleaseSlot, SetProviderCap).
LEMMA StepWaiters == SlotsTypeOK /\ NoStrandedWaiter /\ [SlotsNext]_slotsVars => NoStrandedWaiter'
  <1> SUFFICES ASSUME SlotsTypeOK, NoStrandedWaiter, [SlotsNext]_slotsVars,
                      NEW d \in Caller, pc'[d] = "parked"
               PROVE  Full(want[d])'
    BY DEF NoStrandedWaiter
  <1> USE DEF SlotsTypeOK, NoStrandedWaiter, Full
  <1>1. ASSUME NEW c \in Caller, Refuse(c) \/ Park(c) \/ Retry(c) \/ StopWaiting(c)
        PROVE  Full(want[d])'
    BY <1>1 DEF Refuse, Park, Retry, StopWaiting
  <1>2. ASSUME NEW c \in Caller, Admit(c) PROVE Full(want[d])'
    <2>1. pc[d] = "parked" /\ want'[d] = want[d] /\ want[d] # want[c] /\ provCap' = provCap
      BY <1>2 DEF Admit
    <2>2. QED
      BY <1>2, <2>1 DEF Admit
  <1>3. ASSUME NEW c \in Caller, Release(c) PROVE Full(want[d])'
    <2>1. pc[d] = "parked" /\ want' = want /\ provCap' = provCap
      BY <1>3 DEF Release, NotifyLocked
    <2>2. inFlight[want[c]] > 0 => want[d] # want[c]
      BY <1>3, <2>1 DEF Release, NotifyLocked
    <2>3. inFlight'[want[d]] = inFlight[want[d]]
      BY <1>3, <2>2 DEF Release
    <2>4. QED
      BY <2>1, <2>3
  <1>4. ASSUME NEW c \in Caller, CancelContext(c) PROVE Full(want[d])'
    BY <1>4 DEF CancelContext
  <1>5. ASSUME NEW c \in Caller, NEW q \in Provider, Ask(c, q) PROVE Full(want[d])'
    BY <1>5 DEF Ask
  <1>6. ASSUME NEW q \in Provider, NEW n \in Cap, SetProviderCap(q, n) PROVE Full(want[d])'
    BY <1>6 DEF SetProviderCap, NotifyLocked
  <1>7. CASE UNCHANGED slotsVars
    BY <1>7 DEF slotsVars
  <1>8. QED
    BY <1>1, <1>2, <1>3, <1>4, <1>5, <1>6, <1>7 DEF SlotsNext, Acquire

\* No wake-up is lost: sleepers only wait for a full provider (NoStrandedWaiter).
THEOREM NoLostWakeup == SlotsSpec => []NoStrandedWaiter
  <1>1. SlotsInit => NoStrandedWaiter
    BY DEF SlotsInit, NoStrandedWaiter
  <1>2. QED
    BY <1>1, StepWaiters, SlotsTypeCorrect, PTL DEF SlotsSpec

\* The counter is exact and sleepers have a reason (AdmissionIsExact).
THEOREM AdmissionIsRight == SlotsSpec => []AdmissionIsExact
  <1>1. InFlightIsHolders /\ NoStrandedWaiter => AdmissionIsExact
    BY DEF AdmissionIsExact
  <1>2. QED
    BY <1>1, CountIsRight, NoLostWakeup, PTL

----------------------------------------------------------------------------
(* The slots implement SlotLimit. *)

Inside == [p \in Provider |-> Holders(p)]

\* SlotLimit counts the callers inside as the slots do.
LEMMA SameCardinality == \A S : Limit!Cardinality(S) = Cardinality(S)
  BY DEF Limit!Cardinality, Cardinality

\* Every step of the slots lets a caller in below the limit, or lets one out,
\* or changes a limit, or is invisible.
LEMMA StepKeepsLimit ==
    SlotsTypeOK /\ InFlightIsHolders /\ [SlotsNext]_slotsVars => [Limit!Next]_(Limit!vars)
  <1> SUFFICES ASSUME SlotsTypeOK, InFlightIsHolders, [SlotsNext]_slotsVars
               PROVE  Limit!Next \/ (provCap' = provCap /\ Inside' = Inside)
    BY DEF Limit!vars, Inside
  <1>1. ASSUME NEW c \in Caller, Admit(c) PROVE Limit!Next
    <2> DEFINE p == want[c]
    <2>1. p \in Provider /\ provCap' = provCap /\ c \notin Holders(p) /\ ~Full(p)
      BY <1>1 DEF Admit, SlotsTypeOK, Holders
    <2>2. \A q \in Provider : c \notin Holders(q)
      BY <1>1 DEF Admit, Holders
    <2>3. \A q \in Provider : Holders(q)' = IF q = p THEN Holders(q) \cup {c} ELSE Holders(q)
      BY <1>1 DEF Admit, SlotsTypeOK, Holders
    <2>4. provCap[p] <= 0 \/ Cardinality(Holders(p)) < provCap[p]
      <3> HIDE DEF p
      <3>1. provCap[p] \in Int
        <4>1. provCap[p] \in Cap \cup {0}
          BY <2>1 DEF SlotsTypeOK
        <4>2. Cap \subseteq Int /\ 0 \in Int
          BY SlotsAssumption
        <4>3. QED
          BY <4>1, <4>2
      <3>2. inFlight[p] \in Nat
        BY <2>1 DEF SlotsTypeOK
      <3>3. inFlight[p] = Cardinality(Holders(p))
        BY <2>1 DEF InFlightIsHolders
      <3>4. QED
        BY <2>1, <3>1, <3>2, <3>3 DEF Full
    <2>5. Inside' = [Inside EXCEPT ![p] = @ \cup {c}]
      BY <2>1, <2>3 DEF Inside
    <2>6. Limit!Enter(c, p)
      <3>1. \A q \in Provider : c \notin Inside[q]
        BY <2>2 DEF Inside
      <3>2. Inside[p] = Holders(p)
        BY <2>1 DEF Inside
      <3>3. provCap[p] <= 0 \/ Cardinality(Inside[p]) < provCap[p]
        BY <2>4, <3>2
      <3>4. provCap[p] <= 0 \/ Limit!Cardinality(Inside[p]) < provCap[p]
        BY <3>3, SameCardinality
      <3>5. QED
        BY <2>1, <2>5, <3>1, <3>4, Zenon DEF Limit!Enter, Inside
    <2>7. QED
      BY <2>1, <2>6 DEF Limit!Next
  <1>2. ASSUME NEW c \in Caller, Release(c) PROVE Limit!Next
    <2> DEFINE p == want[c]
    <2>1. p \in Provider /\ provCap' = provCap /\ want' = want /\ c \in Holders(p)
      BY <1>2 DEF Release, SlotsTypeOK, Holders
    <2>2. \A d \in Caller : pc'[d] = "holding" <=> pc[d] = "holding" /\ d # c
      BY <1>2 DEF Release, NotifyLocked, SlotsTypeOK
    <2>3. \A q \in Provider : Holders(q)' = IF q = p THEN Holders(q) \ {c} ELSE Holders(q)
      BY <2>1, <2>2 DEF Holders
    <2>4. Inside' = [Inside EXCEPT ![p] = @ \ {c}]
      BY <2>1, <2>3 DEF Inside
    <2>5. Limit!Leave(c, p)
      BY <2>1, <2>4 DEF Limit!Leave, Inside
    <2>6. QED
      BY <2>1, <2>5 DEF Limit!Next
  <1>3. ASSUME NEW p \in Provider, NEW n \in Cap, SetProviderCap(p, n) PROVE Limit!Next
    <2>1. provCap' = [provCap EXCEPT ![p] = provCap'[p]]
      BY <1>3 DEF SetProviderCap, SlotsTypeOK
    <2>2. \A q \in Provider : Holders(q)' = Holders(q)
      BY <1>3 DEF SetProviderCap, NotifyLocked, SlotsTypeOK, Holders
    <2>3. Limit!Relimit(p)
      BY <2>1, <2>2 DEF Limit!Relimit
    <2>4. QED
      BY <2>3 DEF Limit!Next
  <1>4. ASSUME /\ provCap' = provCap
               /\ \A q \in Provider : Holders(q)' = Holders(q)
        PROVE  provCap' = provCap /\ Inside' = Inside
    BY <1>4 DEF Inside
  <1>5. ASSUME NEW c \in Caller, Refuse(c) \/ Park(c) \/ Retry(c) \/ StopWaiting(c)
        PROVE  provCap' = provCap /\ Inside' = Inside
    BY <1>4, <1>5 DEF Refuse, Park, Retry, StopWaiting, SlotsTypeOK, Holders
  <1>6. ASSUME NEW c \in Caller, CancelContext(c) PROVE provCap' = provCap /\ Inside' = Inside
    BY <1>4, <1>6 DEF CancelContext, Holders
  <1>7. ASSUME NEW c \in Caller, NEW p \in Provider, Ask(c, p)
        PROVE  provCap' = provCap /\ Inside' = Inside
    BY <1>4, <1>7 DEF Ask, SlotsTypeOK, Holders
  <1>8. CASE UNCHANGED slotsVars
    BY <1>4, <1>8 DEF slotsVars, Holders
  <1>9. QED
    BY <1>1, <1>2, <1>3, <1>5, <1>6, <1>7, <1>8 DEF SlotsNext, Acquire

\* The slots keep the limit of SlotLimit (KeepsLimit).
THEOREM LimitKept == SlotsSpec => KeepsLimit
  <1>1. SlotsInit => Limit!Init
    <2> SUFFICES ASSUME SlotsInit PROVE Limit!Init
      OBVIOUS
    <2>1. \A p \in Provider : Holders(p) = {}
      BY DEF SlotsInit, Holders
    <2>2. QED
      BY <2>1 DEF SlotsInit, Limit!Init
  <1>2. QED
    BY <1>1, StepKeepsLimit, SlotsTypeCorrect, CountIsRight, PTL
       DEF SlotsSpec, KeepsLimit, Limit!Spec
============================================================================
