--------------------------- MODULE ProviderStream ---------------------------
(***************************************************************************)
(* One ChatCompletion of a provider adapter and the ChatStream it returns. *)
(* Four packages implement it with nearly the same code; the places where  *)
(* they differ are the arguments of the steps they share: what is refused  *)
(* before anything is sent, how an unreadable body is classified, what     *)
(* happens to a last line that has no newline, and who closes the body.    *)
(* Configured OpenAI-compatible endpoints use the opencode adapter.        *)
(*                                                                         *)
(* The upstream answers with a status and a body: lines of an event stream *)
(* or one JSON document, and a way the body ends.  The caller's context    *)
(* may end at any moment.                                                  *)
(***************************************************************************)
EXTENDS Naturals, Sequences

CONSTANT MaxLines   \* bound: lines of one answer

ASSUME MaxLinesAssumption == MaxLines \in Nat \ {0}

Adapter == {"opencode", "nvidia", "xai", "gemini"}

\* What is wrong with a call before it is sent; "none" is nothing.
Fault == {"none", "unsupported", "unverified", "keyless", "malformed"}

\* A line carries a semantic delta, an empty delta, no choice, nothing for
\* the reader (blank, comment, other field), the end mark, or no valid JSON.
\* A document is one such line.
Line == {"delta", "hollow", "vacant", "noise", "done", "garbage"}
Document == {"delta", "hollow", "vacant", "garbage"}

\* A body ends after a newline, in the middle of its last line, with a read
\* error, or not at all.
Ending == {"closed", "cut", "reset", "silent"}

Lines == UNION {[1..n -> Line] : n \in 0..MaxLines}
EventBody == {b \in [lines : Lines, ending : Ending] : b.ending = "cut" => b.lines # <<>>}
DocumentBody == [lines : [1..1 -> Document], ending : Ending]
ErrorBody == [lines : {<<>>}, ending : {"closed", "silent"}]
Body == EventBody \cup DocumentBody

Status == {200, 302, 400, 401, 429, 500}

VARIABLES
    call,     \* [adapter, stream, fault]
    place,    \* where ChatCompletion or Next stands
    ctx,      \* the caller's context
    due,      \* the adapter's own timeout has fired
    answer,   \* the upstream's body
    read,     \* how many of its lines have been read
    end,      \* sseStream.done and oneShotStream.done, with the reason
    out,      \* the lines that Next returned as events
    body,     \* the response body
    result    \* what the last call returns

vars == <<call, place, ctx, due, answer, read, end, out, body, result>>

Place == {"calling", "sent", "draining", "document", "idle", "reading", "over"}

Plain(kind) == [kind |-> kind, class |-> "", scope |-> ""]
Failure(class, scope) == [kind |-> "failure", class |-> class, scope |-> scope]

Result ==
    {Plain(k) : k \in {"none", "unsupported", "stream", "event", "eof", "canceled", "deadline"}}
    \cup {Failure(c, s) : c \in {"Auth", "BadRequest", "Canceled", "Network", "Protocol",
                                 "RateLimited", "ServerError", "Timeout"},
                          s \in {"Request", "Route", "Credential"}}

NoAnswer == [lines |-> <<>>, ending |-> "closed"]

Init ==
    /\ call \in [adapter : Adapter, stream : BOOLEAN, fault : Fault]
    /\ place = "calling"
    /\ ctx = "live"
    /\ due = FALSE
    /\ answer = NoAnswer
    /\ read = 0
    /\ end = "open"
    /\ out = <<>>
    /\ body = "none"
    /\ result = Plain("none")

----------------------------------------------------------------------------
(* ChatCompletion *)

GoneFailure == Failure("Canceled", "Request")
CtxErr == Plain(IF ctx = "canceled" THEN "canceled" ELSE "deadline")

\* The context the request was made with is done.
RequestGone == ctx # "live" \/ due

\* The call returns without a stream.
ReturnError(failure) ==
    /\ result' = failure
    /\ place' = "over"

FaultFailure(fault) ==
    CASE fault = "unsupported" -> Plain("unsupported")
      [] fault = "malformed" -> Failure("BadRequest", "Request")
      [] OTHER -> Failure("Auth", "Credential")

\* Checks that need nothing from the upstream.
RefuseUnsent(refused) ==
    /\ place = "calling"
    /\ call.fault \in refused
    /\ ReturnError(FaultFailure(call.fault))
    /\ UNCHANGED <<call, ctx, due, answer, read, end, out, body>>

Send(refused) ==
    /\ place = "calling"
    /\ call.fault \notin refused
    /\ place' = "sent"
    /\ UNCHANGED <<call, ctx, due, answer, read, end, out, body, result>>

\* A failed exchange is the caller's doing, the timeout's or the network's.
ExchangeFailure(otherwise) ==
    CASE ctx # "live" -> GoneFailure
      [] ctx = "live" /\ due -> Failure("Timeout", "Route")
      [] OTHER -> Failure(otherwise, "Route")

\* Faulty variant: a failed request is the network's fault.
SendFailsUnasked ==
    /\ place = "sent"
    /\ ReturnError(Failure("Network", "Route"))
    /\ UNCHANGED <<call, ctx, due, answer, read, end, out, body>>

SendFails ==
    /\ place = "sent"
    /\ ReturnError(ExchangeFailure("Network"))
    /\ UNCHANGED <<call, ctx, due, answer, read, end, out, body>>

StatusFailure(status) ==
    CASE status = 429 -> Failure("RateLimited", "Route")
      [] status = 401 -> Failure("Auth", "Credential")
      [] status = 400 -> Failure("BadRequest", "Route")
      [] status = 500 -> Failure("ServerError", "Route")
      [] OTHER -> Failure("Protocol", "Route")

\* The upstream turns the call down: its body is drained, then closed.
TurnedDown ==
    /\ place = "sent"
    /\ \E status \in Status \ {200} : result' = StatusFailure(status)
    /\ answer' \in ErrorBody
    /\ body' = "open"
    /\ place' = "draining"
    /\ UNCHANGED <<call, ctx, due, read, end, out>>

\* Faulty variant: the body of a refusal is left as it is.
DrainForgotten ==
    /\ place = "draining"
    /\ place' = "over"
    /\ UNCHANGED <<call, ctx, due, answer, read, end, out, body, result>>

\* Draining waits for the body's end, however long that takes.
Drain ==
    /\ place = "draining"
    /\ answer.ending # "silent" \/ RequestGone
    /\ body' = "closed"
    /\ place' = "over"
    /\ UNCHANGED <<call, ctx, due, answer, read, end, out, result>>

Accepted ==
    /\ place = "sent"
    /\ body' = "open"
    /\ IF call.stream
       THEN /\ answer' \in EventBody
            /\ place' = "idle"
            /\ result' = Plain("stream")
       ELSE /\ answer' \in DocumentBody
            /\ place' = "document"
            /\ UNCHANGED result
    /\ UNCHANGED <<call, ctx, due, read, end, out>>

\* The whole document is read: it fails to arrive ...
DocumentUnreadable(failure, released) ==
    /\ place = "document"
    /\ answer.ending = "reset" \/ RequestGone
    /\ ReturnError(failure)
    /\ body' = released
    /\ UNCHANGED <<call, ctx, due, answer, read, end, out>>

\* ... is not a chat response with a choice ...
DocumentRejected(released) ==
    /\ place = "document"
    /\ answer.ending \in {"closed", "cut"}
    /\ answer.lines[1] \in {"garbage", "vacant"}
    /\ ReturnError(Failure("Protocol", "Route"))
    /\ body' = released
    /\ UNCHANGED <<call, ctx, due, answer, read, end, out>>

\* ... or becomes a stream of one event.
DocumentParsed ==
    /\ place = "document"
    /\ answer.ending \in {"closed", "cut"}
    /\ answer.lines[1] \in {"delta", "hollow"}
    /\ result' = Plain("stream")
    /\ place' = "idle"
    /\ body' = "closed"
    /\ UNCHANGED <<call, ctx, due, answer, read, end, out>>

Exchange(refused) ==
    \/ RefuseUnsent(refused)
    \/ Send(refused)
    \/ SendFails
    \/ TurnedDown
    \/ Drain
    \/ Accepted
    \/ DocumentParsed

\* The caller is asked about before a body that cannot be read is blamed on
\* the route; a rejected body is left to the deferred cancel.
OpenCodeCall ==
    /\ call.adapter = "opencode"
    /\ \/ Exchange(Fault \ {"none"})
       \/ DocumentUnreadable(ExchangeFailure("Protocol"), "canceled")
       \/ DocumentRejected("canceled")

\* The others send without a key, and blame the route for any unreadable body.
SharedCall ==
    \/ Exchange({"unsupported", "malformed"})
    \/ DocumentUnreadable(Failure("Protocol", "Route"), "closed")
    \/ DocumentRejected("closed")

NvidiaCall == call.adapter = "nvidia" /\ SharedCall
XaiCall == call.adapter = "xai" /\ SharedCall
GeminiCall == call.adapter = "gemini" /\ SharedCall

\* The timeout that only the opencode adapter puts on a call for a document.
OwnTimeout ==
    /\ call.adapter = "opencode"
    /\ ~call.stream
    /\ place \in {"sent", "draining", "document"}
    /\ ~due
    /\ due' = TRUE
    /\ UNCHANGED <<call, place, ctx, answer, read, end, out, body, result>>

----------------------------------------------------------------------------
(* Next and Close *)

\* Next returns; the stream has ended for the given reason, or goes on.
ReturnNext(r, reason) ==
    /\ result' = r
    /\ end' = reason
    /\ place' = "idle"

\* Faulty variant: the done flag is not looked at.
BeginNextAgain ==
    /\ place = "idle"
    /\ call.stream
    /\ place' = "reading"
    /\ UNCHANGED <<call, ctx, due, answer, read, end, out, body, result>>

BeginNext ==
    /\ place = "idle"
    /\ call.stream
    /\ end = "open"
    /\ place' = "reading"
    /\ UNCHANGED <<call, ctx, due, answer, read, end, out, body, result>>

NextAfterEnd ==
    /\ place = "idle"
    /\ end # "open"
    /\ ReturnNext(Plain("eof"), end)
    /\ UNCHANGED <<call, ctx, due, answer, read, out, body>>

\* The one event of a document, semantic or not; the context is not looked at.
NextOfDocument ==
    /\ place = "idle"
    /\ ~call.stream
    /\ end = "open"
    /\ read' = 1
    /\ out' = <<1>>
    /\ ReturnNext(Plain("event"), "eof")
    /\ UNCHANGED <<call, ctx, due, answer, body>>

\* Before each line, or when a blocked read is interrupted.
CtxEnds ==
    /\ place = "reading"
    /\ ctx # "live"
    /\ ReturnNext(CtxErr, "error")
    /\ UNCHANGED <<call, ctx, due, answer, read, out, body>>

\* Faulty variant: a chunk without choices ends the stream.
InterpretVacantAsEnd(line, after) ==
    /\ read' = read + 1
    /\ CASE line = "delta" ->
              out' = Append(out, read') /\ ReturnNext(Plain("event"), after)
         [] line \in {"done", "vacant"} ->
              UNCHANGED out /\ ReturnNext(Plain("eof"), "eof")
         [] line = "garbage" ->
              UNCHANGED out /\ ReturnNext(Failure("Protocol", "Route"), "error")
         [] OTHER ->
              end' = after /\ UNCHANGED <<out, place, result>>

\* What a line makes Next do.  `after` is the state of the stream with this
\* line read, when the line itself does not end it.
Interpret(line, after) ==
    /\ read' = read + 1
    /\ CASE line = "delta" ->
              out' = Append(out, read') /\ ReturnNext(Plain("event"), after)
         [] line = "done" ->
              UNCHANGED out /\ ReturnNext(Plain("eof"), "eof")
         [] line = "garbage" ->
              UNCHANGED out /\ ReturnNext(Failure("Protocol", "Route"), "error")
         [] OTHER ->
              end' = after /\ UNCHANGED <<out, place, result>>

\* The last line has no newline and the body ends in it.
AtTail == read + 1 = Len(answer.lines) /\ answer.ending = "cut"

ReadLine ==
    /\ place = "reading"
    /\ read < Len(answer.lines)
    /\ ~AtTail
    /\ Interpret(answer.lines[read + 1], end)
    /\ UNCHANGED <<call, ctx, due, answer, body>>

\* opencode and nvidia return the end of the stream and drop the line.
DropTail ==
    /\ place = "reading"
    /\ AtTail
    /\ ReturnNext(Plain("eof"), "eof")
    /\ UNCHANGED <<call, ctx, due, answer, read, out, body>>

\* xai and gemini mark the stream as done and interpret the line.  Where it
\* means nothing they read on, or return when it is blank or a comment.
ReadTail ==
    /\ place = "reading"
    /\ AtTail
    /\ \/ Interpret(answer.lines[read + 1], "eof")
       \/ /\ answer.lines[read + 1] = "noise"
          /\ read' = read + 1
          /\ ReturnNext(Plain("eof"), "eof")
          /\ UNCHANGED out
    /\ UNCHANGED <<call, ctx, due, answer, body>>

\* No line is left: the end of the body, or a read error.
BodyEnds ==
    /\ place = "reading"
    /\ read = Len(answer.lines)
    /\ \/ /\ answer.ending \in {"closed", "cut"}
          /\ ReturnNext(Plain("eof"), "eof")
       \/ /\ answer.ending = "reset"
          /\ IF ctx # "live" THEN ReturnNext(CtxErr, "error")
             ELSE ReturnNext(Failure("Protocol", "Route"), "error")
    /\ UNCHANGED <<call, ctx, due, answer, read, out, body>>

SharedNext == BeginNext \/ NextAfterEnd \/ NextOfDocument \/ CtxEnds \/ ReadLine \/ BodyEnds

OpenCodeNext == call.adapter = "opencode" /\ (SharedNext \/ DropTail)
NvidiaNext == call.adapter = "nvidia" /\ (SharedNext \/ DropTail)
XaiNext == call.adapter = "xai" /\ (SharedNext \/ ReadTail)
GeminiNext == call.adapter = "gemini" /\ (SharedNext \/ ReadTail)

\* The gateway closes every stream it was given, ended or not.
Close ==
    /\ place = "idle"
    /\ body' = "closed"
    /\ place' = "over"
    /\ UNCHANGED <<call, ctx, due, answer, read, end, out, result>>

----------------------------------------------------------------------------
\* The client leaves, the attempt's budget is used up, or a deadline passes.
CtxDone ==
    /\ ctx = "live"
    /\ place # "over"
    /\ ctx' \in {"canceled", "expired"}
    /\ UNCHANGED <<call, place, due, answer, read, end, out, body, result>>

Next ==
    \/ OpenCodeCall \/ NvidiaCall \/ XaiCall \/ GeminiCall \/ OwnTimeout
    \/ OpenCodeNext \/ NvidiaNext \/ XaiNext \/ GeminiNext
    \/ Close \/ CtxDone

Spec == Init /\ [][Next]_vars

----------------------------------------------------------------------------
(* Properties *)

\* Types; no more lines are read than there are, and a call that is over
\* holds no response body: it was closed, or its request was canceled.
TypeOK ==
    /\ call \in [adapter : Adapter, stream : BOOLEAN, fault : Fault]
    /\ place \in Place
    /\ ctx \in {"live", "canceled", "expired"}
    /\ due \in BOOLEAN
    /\ answer \in Body \cup ErrorBody
    /\ read \in 0..Len(answer.lines)
    /\ end \in {"open", "eof", "error"}
    /\ out \in Seq(1..MaxLines)
    /\ body \in {"none", "open", "closed", "canceled"}
    /\ result \in Result
    /\ place = "over" => body # "open"

DropsTail == call.adapter \in {"opencode", "nvidia"}

Stops(i) == answer.lines[i] \in {"done", "garbage"}

\* The events are the deltas among the lines read so far: none is lost, made
\* up or given twice (sseStream.Next).  A stream that ends by itself has given
\* every delta up to the end mark, but for a last line without a newline where
\* the adapter drops it.
DeliversWhatWasSaid ==
    call.stream =>
      LET Heard == {out[k] : k \in DOMAIN out}
      IN  /\ Heard = {i \in 1..read : answer.lines[i] = "delta"}
          /\ end = "eof" =>
               \A i \in read+1..Len(answer.lines) :
                  \/ \E j \in 1..read : Stops(j)
                  \/ DropsTail /\ answer.ending = "cut" /\ i = Len(answer.lines)

\* The step is about what the upstream answered: a status, a line, a document.
ServerSaidIt ==
    \/ place = "sent" /\ body' = "open"
    \/ place = "reading" /\ read' > read
    \/ place = "document" /\ answer.ending \in {"closed", "cut"}

\* A caller that has left is no reason to blame the route: once the context is
\* done a failure of the route is one that the upstream answered ("Distinguish
\* client cancellation from other network failures", chat.go of each package).
\* nvidia, xai and gemini do blame it for a document that then cannot be read.
GoneCallerBlamesNoRoute ==
    [][/\ ctx # "live"
       /\ result' # result
       /\ result'.kind = "failure"
       /\ result'.scope = "Route"
       => ServerSaidIt \/ (place = "document" /\ call.adapter # "opencode")]_vars

Contract == INSTANCE StreamContract WITH
    state <- CASE place \in {"calling", "sent", "draining", "document"} -> "none"
               [] place = "over" -> "closed"
               [] place \in {"idle", "reading"} /\ end = "open" -> "open"
               [] OTHER -> "ended",
    heard <- out

\* Every adapter implements the contract of provider.ChatStream.
KeepsStreamContract == Contract!Spec

----------------------------------------------------------------------------
(* The inductive invariant behind them. *)

\* Nothing is read, given or ended before there is a stream; only a stream that
\* is still open is read from, but for what follows a last line that said
\* nothing; what was given was read; a document is one line, given once.
StreamShape ==
    /\ place \in {"calling", "sent"} => body = "none"
    /\ place \in {"calling", "sent", "draining", "document"} =>
          read = 0 /\ out = <<>> /\ end = "open"
    /\ place = "reading" => call.stream
    /\ place = "reading" /\ end # "open" => read = Len(answer.lines)
    /\ ~call.stream /\ place \in {"document", "idle"} => Len(answer.lines) = 1
    /\ ~call.stream /\ end = "open" => out = <<>>
    /\ \A k \in DOMAIN out : out[k] \in 1..read

IInv == TypeOK /\ StreamShape
============================================================================
