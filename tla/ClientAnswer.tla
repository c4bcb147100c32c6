--------------------------- MODULE ClientAnswer ----------------------------
(***************************************************************************)
(* What a chat completion promises its client, whatever happens upstream:  *)
(* an error status, or the content of one route, begun once and ended      *)
(* once; only a client that has left can be owed an answer or an ending.   *)
(***************************************************************************)
CONSTANT Source

VARIABLES
    answer,   \* [status, sources, ending] as the client receives it
    gone,     \* the client has left
    over      \* the request has been dealt with

vars == <<answer, gone, over>>

Unanswered == answer.status = 0 /\ ~over

Init ==
    /\ answer = [status |-> 0, sources |-> {}, ending |-> "open"]
    /\ gone = FALSE
    /\ over = FALSE

\* The whole answer is an error status.
Refuse ==
    /\ Unanswered
    /\ \E code \in {400, 429, 500, 502, 503} :
          answer' = [status |-> code, sources |-> {}, ending |-> "done"]
    /\ over' \in BOOLEAN
    /\ UNCHANGED gone

\* The first content, from the one route the answer will come from; a
\* buffered answer is complete at once.
Begin ==
    /\ Unanswered
    /\ \E s \in Source, ending \in {"open", "done"} :
          answer' = [status |-> 200, sources |-> {s}, ending |-> ending]
    /\ UNCHANGED <<gone, over>>

\* The stream is completed or cut short, once.
End ==
    /\ answer.status = 200
    /\ answer.ending = "open"
    /\ ~over
    /\ \E ending \in {"done", "error"} :
          answer' = [answer EXCEPT !.ending = ending]
    /\ UNCHANGED <<gone, over>>

Leave ==
    /\ ~over
    /\ gone' = TRUE
    /\ UNCHANGED <<answer, over>>

\* Nothing more will be written: the answer is complete or nobody waits for it.
Close ==
    /\ ~over
    /\ answer.ending # "open" \/ gone
    /\ over' = TRUE
    /\ UNCHANGED <<answer, gone>>

Next == Refuse \/ Begin \/ End \/ Leave \/ Close

Spec == Init /\ [][Next]_vars
============================================================================
