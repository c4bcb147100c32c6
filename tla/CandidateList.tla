--------------------------- MODULE CandidateList ---------------------------
(***************************************************************************)
(* The list of candidates that resolveAttemptCandidates hands to the       *)
(* attempts of a request (internal/gateway/attempt.go): what is in it and  *)
(* the form that the choice of the next attempt relies on.                 *)
(***************************************************************************)
EXTENDS Naturals, Sequences

CONSTANTS
    Route,          \* RouteIDs: one endpoint and one auth path of a model
    ModelOf         \* Route -> ProviderModelID

\* attemptCandidate; a fallback-only route is an alternate of unknown access.
Candidate == [route : Route, fallbackOnly : BOOLEAN]

\* Ordinary candidates come first and once each.  An alternate follows an
\* ordinary candidate of its model and is no ordinary candidate itself; it may
\* be listed twice, because the pass over an explicit model and the pass over
\* the pool both find it.
InCandidateListForm(list) ==
    /\ list \in Seq(Candidate)
    /\ \A i, j \in DOMAIN list :
          /\ ~list[i].fallbackOnly /\ list[i].route = list[j].route => i = j
          /\ list[i].fallbackOnly /\ ~list[j].fallbackOnly => j < i
    /\ \A i \in DOMAIN list : list[i].fallbackOnly =>
          \E j \in DOMAIN list : /\ ~list[j].fallbackOnly
                                 /\ ModelOf[list[j].route] = ModelOf[list[i].route]
============================================================================
