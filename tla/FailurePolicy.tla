--------------------------- MODULE FailurePolicy ---------------------------
(***************************************************************************)
(* The failure classification of internal/model/failure.go and the         *)
(* candidate progression of internal/gateway/attempt.go: what an upstream  *)
(* error means, what the gateway does next because of it, and which route  *)
(* the next attempt uses.  Every definition is a pure operator.            *)
(***************************************************************************)
EXTENDS CandidateList

CONSTANTS
    NoRoute,        \* "no previous attempt"
    ProviderOf,     \* Route -> provider name
    CredentialOf,   \* Route -> ProviderRoute.CredentialID, or NoCredential
    PrefixOf,       \* Route -> what precedes "::" in the RouteID, or NoPrefix
    NoCredential,
    NoPrefix

ASSUME NoRouteAssumption == NoRoute \notin Route

FailureClass == {"Canceled", "Timeout", "RateLimited", "Auth", "BadRequest",
                 "ServerError", "Protocol", "Network", "Unknown"}
FailureScope == {"Request", "Model", "Route", "Credential", "Provider"}
Failure == [class : FailureClass, scope : FailureScope]

FailureAction == {"Stop", "NextRoute", "NextModel", "DisableCredential",
                  "DisableRoute", "CooldownProvider"}

NewFailure(class, scope) == [class |-> class, scope |-> scope]

(***************************************************************************)
(* The Go errors an attempt can end with, told apart as errors.As and      *)
(* errors.Is tell them: a classified *provider.FailureError, a             *)
(* *provider.UnsupportedError, a bare context.Canceled, a bare             *)
(* context.DeadlineExceeded, a net.Error that did or did not time out, and *)
(* anything else.  Only the first kind carries a failure.                  *)
(***************************************************************************)
PlainKind == {"unsupported", "canceled", "deadline", "netTimeout", "net", "other"}

FailureError(f) == [kind |-> "failure", failure |-> f]
Plain(kind) == [kind |-> kind, failure |-> NewFailure("Unknown", "Request")]

Error == {FailureError(f) : f \in Failure} \cup {Plain(k) : k \in PlainKind}

NoError == [kind |-> "nil", failure |-> NewFailure("Unknown", "Request")]

\* The only error the deadline of the failover budget produces.
FailoverBudgetError == FailureError(NewFailure("Timeout", "Route"))

----------------------------------------------------------------------------
\* The central policy: request-scoped failures are never retried elsewhere.
DecideFailureAction(f) ==
    IF f.scope = "Request" THEN "Stop"
    ELSE CASE f.class = "Auth" ->
                  IF f.scope = "Credential" THEN "DisableCredential" ELSE "Stop"
           [] f.class = "RateLimited" ->
                  IF f.scope = "Provider" THEN "CooldownProvider" ELSE "NextRoute"
           [] f.class \in {"Timeout", "Network"} -> "NextRoute"
           [] f.class = "ServerError" -> "NextModel"
           [] f.class = "Protocol" -> "DisableRoute"
           [] OTHER -> "Stop"

HTTPStatus(f) ==
    CASE f.class = "RateLimited" -> 429
      [] f.class = "BadRequest" -> 400
      [] OTHER -> 502

\* fallbackDecision: the failure an error stands for ...
ClassifiedFailure(err) ==
    CASE err.kind = "failure" -> err.failure
      [] err.kind = "unsupported" -> NewFailure("BadRequest", "Route")
      [] err.kind = "canceled" -> NewFailure("Canceled", "Request")
      [] err.kind \in {"deadline", "netTimeout"} -> NewFailure("Timeout", "Route")
      [] err.kind = "net" -> NewFailure("Network", "Route")
      [] OTHER -> NewFailure("Unknown", "Request")

\* ... and the action it calls for.  Classified 400s and malformed responses
\* are moved off the model, whatever the central policy says of them.
FallbackAction(err) ==
    LET f == ClassifiedFailure(err)
    IN  IF f.class \in {"BadRequest", "Protocol"} /\ f.scope # "Request"
        THEN "NextModel"
        ELSE DecideFailureAction(f)

\* writeUpstreamError: the status a failed request answers with.
\* 0 is "nothing is written".
UpstreamErrorStatus(err) ==
    CASE err.kind = "unsupported" -> 400
      [] err.kind = "failure" ->
            IF err.failure.class = "Canceled" THEN 0 ELSE HTTPStatus(err.failure)
      [] OTHER -> 502

\* isRequestCanceled, for a request whose context is done or not.
IsRequestCanceled(gone, err) ==
    \/ gone
    \/ err.kind = "canceled"
    \/ err.kind = "failure" /\ err.failure.class = "Canceled"

\* Faulty variant: only the error is looked at, not the request's context.
CountsAgainstRouteAnyway(gone, err) ==
    /\ ~IsRequestCanceled(FALSE, err)
    /\ err.kind # "unsupported"
    /\ err.kind = "failure" => err.failure.scope # "Request"

\* shouldRecordRouteFailure: does the error count against the route's health?
CountsAgainstRoute(gone, err) ==
    /\ ~IsRequestCanceled(gone, err)
    /\ err.kind # "unsupported"
    /\ err.kind = "failure" => err.failure.scope # "Request"

----------------------------------------------------------------------------
\* The group of routes that share one credential.
CredentialKey(r) ==
    IF CredentialOf[r] # NoCredential THEN CredentialOf[r]
    ELSE IF PrefixOf[r] # NoPrefix THEN PrefixOf[r]
    ELSE ProviderOf[r]

\* Faulty variant: fallback-only candidates follow any model.
AcceptableAnyModel(c, attempted, previous, action) ==
    /\ c.route \notin attempted
    /\ action = "NextModel" => ModelOf[c.route] # ModelOf[previous]
    /\ action = "DisableCredential" => CredentialKey(c.route) # CredentialKey(previous)
    /\ action \in {"NextRoute", "NextModel", "DisableCredential"}

\* The `acceptable` closure: an unattempted candidate the action permits
\* after an attempt on route `previous`.
Acceptable(c, attempted, previous, action) ==
    /\ c.route \notin attempted
    /\ c.fallbackOnly => ModelOf[c.route] = ModelOf[previous]
    /\ CASE action = "NextRoute" -> TRUE
         [] action = "NextModel" ->
               ~c.fallbackOnly /\ ModelOf[c.route] # ModelOf[previous]
         [] action = "DisableCredential" ->
               CredentialKey(c.route) # CredentialKey(previous)
         [] action = "DisableRoute" -> c.route # previous
         [] action = "CooldownProvider" ->
               ProviderOf[c.route] # ProviderOf[previous]
         [] OTHER -> FALSE

\* Positions of the list the next attempt may use ...
EligibleIndices(cands, attempted, previous, action) ==
    IF previous = NoRoute
    THEN {i \in DOMAIN cands : /\ ~cands[i].fallbackOnly
                               /\ cands[i].route \notin attempted}
    ELSE {i \in DOMAIN cands : Acceptable(cands[i], attempted, previous, action)}

\* ... narrowed, after a failure that only asks for another route, to the
\* previous attempt's model when it still has one.
PreferredIndices(cands, attempted, previous, action) ==
    LET eligible == EligibleIndices(cands, attempted, previous, action)
        sameModel == {i \in eligible :
                        /\ previous # NoRoute
                        /\ action = "NextRoute"
                        /\ ModelOf[cands[i].route] = ModelOf[previous]}
    IN  IF sameModel # {} THEN sameModel ELSE eligible

\* nextAttemptCandidate: `r` is the route of the next attempt.
IsNextCandidate(r, cands, attempted, previous, action) ==
    LET preferred == PreferredIndices(cands, attempted, previous, action)
    IN  \E i \in preferred :
            /\ r = cands[i].route
            /\ \A j \in preferred : i <= j

NoNextCandidate(cands, attempted, previous, action) ==
    EligibleIndices(cands, attempted, previous, action) = {}
============================================================================
