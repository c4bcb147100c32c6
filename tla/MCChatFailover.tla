-------------------------- MODULE MCChatFailover ---------------------------
(***************************************************************************)
(* Instances of ChatFailover for TLC.  Two OpenCode models, each with a    *)
(* public and an authenticated route, and a hosted model whose route has   *)
(* no credential id of its own.                                            *)
(***************************************************************************)
EXTENDS ChatFailover

CONSTANTS pubA, authA, pubB, authB, hostC,  \* routes
          modelA, modelB, modelC,           \* models
          opencode, hosted,                 \* providers
          public, auth                      \* credential ids

MCRoute == {pubA, authA, pubB, authB, hostC}
MCProvider == {opencode, hosted}

MCModelOf == [r \in MCRoute |->
    CASE r \in {pubA, authA} -> modelA [] r \in {pubB, authB} -> modelB [] OTHER -> modelC]
MCProviderOf == [r \in MCRoute |-> IF r = hostC THEN hosted ELSE opencode]
MCCredentialOf == [r \in MCRoute |->
    CASE r \in {pubA, pubB} -> public [] r \in {authA, authB} -> auth [] OTHER -> NoCredential]
MCPrefixOf == [r \in MCRoute |-> IF r = hostC THEN hosted ELSE opencode]

Normal(r) == [route |-> r, fallbackOnly |-> FALSE]
Fallback(r) == [route |-> r, fallbackOnly |-> TRUE]

\* A model with an unknown-access alternate and a model of another provider.
ShortCandidateLists ==
    {<<Normal(pubA), Normal(hostC), Fallback(authA)>>}

\* No candidate at all; both models with their unknown-access alternates last;
\* an explicit model whose alternate is listed twice; every route eligible.
MCCandidateLists == ShortCandidateLists \cup
    {<<>>,
     <<Normal(pubB), Normal(pubA), Fallback(authB), Fallback(authB)>>,
     <<Normal(pubA), Normal(pubB), Normal(hostC), Fallback(authA), Fallback(authB)>>,
     <<Normal(authA), Normal(pubB), Normal(authB), Normal(pubA)>>}

RouteFailure(class) == FailureError(NewFailure(class, "Route"))

\* What the provider packages return for a refused or broken request.
ProviderErrors ==
    {RouteFailure("RateLimited"), RouteFailure("BadRequest"),
     RouteFailure("ServerError"), RouteFailure("Network"),
     FailureError(NewFailure("Auth", "Credential")),
     FailureError(NewFailure("BadRequest", "Request")), Plain("unsupported")}

\* One error for each way ahead: another route of the model, another model,
\* another credential, and an end.
SomeErrors ==
    {RouteFailure("RateLimited"), RouteFailure("BadRequest"), RouteFailure("ServerError"),
     FailureError(NewFailure("Auth", "Credential")),
     FailureError(NewFailure("BadRequest", "Request"))}
============================================================================
