\* One request: three attempts, an error for each way ahead, the deadline and a leaving client.
SPECIFICATION FairSpec
CONSTANTS
    pubA = pubA
    authA = authA
    pubB = pubB
    authB = authB
    hostC = hostC
    modelA = modelA
    modelB = modelB
    modelC = modelC
    opencode = opencode
    hosted = hosted
    public = public
    auth = auth
    NoRoute = NoRoute
    NoProvider = NoProvider
    NoCredential = NoCredential
    NoPrefix = NoPrefix
    Route <- MCRoute
    Provider <- MCProvider
    ModelOf <- MCModelOf
    ProviderOf <- MCProviderOf
    CredentialOf <- MCCredentialOf
    PrefixOf <- MCPrefixOf
    MaxAttempts = 3
    CandidateLists <- MCCandidateLists
    UpstreamErrors <- SomeErrors
INVARIANTS
    TypeOK
    AnswerIsSound
    UsageIsTrue
    NothingLeaks
    NextFollowsFailure
    VerdictsAreEarned
PROPERTIES
    GoneClientBlamesNoRoute
    KeepsAnswerPromise
    RequestEnds
