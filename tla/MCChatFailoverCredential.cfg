\* A credential that failed authentication is used again in the same request.
SPECIFICATION Spec
CONSTANTS
    pubA = pubA
    authA = authA
    pubB = pubB
    authB = authB
    hostC = hostC
    modelA = modelA
    modelB = modelB
    modelC = modelC
    opencode = opencode
    hosted = hosted
    public = public
    auth = auth
    NoRoute = NoRoute
    NoProvider = NoProvider
    NoCredential = NoCredential
    NoPrefix = NoPrefix
    Route <- MCRoute
    Provider <- MCProvider
    ModelOf <- MCModelOf
    ProviderOf <- MCProviderOf
    CredentialOf <- MCCredentialOf
    PrefixOf <- MCPrefixOf
    MaxAttempts = 3
    CandidateLists <- MCCandidateLists
    UpstreamErrors <- ProviderErrors
INVARIANTS
    FailedCredentialExcluded
