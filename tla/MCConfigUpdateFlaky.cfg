\* An OS store that may refuse at any time hides the key that was set later.
SPECIFICATION Spec
CONSTANTS
    Provider = {local}
    Url = {home}
    NoUrl = NoUrl
    Key = {k1, k2}
    InferenceToken = InferenceToken
    NoSecret = NoSecret
    Unsaid = Unsaid
    Backends <- FlakyBackends
    SaveFaults = {}
    MaxRevision = 2
    MaxFaults = 0
INVARIANTS
    GivenKeyIsRead
CHECK_DEADLOCK FALSE
