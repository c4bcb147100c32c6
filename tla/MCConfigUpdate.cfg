\* Two providers, one failing write, stops anywhere, an OS store that may appear.
SPECIFICATION Spec
CONSTANTS
    Provider = {opencode, local}
    Url = {home, away}
    NoUrl = NoUrl
    Key = {k1, k2}
    InferenceToken = InferenceToken
    NoSecret = NoSecret
    Unsaid = Unsaid
    Backends <- SteadyBackends
    SaveFaults = {"before"}
    MaxRevision = 2
    MaxFaults = 1
SYMMETRY Symmetry
INVARIANTS
    TypeOK
    StoresMatchConfig
    GivenKeyIsRead
PROPERTIES
    RevisionNamesConfig
CHECK_DEADLOCK FALSE
