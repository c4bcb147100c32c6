\* Two clients, a native and a generic model, two runs of the gateway.
SPECIFICATION Spec
CONSTANTS
    Model = {mimo, local}
    Generic = {local}
    Free = {mimo}
    NoModel = NoModel
    Client = {c1, c2}
    MaxRevision = 3
    MaxBoots = 2
    SaveMayFail = TRUE
SYMMETRY Symmetry
INVARIANTS
    TypeOK
    PinnedInPool
    RevisionNamesState
PROPERTIES
    OnlyClientsDeselect
    RestartKeepsChoice
CHECK_DEADLOCK FALSE
