\* Two requests save in the other order.
SPECIFICATION Spec
CONSTANTS
    Model = {mimo, local}
    Generic = {local}
    Free = {mimo}
    NoModel = NoModel
    Client = {c1, c2}
    MaxRevision = 3
    MaxBoots = 1
    SaveMayFail = FALSE
SYMMETRY Symmetry
INVARIANTS
    AnsweredIsPersisted
CHECK_DEADLOCK FALSE
