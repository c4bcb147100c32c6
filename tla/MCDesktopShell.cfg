\* Two desktop processes and three gateways, one update; Windows files.
SPECIFICATION Spec
CONSTANTS
    Desktop = {d1, d2}
    CanMoveOpenFile = FALSE
    Gateway = {g1, g2, g3}
    MaxSaves = 1
INVARIANTS
    TypeOK
    OneDesktop
    ChildrenAreKept
    RestartsAreTrue
SYMMETRY Symmetry
CHECK_DEADLOCK FALSE
