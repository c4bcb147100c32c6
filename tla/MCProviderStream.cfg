\* Every answer of up to three lines, for each adapter.
SPECIFICATION Spec
CONSTANTS
    MaxLines = 3
INVARIANTS
    TypeOK
    DeliversWhatWasSaid
PROPERTIES
    GoneCallerBlamesNoRoute
    KeepsStreamContract
CHECK_DEADLOCK FALSE
