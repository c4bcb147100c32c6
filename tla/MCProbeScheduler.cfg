\* Two routes, one worker per sweep, two runs of the loop and a sweep by hand.
SPECIFICATION Spec
CONSTANTS
    Route = {r1, r2}
    Caller = {app}
    Manual = {hand}
    MaxRuns = 2
    MaxConcurrentProbes = 1
    BaseBackoff = 1
    MaxBackoff = 1
INVARIANTS
    TypeOK
    OneLoop
    BackoffIsHonest
PROPERTIES
    StopLeavesNoProbe
    EveryStopReturns
