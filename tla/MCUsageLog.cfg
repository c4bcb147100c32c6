\* Two requests, two starts, a log that ages and overflows, two subscribers.
SPECIFICATION FairSpec
CONSTANTS
    NoFile = NoFile
    RenameMayFail = TRUE
    Request = {r1, r2}
    Size = {1, 2, 3, 4}
    MaxBytes = 2
    Subscriber = {s1, s2}
    Buffer = 1
    MaxBoots = 2
INVARIANTS
    TypeOK
    AckedIsKept
    FollowersKnowTheLog
PROPERTIES
    SlowReadersHoldNobody
CHECK_DEADLOCK FALSE
