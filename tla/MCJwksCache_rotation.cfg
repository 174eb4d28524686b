SPECIFICATION FairSpec
CONSTANTS
    Threads = {t1, t2}
    Ttl = 2
    MaxDelay = 1
    MaxDocument = 3
INVARIANTS
    WithdrawnKeysDie
    RotationIsFollowed
PROPERTIES
    ValidationEnds
CHECK_DEADLOCK FALSE
