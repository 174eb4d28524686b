\* Workers that finish within their leases
SPECIFICATION FairSpec
CONSTANTS
    Deliveries = {1, 2}
    Workers = {w1, w2}
    MaxAttempts = 2
    Lease = 3
    MaxStall = 2
    MaxCrashes = 2
    NoOwner = NoOwner
    Gone = Gone
INVARIANTS
    OneWorkerPerRow
    ExcessNeedsCrash
PROPERTIES
    SettledIsFinal
    EverythingSettles
CHECK_DEADLOCK FALSE
