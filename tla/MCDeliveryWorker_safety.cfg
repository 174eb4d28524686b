\* Two workers, two rows: leases run out, workers crash
SPECIFICATION Spec
CONSTANTS
    Deliveries = {1, 2}
    Workers = {w1, w2}
    MaxAttempts = 2
    Lease = 1
    MaxStall = 2
    MaxCrashes = 2
    NoOwner = NoOwner
    Gone = Gone
SYMMETRY Symmetry
INVARIANTS
    TypeOK
    DeliveredWasSent
    DeadLetterIsExhausted
PROPERTIES
    SuccessByHolder
CHECK_DEADLOCK FALSE
