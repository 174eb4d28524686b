\* _fail overwrites a row that another worker holds
SPECIFICATION Spec
CONSTANTS
    Deliveries = {1}
    Workers = {w1, w2}
    MaxAttempts = 2
    Lease = 1
    MaxStall = 1
    MaxCrashes = 0
    NoOwner = NoOwner
    Gone = Gone
PROPERTIES
    OnlyHolderFinalizes
CHECK_DEADLOCK FALSE
