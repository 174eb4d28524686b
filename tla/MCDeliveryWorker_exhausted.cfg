\* A crash on the last attempt
SPECIFICATION Spec
CONSTANTS
    Deliveries = {1}
    Workers = {w1, w2}
    MaxAttempts = 2
    Lease = 1
    MaxStall = 1
    MaxCrashes = 2
    NoOwner = NoOwner
    Gone = Gone
PROPERTIES
    ExhaustedIsNotClaimed
CHECK_DEADLOCK FALSE
