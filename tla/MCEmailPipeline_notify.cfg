\* Two decisions, two email workers and a publisher
SPECIFICATION FairPipelineSpec
CONSTANTS
    Deliveries = {1, 2}
    Workers = {w1, w2}
    OutboxOnly = {p}
    MaxAttempts = 1
    Lease = 2
    MaxStall = 1
    MaxCrashes = 1
    NoOwner = NoOwner
    Gone = Gone
INVARIANTS
    OnlyPublishedIsSent
PROPERTIES
    ImplementsOutbox
    ImplementsDelivery
    EveryDecisionSettles
CHECK_DEADLOCK FALSE
