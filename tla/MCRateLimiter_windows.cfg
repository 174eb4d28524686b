\* Windows of three seconds, two replicas
SPECIFICATION Spec
CONSTANTS
    Replicas = {r1, r2}
    Limit = 2
    Window = 3
    Ticks = 2
INVARIANTS
    BurstIsBounded
    RetryAfterHolds
