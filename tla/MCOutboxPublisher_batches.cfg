\* Three publishers, three events
SPECIFICATION FairSpec
CONSTANTS
    Events = {1, 2, 3}
    Publishers = {p1, p2, p3}
INVARIANTS
    TypeOK
    OneDeliveryPerEvent
    PublishedIffMaterialised
PROPERTIES
    EveryEventMaterialises
CHECK_DEADLOCK FALSE
