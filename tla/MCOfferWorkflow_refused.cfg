\* A rejection meets a case that has moved on
SPECIFICATION Spec
CONSTANTS
    hm1 = hm1
    hm2 = hm2
    ta = ta
    Candidates = {c1}
    Offers = {o1}
    Actors = {hm1, hm2, ta}
    RoleOf <- MCRoleOf
    Requests = {r1, r2}
    Versions <- MCVersions
    NoCase = NoCase
    NoOffer = NoOffer
    NoActor = NoActor
INVARIANTS
    RejectionIsNeverRefused
CHECK_DEADLOCK FALSE
