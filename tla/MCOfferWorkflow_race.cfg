\* One case and its offer, three requests: every race on one offer
SPECIFICATION Spec
CONSTANTS
    hm1 = hm1
    hm2 = hm2
    ta = ta
    Candidates = {c1}
    Offers = {o1}
    Actors = {hm1, hm2, ta}
    RoleOf <- MCRoleOf
    Requests = {r1, r2, r3}
    Versions <- MCVersions
    NoCase = NoCase
    NoOffer = NoOffer
    NoActor = NoActor
SYMMETRY Symmetry
INVARIANTS
    TypeOK
    ApprovedByBoth
    OfferAndCaseAgree
    OneEventPerDecision
    VersionsCountCommits
    OfferInsertNeverConflicts
PROPERTIES
    DecidedIsFinal
    StagesFollowTheMachine
    ImplementsApprovalFlow
CHECK_DEADLOCK FALSE
