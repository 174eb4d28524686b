\* Two requests and a reader; two tenants and one that may be created
SPECIFICATION Spec
CONSTANTS
    a = a
    b = b
    c = c
    ad = ad
    iv = iv
    nu = nu
    pat = pat
    kim = kim
    none = none
    NoRole = none
    Tenants = {a, b, c}
    Users = {ad, iv, nu}
    Member <- MCMember
    Emails = {pat, kim}
    Ids = {1, 2, 3, 4}
    Seed <- MCSeed
    Requests = {r1, r2}
    PageSize = 1
SYMMETRY Symmetry
INVARIANTS
    TenantsAreIsolated
    OneWinnerPerKey
    ListIsComplete
    ReportAddsUp
    FeedNeedsLiveToken
CHECK_DEADLOCK FALSE
