\* A hold between the select of a purge and its commit
SPECIFICATION Spec
CONSTANTS
    f1 = f1
    w = w
    a = a
    Tenants = {1}
    Cases = {1}
    TenantOf <- MCTenantOf
    Files = {f1}
    CaseOf <- MCCaseOf
    Purgers = {w}
    Workers = {w}
    Readers = {}
    BatchSize = 1
    MaxDays = 1
    MaxFaults = 0
PROPERTIES
    HoldIsHonoured
CHECK_DEADLOCK FALSE
