\* One document, two purges, a download, two faults
SPECIFICATION FairSpec
CONSTANTS
    f1 = f1
    w = w
    a = a
    Tenants = {1, 2}
    Cases = {1, 2}
    TenantOf <- MCTenantOf
    Files = {f1}
    CaseOf <- MCCaseOf
    Purgers = {w, a}
    Workers = {w}
    Readers = {r}
    BatchSize = 2
    MaxDays = 1
    MaxFaults = 2
INVARIANTS
    TypeOK
    KeptUntilDue
    NoFileWithoutRow
PROPERTIES
    DueIsPurged
CHECK_DEADLOCK FALSE
