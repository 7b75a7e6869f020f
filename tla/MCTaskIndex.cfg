SPECIFICATION Spec
CONSTANTS
    Paths = {t, a}
    Suffixed = a
    u1 = u1
    u2 = u2
    l1 = l1
    Initial <- MCInitial
    Ids = {u1, u2, l1}
    Legacy = {l1}
    Served = {u1, l1}
    Partition <- MCPartition
    Title = t
    Alt <- MCAlt
    Attempts = 2
    MaxCalls = 2
    MaxEdits = 1
    MaxFaults = 1
    None = None
INVARIANTS
    TypeOK
    LookupIsVerified
PROPERTIES
    DropIsJustified
    KnownDuplicateKept
    CreateReusesTheFile
    CreatedFileIsVisible
CHECK_DEADLOCK FALSE
