SPECIFICATION Spec
CONSTANTS
    Names <- MCNames
    Missing = Missing
    Nobody = Nobody
    Workers = {w1, w2}
    Creates <- MCCreates
    InitialVaults <- MCInitialVaults
    Ordinal <- MCOrdinal
    Lookback = 1
    MaxCreates = 2
    MaxFaults = 1
    MaxEdits = 1
SYMMETRY MCSymmetry
INVARIANTS
    TypeOK
    ChainsLeadOn
PROPERTIES
    CompletedStaysCompleted
    DueIsClosed
CHECK_DEADLOCK FALSE
