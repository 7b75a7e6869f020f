SPECIFICATION Spec
CONSTANTS
    Names <- NestedNames
    Missing = Missing
    Nobody = Nobody
    Workers = {w1, w2}
    Creates <- NestedCreates
    InitialVaults <- NestedVaults
    Ordinal <- MCOrdinal
    Lookback = 1
    MaxCreates = 3
    MaxFaults = 0
    MaxEdits = 0
SYMMETRY MCSymmetry
INVARIANT
    OwnScheduleOnly
CHECK_DEADLOCK FALSE
