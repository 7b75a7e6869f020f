SPECIFICATION Spec
CONSTANTS
    Paths = {p1, p2}
    Ids = {"u1"}
    MintIds = {"m1"}
    Phases <- MCPhases
    Cap = 1
    NoFile = NoFile
    NoEntry = NoEntry
    Zero = Zero
    Gone = Gone
    NewFiles <- MCNewFiles
    MaxEdits = 3
    MaxFaults = 1
INVARIANTS
    TypeOK
    UniqueIdentifiers
    SettledIsPublished
    ResetOncePerRedelegation
    
SYMMETRY PathSymmetry
CHECK_DEADLOCK FALSE
