SPECIFICATION Spec
CONSTANTS
    Writers = {w1, w2}
    Keys = {k1, k2}
    NoKey = NoKey
    Window = 3
    CallBound = 1
    MaxTime = 6
    MaxCalls = 5
INVARIANTS
    TypeOK
    PingsSpaced
PROPERTY
    SuppressedForAReason
CHECK_DEADLOCK FALSE
