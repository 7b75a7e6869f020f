SPECIFICATION Spec
CONSTANTS
    Absent = Absent
    Previous = 0
    MaxRetries = 2
    InitialCounts <- MCInitialCounts
    Partitions = 2
    MaxPosts = 2
    MaxSpawns = 2
    MaxEdits = 1
    MaxFaults = 1
    MaxSeconds = 1
INVARIANTS
    TypeOK
    OneRetryPerFailure
    RetryBudget
    CommentsFollowEscalations
CHECK_DEADLOCK FALSE
