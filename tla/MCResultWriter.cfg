SPECIFICATION Spec
CONSTANTS
    Absent = Absent
    Agents <- MCAgents
    Humans <- MCHumans
    Phases <- MCPhases
    TaskTypes <- MCTaskTypes
    Clusters <- MCClusters
    DefaultCap = 3
    InitialFiles <- MCInitialFiles
    Turns <- MCTurns
    Replies <- MCReplies
    MaxPosts = 2
    MaxSpawns = 2
    MaxEdits = 1
    MaxFaults = 1
INVARIANTS
    TypeOK
    SectionOnce
    PingsFollowParks
PROPERTIES
    OwnedFieldsKept
    CapParksTheTask
    StaleResultKeepsRouting
    HumanOwnerSurvives
    ParkedPhaseSticks
CHECK_DEADLOCK FALSE
