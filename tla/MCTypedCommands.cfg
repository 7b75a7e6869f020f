SPECIFICATION Spec
CONSTANTS
    Absent = Absent
    None = None
    Missing = Missing
    Agents <- MCAgents
    Humans <- MCHumans
    Phases <- MCPhases
    TaskTypes <- MCTaskTypes
    Clusters <- MCClusters
    DefaultCap = 2
    TypedCommand <- MCCommands
    InitialTasks <- MCInitialTasks
    MaxCommands = 2
    BatchSize = 2
    MaxExpired = 1
    MaxFaults = 1
    MaxEdits = 1
    MaxFailures = 1
INVARIANTS
    TypeOK
    ParkedHasItsRecord
    NoAgentAtTheCap
    ResolutionMeansClosed
PROPERTIES
    RereadEditsSurvive
    FoundCapKept
CHECK_DEADLOCK FALSE
