SPECIFICATION Spec
CONSTANTS
    Absent = Absent
    None = None
    Missing = Missing
    Agents <- MCAgents
    Humans <- MCHumans
    Phases <- MCPhases
    TaskTypes <- MCTaskTypes
    Clusters <- MCClusters
    DefaultCap = 2
    TypedCommand <- MCCommands
    InitialTasks <- MCInitialTasks
    MaxCommands = 1
    BatchSize = 1
    MaxExpired = 1
    MaxFaults = 1
    MaxEdits = 0
    MaxFailures = 1
PROPERTY
    WindowSelfHeals
CHECK_DEADLOCK FALSE
