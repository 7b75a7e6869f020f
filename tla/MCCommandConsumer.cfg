SPECIFICATION ConsumerSpec
CONSTANTS
    None = None
    MaxCommands = 3
    BatchSize = 2
    MaxExpired = 3
    MaxFaults = 2
PROPERTY
    LogSpec
CHECK_DEADLOCK FALSE
