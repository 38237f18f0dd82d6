SPECIFICATION Spec
CONSTANTS
    Configured <- MCKeys
    Limit = 2
    Faults = {"raise", "probe", "close", "marker", "kill", "hour_turn"}
    Kinds = {"recorder", "telemetry"}
    MaxStarts = 3
    LogLimit = 2
    MaxLines = 3
    MaxRotations = 1
    Probed <- MCProbed
    DayTicks = 2
    LastTick = 3
    MaxRows = 5
    StoreLives = 3
    Watched = {"a", "b"}
    Interval = 1
    Repeat = 3
    LastWatch = 5
    HealthLives = 2
CHECK_DEADLOCK FALSE
INVARIANTS EndMarkerMeansClosed ServicesAreOwned 
PROPERTIES FailureEndsService CommandsAnswered DayFilesGrow
