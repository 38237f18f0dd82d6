SPECIFICATION Spec
CONSTANTS
    MaxTime = 3
    HourLen = 2
    MaxLives = 3
    MaxLines = 3
    Crashes = TRUE
CHECK_DEADLOCK FALSE
INVARIANT RestartKeepsHourReadable
