SPECIFICATION Spec
CONSTANTS
    MaxTime = 3
    HourLen = 2
    MaxGaps = 2
    ExpLimit = 1
    PingBound = 2
    CloseBound = 1
    Faults = {"drop", "silent", "disk", "clean_close", "clock_step"}
CHECK_DEADLOCK FALSE
INVARIANTS MissedAccounted NoCaptureInsideGap
PROPERTY StopEndsRun
