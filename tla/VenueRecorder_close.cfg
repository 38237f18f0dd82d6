SPECIFICATION Spec
CONSTANTS
    MaxTime = 3
    HourLen = 2
    MaxGaps = 2
    ExpLimit = 2
    PingBound = 2
    CloseBound = 1
    Faults = {"clean_close"}
CHECK_DEADLOCK FALSE
INVARIANT LossesInSidecar
