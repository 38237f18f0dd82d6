SPECIFICATION CaptureSpec
CONSTANTS
    MaxTime = 4
    HourLen = 10
    MaxGaps = 1
    ExpLimit = 0
    PingBound = 1
    CloseBound = 1
    MaxLives = 3
    Faults = {"drop", "silent"}
    Procs = {p1, p2, p3}
    FileTicks = 3
    HourTicks = 2
    HourLines = 3
SYMMETRY Symmetry
CHECK_DEADLOCK FALSE
INVARIANTS PastLossesOnTimeline DataOutsideAllGaps DowntimeIsTrue CausesApart FilesReadBack
PROPERTY ClosedFramesImmutable
