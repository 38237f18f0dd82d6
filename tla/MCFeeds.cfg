SPECIFICATION FeedSpec
CONSTANTS
    Symbols = {s1, s2}
    Channels = TRUE
    MaxSeq = 6
    MaxConns = 2
    Widths = {1, 3}
    MaxAge = 3
    MaxTrades = 3
    BinNs = 2
    WindowBins = 1
    Horizons = {1, 2}
    TimeLimit = 2
    BarrierMult = 1
    BpsUnit = 100
    MakerBps = 2
    TakerBps = 3
    FeePerContract = 1
    Multiplier = 2
    IntervalNs = 2
    EveryN = 1
    Threshold = 2
    Days <- SampledDays
    Steps = {0, 1, 2}
    Lookback = 1
    MaxPending = 1
    None = None
CHECK_DEADLOCK FALSE
INVARIANTS StalenessLeavesTrace   
