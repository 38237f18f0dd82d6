SPECIFICATION Spec
CONSTANTS
    Nothing = Nothing
    PanelClasses = {"A", "B", "C", "D", "E"}
    Lags <- PanelLags
    ShortSpan = 2
    LongSpan = 2
    PastSpan = 3
    MinWindow = 1
    MinMean = 1
    WeekDays = 1
    WeeksAhead = {1, 2}
    MinTrain = 1
    LastPanelDay = 7
    MaxHoles = 3
    NaN = NaN
    ZValues <- PairZs
    EntryZ = 2
    MaxHold = 3
    Starts = {1, 3}
    LastBar = 5
    FoldPlans <- MCPlans
    RowGaps = {0, 1, 2}
    MaxRows = 4
    MaxLost = 1
    MinUsable = 3
    RowsPerFile = 3
    Dev = "creator"
    Traders = {"w"}
    OpenTime = 1
    ReadTime = 2
    SoftTime = 2
    SlowTime = 3
    Share <- SellShare
    Amounts = {1}
    ChainTime = 4
    ChainRecords = 3
    FundedCoins = {"a", "b"}
    PaidRates <- MCRates
    TicksPerDay = 2
    ShortestHistory = 1
    CreditedMost = 2
    CreditedFirst = 1
    ThinDay = 2
    LastPaid = 3
    MaxFunding = 5
CHECK_DEADLOCK FALSE
INVARIANTS NothingUnpublished TradesAddUp FoldsAreApart CensusReadsTheLog 
PROPERTY PastIsClosed
