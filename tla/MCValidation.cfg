SPECIFICATION ValidationSpec
CONSTANTS
    GapChoices <- MCGapChoices
    Day <- MCDay
    SlackBefore = 0
    SlackAfter = 1
    MaxTime = 5
    MaxMarks = 3
    DayGapChoices <- MCDayGaps
    ScoredDay <- MCScoredDay
    MaxGaps = 2
    StaleAfter = 1
    SilentAfter = 1
    Threshold = 3
    Scale = 4
    Interval = 2
    FlushRows = 3
    Horizon = 6
    MaxEvents = 4
    RowRuns = 2
    BookSymbols = {"a", "b"}
    Hours = 2
    MaxBefore = 3
    MaxDay = 2
    Recorders = {"kraken", "okx"}
    Vendors = {"cme"}
    Sources = {"binance"}
    Replayable = {"kraken", "okx"}
    Mechanisms <- MCMechanisms
    Dates = {"d1"}
    VendorSymbols = {"s1"}
    MaxRuns = 2
    Nothing = Nothing
CHECK_DEADLOCK FALSE
INVARIANTS LongSilenceIsLogged DayAccountsExact WarmStartInvisible RowsAreTheDay ReportsAnswerForAll
PROPERTY ImplementsVerdict
