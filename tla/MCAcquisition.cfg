SPECIFICATION Spec
CONSTANTS
    Coins = {"c1", "c2"}
    Limit = 2
    LastHour = 4
    PageRuns = 2
    PageFailures = 1
    Symbols = {"a", "b", "c", "p"}
    Months = {1, 2, 3}
    Size = 2
    Pegged = {"p"}
    Volume <- MCVolume
    Listings <- MCListings
    Splices <- MCSplices
    Retries = 2
    MaxThreads = 2
    MaxStops = 1
    MaxFaults = 2
    Ranges = {"y"}
    Buyers = {"b1", "b2"}
    Wares = {"x", "y", "z"}
    Price <- MCPrice
    Unpriced = Unpriced
    Cap = 6
    MaxOrders = 4
    Starts = {3, 4, 5, 6}
    Offsets = {5, 6}
    FileDays = {0, 1}
    Rolls = {1}
    Steps <- MCSteps
    Grace = 1
    Quiet = 5
    Lookback = 1
    Horizon = 3
    MinPct = 20
    MaxRecords = 5
    Venues = {"kraken", "coinbase", "hyperliquid", "cme"}
    Instruments = {1, 2}
    Unreadable = 0
    MaxTrades = 3
    MaxConnections = 2
    TradeRuns = 2
CHECK_DEADLOCK FALSE
INVARIANTS PagesAreTheVenues HistoriesAreTheArchives  VendorDaysExact TradesOnceInOrder
