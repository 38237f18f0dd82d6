SPECIFICATION TradingSpec
CONSTANTS
    Quotes <- MCQuotes
    Prints <- MCPrints
    Variants <- MCVariants
    Rates = {1}
    Steps = {0, 1}
    QuoteSize = 2
    Cap = 3
    Latency = 1
    FeeRate = 1
    HourNs = 2
    Tick = 2
    MaxEvents = 4
    Schedules <- MCDesks
    Menu <- MCMenu
    Coins = {1, 2, 3}
    Fee = 1
    LastDay = 4
    NamesPerSide = 1
    MinCrossSection = 2
    HalfGross = 4
    MinNames = 2
    Gross = 12
    Spot = 2
    Perp = 1
    EntryNotional = 4
    Band = 0
    Prices = {4, 5, 6, 8}
    Margins = {50, 60, 100}
    MaxDrift = 25
    MaxSteps = 7
CHECK_DEADLOCK FALSE
INVARIANTS InventoryAddsUp DeskAccountsExact
PROPERTIES RestatementsHold RebalancesBalance
