\* The scheduler's threads, the WebSocket tasks and the quote cache; purchases and sales of
\* a person and of agents at changing prices, between the steps of a risk pass too; initializations and resets, with crashes anywhere.
SPECIFICATION Spec
CONSTANTS
    Loop = loop
    Manuals = {m1, m2}
    Operations = {reset, rebuild}
    Nobody = Nobody
    Interval = 3
    MaxOperations = 2
    Clients = {c1, c2}
    MaxBoard = 1
    MaxConnects = 2
    MaxRefreshes = 1
    MaxWebFaults = 1
    Symbols = {A, B}
    Readers = {r1, r2, r3}
    Background = background
    MaxExpiries = 2
    MaxQuoteFaults = 1
    Tickers = {1, 2}
    SectorOf <- OneSector
    Unclassified = "unknown"
    Scale = 3
    Prices = {0, 2, 5}
    StartingCash = 30
    Fee = 2
    Ratio = 4
    Allocations = {4}
    Policies <- AgentPolicies
    NoPolicy = NoPolicy
    Autonomous = Autonomous
    DefaultPolicy <- Loose
    PlanParts = {2, 3}
    MaxPositionRatio = 3
    StopLoss = 8
    TakeProfit = 15
    Splits <- TwoForOne
    Payments = {3}
    MaxTrades = 3
    MaxEvents = 1
    FundCash = 30
    FundPrices <- FundQuotes
    MaxOps = 3
    MaxCrashes = 2
INVARIANTS LocksAreKept SeedKeepsTheBalance
PROPERTIES LoopRefreshesUntilStopped LatestIsShown EveryFetchEnds
    ForcedSalesLeaveLittle BuysStayWithinPolicy TradesAreAccounted SeedingIsSafe
CHECK_DEADLOCK FALSE
