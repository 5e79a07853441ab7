\* Two forced sales in one risk pass, with which nobody interferes.
CONSTANTS
    Tickers = {1, 2}
    SectorOf <- OneSector
    Unclassified = "unknown"
    Scale = 1
    Prices = {0, 2, 5}
    StartingCash = 30
    Fee = 2
    Ratio = 4
    Allocations = {1}
    Policies <- AgentPolicies
    NoPolicy = NoPolicy
    Autonomous = Autonomous
    DefaultPolicy <- Loose
    PlanParts = {1, 2, 3}
    MaxPositionRatio = 3
    StopLoss = 8
    TakeProfit = 15
    Splits <- TwoForOne
    Payments = {3}
    MaxTrades = 4
    MaxEvents = 0
SPECIFICATION EngineSpec
INVARIANTS ForcedSalesSellAll
