\* A quote at which the rounded quantity costs more than the balance.
CONSTANTS
    Scale = 10
    FundCash = 100
    FundPrices <- Quotes
    MaxOps = 3
    MaxCrashes = 2
SPECIFICATION FundSpec
PROPERTIES ResetReinvests
