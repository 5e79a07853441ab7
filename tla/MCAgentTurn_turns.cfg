\* A turn of each kind of agent, with room for two positions and three tickers, a
\* rebuild and a backfill in between.
CONSTANTS
    Tickers = {A, B, C}
    NoTicker = none
    MaxPositions = 2
    Attempts = 2
    RiskFallback = TRUE
    Architectures = {"single", "committee", "autonomous"}
    MaxAnswer = 2
    MaxRebuilds = 1
    MaxBackfills = 1
SPECIFICATION TurnSpec
INVARIANTS
    CommitteeFailsClosed
    OneRotation
    TurnIsAccountedFor
PROPERTIES
    NoBuyWithoutItsSell
    EveryTurnEnds
