\* Two batches of one agent, with a reset, a crash and a batch nobody ends; and one
\* batch of two agents while a third is created, with the same.
CONSTANTS
    Agents = {1, 2, 3}
    Initial = {3}
    Several = {1, 2}
    Cooldown = 1
    MaxBatches = 2
    MaxTime = 1
    MaxCrashes = 1
    MaxResets = 1
    MaxFaults = 1
SPECIFICATION SeriesSpec
INVARIANTS
    OneRunningRow
    CompletedIsComplete
    NoTradeOutlivesReset
PROPERTIES
    BatchesAreSettled
    EveryBatchEnds
