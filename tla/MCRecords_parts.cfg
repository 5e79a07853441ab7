\* Trades around a split and a dividend, detected by two threads; daily and other points
\* of the chart; backups and restores of the database files; batches that write evidence
\* and prunes that delete it; upgrades of a legacy database.
CONSTANTS
    Users = {1, 2}
    Nobody = 0
    SplitDay = 1
    ExDay = 1
    StartingCash = 2
    MaxDay = 2
    MaxRows = 2
    MaxFaults = 1
    Accounts = {1, 2}
    Assets = {A}
    Daily = daily
    Others = {batch}
    Keep = 1
    MaxChartDay = 1
    MaxStamp = 3
    MaxChartEvents = 2
    KeepBackups = 1
    MaxCommits = 2
    MaxRestores = 2
    MaxFileFaults = 1
    Agents = {1, 2}
    Committee = {2}
    Window = 1
    LastDay = 2
    MaxBatches = 2
    MaxDecisions = 3
    MaxBatchFaults = 1
    LegacyVersions = {0, 1, 2, 4, 6, 7, 8, 12, 15, 17, 18, 22, 23}
    MaxStarts = 2
    MaxLedger = 2
SPECIFICATION Spec
INVARIANTS SplitIsCountedOnce LedgerExplainsCash ChartIsSound MaintenanceIsSafe UpgradeIsSafe
PROPERTIES CorrectionsAreSound
CHECK_DEADLOCK FALSE
