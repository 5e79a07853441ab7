SPECIFICATION Spec
CONSTANTS
    Server = Server
    Script = Script
    Scope <- SortedTickers
    Docs = {"10-Q", "8-K", "8-K/A"}
    Old = {"8-K", "8-K/A"}
    TickerOf <- TickerOfDoc
    ContentOf <- ContentOfDoc
    NoContent = "no exhibit"
    NoTicker = "no ticker"
    NoDoc = "no document"
    Summaries = {"summary", "metadata_only"}
    MaxFaults = 1
    MaxScripts = 1
    Threads = {1, 2}
    Interval = 2
    MaxAttempts = 2
    Backoffs = {1, 3}
    MaxNow = 6
    MaxSent = 4
    Sources <- TieredSources
    Stories = {"filing", "copy", "twin", "bare"}
    Complete = {"filing", "copy", "twin"}
    DateOf <- DateOfStory
    Limit = 2
    SourceOf <- SourceOfStory
    UrlOf <- UrlOfStory
    TwinOf <- TwinOfStory
    Refreshers = {1, 2}
    MaxNewsFaults = 1
    Categories = {"earnings", "guidance", "other"}
    MaxRows = 5
    MaxLimit = 4
    ParagraphLengths = {0, 1, 2, 5, 7}
    MaxParagraphs = 4
    ChunkSizes = {1, 3, 4, 6}
    PointLists <- ListsOfPoints
    MaxAnswers = 3
    PointLimit = 2
    Reports <- FiledReports
    MetricTags <- TagsOf
    DurationMetrics = {"revenue"}
    NoStart = NoStart
    QuarterlyMax = 1
    Year = 2
    YoyWindow = 0
    LastDay = 2
    MaxFundamentalFaults = 1
INVARIANTS CleanScanIsComplete SummarisedOnce InBudget
PROPERTIES EveryFilingIsBriefed EveryStoryIsKept EvidenceIsSound
CHECK_DEADLOCK FALSE
