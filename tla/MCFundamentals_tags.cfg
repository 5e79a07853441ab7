\* The company files under the tag that is preferred after it filed under the other.
CONSTANTS
    Reports <- FiledReports
    MetricTags <- TagsOf
    DurationMetrics = {"revenue"}
    NoStart = NoStart
    QuarterlyMax = 1
    Year = 2
    YoyWindow = 0
    LastDay = 3
    MaxFundamentalFaults = 1
SPECIFICATION FundamentalsSpec
INVARIANTS GrowthIsOfOneTag
