SPECIFICATION StatSpec
CONSTANTS
    Finished <- MCFinished
    ApdexT = 2
    Threshold = 5
    NodeLimit = 3
    TopN = 1
    SlowSqlCount = 1
    MaxErrors = 1
    MaxRequests = 4
INVARIANTS
    PacketsExact
    SharesAddUp
    ErrorsNotInvented
    WithinLimits
