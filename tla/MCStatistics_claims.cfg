\* Statements of the source that the code does not keep. TLC reports the one it
\* meets first: leave one name in the list to see that one.
SPECIFICATION StatSpec
CONSTANTS
    Finished <- MCFinished
    ApdexT = 2
    Threshold = 5
    NodeLimit = 3
    TopN = 1
    SlowSqlCount = 1
    MaxErrors = 1
    MaxRequests = 4
INVARIANTS
    ErrorsCounted
    ErrorsLimited
