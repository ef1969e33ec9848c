\* Statements of the source that the code does not keep. TLC reports the one it
\* meets first: leave one name in the list to see that one.
SPECIFICATION Spec
CONSTANTS
    Trackers = {t1, t2}
    Configs <- MCConfigs
    MaxSessions = 2
    MaxRetry = 1
INVARIANTS
    ErrorsCountedOnce
    MergeNeverRaises
