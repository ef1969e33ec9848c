\* Statements of the source that the code does not keep. TLC reports the one it
\* meets first: leave one name in the list to see that one.
SPECIFICATION Spec
CONSTANTS
    Apps = {a1, a2}
    Slots = {s1, s2}
    Requests = {r1}
    NoThread = NoThread
    NoApp = NoApp
    MaxSessions = 2
    MaxRetry = 1
INVARIANTS
    HarvestLoopSurvives
    SkipOnlyWhileConnecting
    ExitSignalsController
    OnlyARowOfFailuresDrops
