\* Statements of the source that the code does not keep. TLC reports the one it
\* meets first: leave one name in the list to see that one.
SPECIFICATION FairSpec
CONSTANTS
    Apps = {a1}
    NoApp = NoApp
    MaxCommands = 2
    Python = 2
INVARIANTS
    OwnSamplesOnly
    WithheldIfStopped
    IgnoredIfRunning
PROPERTIES
    RunsItsDuration
