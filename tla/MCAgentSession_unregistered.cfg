SPECIFICATION FairSpec
CONSTANTS
    Apps = {a1}
    Slots = {s1, s2}
    Requests = {r1}
    NoThread = NoThread
    NoApp = NoApp
    MaxSessions = 2
    MaxRetry = 1
PROPERTY
    UnregisteredIsSkipped
