SPECIFICATION FairSpec
CONSTANTS
    Apps = {a1}
    Slots = {s1, s2}
    Requests = {r1, r2}
    NoThread = NoThread
    NoApp = NoApp
    MaxSessions = 2
    MaxRetry = 2
INVARIANTS
    OneConnectThread
    HarvestUsesSessionSettings
    NoSessionIsConnecting
    IInv
PROPERTIES
    ImplementsAppSession
    Reconnects
