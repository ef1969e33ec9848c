SPECIFICATION Spec
CONSTANTS
    Apps = {a1, a2}
    Slots = {s1, s2}
    Requests = {r1}
    NoThread = NoThread
    NoApp = NoApp
    MaxSessions = 2
    MaxRetry = 1
SYMMETRY Symmetry
INVARIANTS
    OneConnectThread
    NoSessionIsConnecting
    IInv
