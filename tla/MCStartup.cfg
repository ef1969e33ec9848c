SPECIFICATION FairSpec
CONSTANTS
    Requests = {r1, r2, r3}
    Loaders = {l1, l2}
    NoOne = NoOne
    Hooks = 2
    Python = 2
INVARIANTS
    IInv
PROPERTIES
    ComesUp
