SPECIFICATION FairSpec
CONSTANTS
    Requests = {r1, r2}
    Runners = {w1, w2}
    Slots = {h1}
    None = None
    MaxWork = 4
    MaxFrames = 3
INVARIANTS
    IInv
    FinishedAtRoot
PROPERTIES
    FinishesLast
    ImplementsRequestReport
    EachIsFinished
