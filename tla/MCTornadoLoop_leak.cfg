SPECIFICATION FairSpec
CONSTANTS
    Requests = {r1, r2}
    Runners = {w1}
    Slots = {h1}
    None = None
    MaxWork = 3
    MaxFrames = 3
PROPERTY
    FinishIsFinish
