SPECIFICATION Spec
CONSTANTS
    Requests = {r1, r2}
    Runners = {w1}
    Slots = {h1}
    None = None
    MaxWork = 4
    MaxFrames = 3
INVARIANT
    PopsItself
