SPECIFICATION Spec
CONSTANTS
    Requests = {r1, r2}
    Threads = {t1}
    None = None
    Kinds = {"database", "external", "function"}
    TicksPerMs = 2
    MaxNow = 3
    MaxDepth = 4
    ReleaseFirst = FALSE
INVARIANT
    PopsItself
