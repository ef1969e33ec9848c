SPECIFICATION Spec
CONSTANTS
    Lists <- MCMedian
    Durations = {0, 3}
    Scale = 4
    MaxCount = 12
INVARIANTS
    MarksTheQuantile
