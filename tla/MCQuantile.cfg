SPECIFICATION Spec
CONSTANTS
    Lists <- MCLists
    Durations = {0, 3, 10}
    Scale = 4
    MaxCount = 9
INVARIANTS
    IInv
