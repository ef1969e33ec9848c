SPECIFICATION RumSpec
CONSTANTS
    Spellings = {"Content-Length", "content-length"}
    MaxBlocks = 2
    MaxRestarts = 1
    Pythons = {2, 3}
INVARIANTS
    Transparent
    LengthIsTrue
    OneScript
    CallerGetsTrace
