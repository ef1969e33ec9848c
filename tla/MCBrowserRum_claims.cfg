\* Statements of the source that the code does not keep. TLC reports the one it
\* meets first: leave one name in the list to see that one.
SPECIFICATION RumSpec
CONSTANTS
    Spellings = {"Content-Length", "content-length"}
    MaxBlocks = 2
    MaxRestarts = 1
    Pythons = {2, 3}
INVARIANTS
    OnlyIntoOk
    LastStatusCounts
    LengthAlwaysTrue
    InsertionNeverRaises
