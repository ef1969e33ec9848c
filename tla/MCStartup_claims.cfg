\* Statements of the source that the code does not keep. TLC reports the one it
\* meets first: leave one name in the list to see that one.
SPECIFICATION Spec
CONSTANTS
    Requests = {r1, r2, r3}
    Loaders = {l1, l2}
    NoOne = NoOne
    Hooks = 2
    Python = 2
INVARIANTS
    InitializedBefore
    InitializedWell
    SamplersComplete
