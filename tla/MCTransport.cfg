SPECIFICATION FairSpec
CONSTANTS
    MaxRetry = 2
    MaxChanges = 4
    OldHost = "lost"
    NewCodes = FALSE
INVARIANTS
    IInv
PROPERTIES
    Settles
