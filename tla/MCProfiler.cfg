SPECIFICATION FairSpec
CONSTANTS
    Apps = {a1}
    NoApp = NoApp
    MaxCommands = 3
    Python = 2
INVARIANTS
    IInv
PROPERTIES
    ReportsOwnCommand
    ImplementsProfileLife
    ProfileEnds
    FinishedLeaves
