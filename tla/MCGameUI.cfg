SPECIFICATION FairSpec
CONSTANTS
    IdleTimeout = 3
    MaxGap = 2
    StartPlots = 1
    MaxPlots = 2
INVARIANTS
    OneTickChain
    NeverPanics
    IdleIsEnforced
PROPERTIES
    IdleIsDeserved
    GoodbyeStays
    ToldMeansEnds
    GoodbyeEnds
CHECK_DEADLOCK FALSE
