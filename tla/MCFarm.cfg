SPECIFICATION Spec
CONSTANTS
    MaxInt = 100000
    Content <- Economy
    AutoCycleCap = 1
    OnlineTick = 2
    DayLength = 2
    Plays = {"plant", "harvest", "plot", "zone", "multiplier", "strain", "upgrade", "rebirth", "automation", "flavor"}
    MaxTime = 3
    MaxLag = 0
INVARIANTS
    FieldsAccounted
    NeverStuck
    CatchUpInParts
PROPERTIES
    PermanentSurvives
