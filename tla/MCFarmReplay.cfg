SPECIFICATION Spec
CONSTANTS
    MaxInt = 100000
    Content <- Automatic
    AutoCycleCap = 10
    OnlineTick = 2
    DayLength = 2
    Plays = {"plant", "harvest", "automation"}
    MaxTime = 6
    MaxLag = 0
PROPERTIES
    TimeNotReplayed
