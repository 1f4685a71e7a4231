SPECIFICATION Spec
CONSTANTS
    MaxInt = 100000
    Content <- Late
    AutoCycleCap = 1
    OnlineTick = 1
    DayLength = 2
    Plays = {"plant", "harvest", "rebirth"}
    MaxTime = 4
    MaxLag = 1
PROPERTIES
    TimeNeverRewinds
