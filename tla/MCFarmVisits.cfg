SPECIFICATION Spec
CONSTANTS
    MaxInt = 1023
    Content <- Visits
    AutoCycleCap = 1
    OnlineTick = 1
    DayLength = 2
    Plays = {"plant", "harvest", "gift", "shoo", "upgrade", "rebirth", "name"}
    MaxTime = 3
    MaxLag = 0
INVARIANTS
    EventInForce
    WalletBacked
PROPERTIES
    GiftsArePaid
    ChangesAreDirty
    ProgressNeverFalls
