SPECIFICATION Spec
CONSTANTS
    MaxInt = 1023
    Rate = 170
    MaxA = 1023
    MaxB = 40
INVARIANTS
    Saturates
    BonusNeverHurts
    IsqrtExact
    PricesNeverFall
CHECK_DEADLOCK FALSE
