SPECIFICATION Spec
CONSTANTS
    s1 = s1
    s2 = s2
    s3 = s3
    k1 = k1
    Session = {s1, s2, s3}
    Key = {k1}
    KeyOf <- OneSave
    None = None
    Main = Main
    Policy = "takeover"
    Faults = {"write", "open", "crash", "timeout"}
    MaxVersion = 3
SYMMETRY AllAlike
INVARIANTS
    SingleWriter
    CleanMeansSaved
    UnkickedSessionHoldsSave
    NoActorLeftBehind
    FlushedMeansClosed
PROPERTIES
    NoOtherLoss
    LedgerSpec
