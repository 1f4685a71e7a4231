SPECIFICATION ServerSpec
CONSTANTS
    s1 = s1
    s2 = s2
    s3 = s3
    s4 = s4
    k1 = k1
    k2 = k2
    f1 = f1
    Session = {s1, s2, s3, s4}
    Key = {k1, k2}
    KeyOf <- SaveOf
    None = None
    Main = Main
    NoKey = NoKey
    Fingerprint = {f1}
    FingerprintOf <- Keys
    MaxGlobal = 3
    MaxPerKey = 2
    Policy = "refuse"
    Faults = {"open"}
    MaxVersion = 2
CHECK_DEADLOCK FALSE
SYMMETRY SameSave
INVARIANTS
    PlayersWithinCaps
    CompleteMeansSaved
PROPERTIES
    RefuseNeverInterrupts
    LedgerSpec
