SPECIFICATION FairServerSpec
CONSTANTS
    s1 = s1
    s2 = s2
    s3 = s3
    s4 = s4
    k1 = k1
    k2 = k2
    f1 = f1
    Session = {s1, s2}
    Key = {k1}
    KeyOf <- SaveOf
    None = None
    Main = Main
    NoKey = NoKey
    Fingerprint = {f1}
    FingerprintOf <- Keys
    MaxGlobal = 2
    MaxPerKey = 2
    Policy = "takeover"
    Faults = {"open", "timeout"}
    MaxVersion = 1
CHECK_DEADLOCK FALSE
PROPERTIES
    GhostsLeave
    SlotComesFree
    NobodyWaitsForEver
    ProgressBecomesDurable
