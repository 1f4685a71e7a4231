SPECIFICATION GateSpec
CONSTANTS
    s1 = s1
    s2 = s2
    s3 = s3
    s4 = s4
    s5 = s5
    s6 = s6
    f1 = f1
    f2 = f2
    NoKey = NoKey
    Session = {s1, s2, s3, s4, s5, s6}
    Fingerprint = {f1, f2}
    FingerprintOf <- Keys
    MaxGlobal = 3
    MaxPerKey = 2
SYMMETRY SameKey
INVARIANTS
    CountersExact
CHECK_DEADLOCK FALSE
