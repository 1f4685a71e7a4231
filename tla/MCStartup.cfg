SPECIFICATION Spec
CONSTANTS
    k1 = k1
    k2 = k2
    p1 = p1
    p2 = p2
    maxSlotLen = 2
    Unset = Unset
    Junk = Junk
    None = None
    Key = {k1, k2}
    Plot = {p1, p2}
    Release = {1, 2, 3}
    Migrations <- MCMigrations
    StateVersion <- MCStateVersion
    Environment <- MCEnvironment
SYMMETRY Alike
INVARIANTS
    DatabaseTellsVersions
    ConfiguredAsAssumed
PROPERTIES
    NothingIsDowngraded
    UpgradesKeepWhatWasBought
