SPECIFICATION ListSpec
CONSTANTS
    Keys = {k1, k2}
    Deployers = {d1, d2}
    Starters = {s1, s2}
    MaxDeploys = 3
    MaxInstances = 2
    PageSizes = {1, 2}
    DefaultSize = 2
    Setups <- SafeSetups
    Listed <- GrowingSetups
SYMMETRY Alike
CHECK_DEADLOCK FALSE
INVARIANTS
    VersionsCount
    InstancesKeepDefinition
    StartsNeverFallBack
    WalkHasNoGaps
    WalkMissesNothing
