SPECIFICATION Spec
CONSTANTS
    w1 = w1
    w2 = w2
    p1 = p1
    p2 = p2
    Worker = {w1, w2}
    Player = {p1, p2}
    Seed = {p1, p2}
    NoPlayer = NoPlayer
    Trophies = {100, 45000}
    LeaseTTL = 1
    Delay = {1}
    Skew = 0
    MaxTime = 2
    BucketCap = 1
    MaxDiscoveries = 0
    MaxActive = 0
SYMMETRY FullSymmetry
INVARIANTS
    SampledOnlyWhenFull
    NoLockCycle
PROPERTIES
    DeactivatedForGood
