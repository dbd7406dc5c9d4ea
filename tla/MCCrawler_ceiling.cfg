SPECIFICATION Spec
CONSTANTS
    w1 = w1
    p1 = p1
    p2 = p2
    p3 = p3
    Worker = {w1}
    Player = {p1, p2, p3}
    Seed = {p1}
    NoPlayer = NoPlayer
    Trophies = {45000}
    LeaseTTL = 1
    Delay = {1}
    Skew = 0
    MaxTime = 2
    BucketCap = 0
    MaxDiscoveries = 1
    MaxActive = 1
INVARIANTS
    DiscoveryIsBounded
