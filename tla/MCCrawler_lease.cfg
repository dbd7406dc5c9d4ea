SPECIFICATION Spec
CONSTANTS
    w1 = w1
    w2 = w2
    w3 = w3
    p1 = p1
    Worker = {w1, w2, w3}
    Player = {p1}
    Seed = {p1}
    NoPlayer = NoPlayer
    Trophies = {100, 45000}
    LeaseTTL = 2
    Delay = {1, 2}
    Skew = 1
    MaxTime = 5
    BucketCap = 0
    MaxDiscoveries = 1
    MaxActive = 0
SYMMETRY WorkerSymmetry
INVARIANTS
    IInv
    Fenced
    CountedOncePerClaim
    HeldTargetIsLeased
    ClaimsLocked
PROPERTIES
    NoLeaseStolen
    BucketIsSticky
    IsLeaseQueue
