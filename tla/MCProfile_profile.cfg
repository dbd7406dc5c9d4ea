SPECIFICATION MCSpec
CONSTANTS
    w1 = w1
    w2 = w2
    p1 = p1
    x1 = x1
    v1 = v1
    Worker = {w1, w2}
    Player = {p1}
    NoPlayer = NoPlayer
    Brawler = {x1}
    Patch = {v1}
    NoPatch = NoPatch
    Dates = {1, 2}
    Trophies = {45000}
    StartFailures = {18}
    MaxTime = 1
    MaxClaims = 2
ACTION_CONSTRAINT DatesMoveLater
SYMMETRY WorkerSymmetry
INVARIANTS
    BackoffIsExact
    CountIsHonest
    SnapshotsSound
    FailuresNotStale
    TypeOK
PROPERTIES
    FailuresStepwise
