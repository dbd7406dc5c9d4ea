SPECIFICATION Spec
CONSTANTS
    w1 = w1
    w2 = w2
    w3 = w3
    Worker = {w1, w2, w3}
    Interval = 2
    MaxTime = 8
SYMMETRY WorkerSymmetry
INVARIANTS
    IInv
    SlotsApart
    RateBounded
    WaitBounded
CHECK_DEADLOCK FALSE
