SPECIFICATION Spec
CONSTANTS
    w1 = w1
    w2 = w2
    w3 = w3
    Worker = {w1, w2, w3}
    Total = 3
INVARIANTS
    IInv
    OvershootBounded
    HaltReported
PROPERTIES
    CountStops
    HaltStops
