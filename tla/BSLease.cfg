SPECIFICATION Spec
CONSTANTS
    c1 = c1
    c2 = c2
    Clis <- MCClis
    Ttl = 3
    RenewEvery = 2
    CallMax = 1
    MaxTime = 7
    MaxRestarts = 1
SYMMETRY MCSymmetry
INVARIANTS TypeOK SafeWindow StopsInTime BuildHoldsSlot
CHECK_DEADLOCK FALSE
