SPECIFICATION Spec
CONSTANTS
    None = None
    Members = {m1}
    Calls = {c1, c2}
    Attempts = 1
    Skew = 0
    Lag = 0
    Retains = {0}
    Movers = {m1}
    Rejoiners = {m1}
    Operated = {0}
    MaxEpoch = 2
    MaxTime = 1
INVARIANTS BoundReadable OneKeyPerEpoch PointerUsable NoOrphan RemovalRotatesOut
PROPERTIES KeyWrittenOnce
SYMMETRY CSym
CHECK_DEADLOCK FALSE
