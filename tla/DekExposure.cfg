SPECIFICATION Spec
CONSTANTS
    None = None
    Members = {m1, m2}
    Calls = {c1, c2}
    Attempts = 1
    Skew = 0
    Lag = 0
    Retains = {0}
    Movers = {m2}
    Rejoiners = {}
    Operated = {}
    MaxEpoch = 2
    MaxTime = 1
INVARIANT NoExposure
CHECK_DEADLOCK FALSE
