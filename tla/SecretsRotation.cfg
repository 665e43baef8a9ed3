SPECIFICATION Spec
CONSTANTS
    None = None
    Secrets = {s1, s2}
    SoftKeys = {k1, k2}
    HardKeys = {h1, h2}
    Jobs = {j1, j2}
    Chunk = 1
    MaxRestarts = 2
INVARIANTS OneActive RecordedKeysLoaded ForgottenStaysGone OnlyOverlapStrands
PROPERTIES ReadableStaysReadable
SYMMETRY Symmetry
CHECK_DEADLOCK FALSE
