SPECIFICATION Spec
CONSTANTS
    None = None
    x = x
    y = y
    shared = shared
    n1 = n1
    n2 = n2
    Manifests = {x, y}
    Chunks = {shared}
    Of <- Share
    Notices = {n1, n2}
    Basis <- CounterBasis
    Records <- CounterRecords
    Expires <- Until
    Reviewed = {n2}
    PurgeDwell = 1
    CounterWindow = 1
    Doors = {d1}
    Hosts = {h1}
    MaxTime = 1
    MaxFaults = 0
PROPERTY LiveDagKeepsChunk
CHECK_DEADLOCK FALSE
