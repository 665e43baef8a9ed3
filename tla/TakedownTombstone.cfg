SPECIFICATION FairSpec
CONSTANTS
    None = None
    x = x
    y = y
    shared = shared
    n1 = n1
    n2 = n2
    Manifests = {x, y}
    Chunks = {shared}
    Of <- Share
    Notices = {n1, n2}
    Basis <- PurgeBasis
    Records <- PurgeRecords
    Expires <- Until
    Reviewed = {n1}
    PurgeDwell = 1
    CounterWindow = 1
    Doors = {d1}
    Hosts = {h1, h2}
    MaxTime = 1
    MaxFaults = 1
INVARIANTS FinalizedBytesGone OrphanChunksGone
PROPERTIES DestroyedAfterWindow ReceiptDestroys
CHECK_DEADLOCK FALSE
