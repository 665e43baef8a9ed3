CONSTANTS
    Entries = {e1, e2}
    Tenants = {t1, t2}
    GrantKeys = {k1}
    Contents = {c1}
    Requests <- MixedRequests
    Genesis = Genesis
    None = None
    Postgres = TRUE
    Signer = TRUE
    MaxFaults = 1
    MaxArchives = 1
    MaxResubmits = 1
    t1 = t1
    t2 = t2
    k1 = k1
    c1 = c1
SPECIFICATION FairSpec
INVARIANTS
    HeadsCoverTheirLeaves
    SuccessMeansCovered
    GrantsAreProvable
PROPERTIES
    LogIsTransparent
    CallsReturn
CHECK_DEADLOCK FALSE
