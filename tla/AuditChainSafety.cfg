CONSTANTS
    Entries = {e1, e2, e3}
    Tenants = {t1, t2}
    GrantKeys = {k1}
    Contents = {c1}
    Requests <- ChainRequests
    Genesis = Genesis
    None = None
    Postgres = FALSE
    Signer = TRUE
    MaxFaults = 0
    MaxArchives = 2
    MaxResubmits = 1
    t1 = t1
    t2 = t2
    k1 = k1
    c1 = c1
SPECIFICATION Spec
INVARIANTS
    LiveLinked
    AnchorLinks
    NothingErased
    ClaimedOnce
SYMMETRY Symmetry
CHECK_DEADLOCK FALSE
