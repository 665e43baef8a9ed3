CONSTANTS
    Entries = {e1, e2}
    Tenants = {t1, t2}
    GrantKeys = {k1}
    Contents = {c1}
    Requests <- GrantRequests
    Genesis = Genesis
    None = None
    Postgres = FALSE
    Signer = TRUE
    MaxFaults = 0
    MaxArchives = 0
    MaxResubmits = 0
    t1 = t1
    t2 = t2
    k1 = k1
    c1 = c1
SPECIFICATION Spec
INVARIANTS
    LatestGrantWins
CHECK_DEADLOCK FALSE
