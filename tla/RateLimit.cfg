SPECIFICATION LimiterSpec
CONSTANTS
    Routes <- mcRoutes
    Burst <- mcBurst
    Cost <- mcCost
    MaxBucketsPerRule = 1
    IdleEvictAfter = 3
    TrustXFF = TRUE
    Requests <- mcRequests
    Clients = {"hop", "i"}
    Null = Null
    Procs = {p1, p2}
    MaxDelay = 1
    MaxLag = 1
    MaxTime = 7
SYMMETRY Symmetric
INVARIANTS
    LimiterTypeOK
    NeverOverspent
    WithinCap
    IdleBucketsGo
PROPERTIES
    RefusedWhenEmpty
