\* One request, every endpoint, refused halves, and time passing.
SPECIFICATION Spec
CONSTANTS
    Pubkeys <- mcPubkeys
    Raw <- mcRaw
    Halves <- mcMixedHalves
    Calls = {"create", "poll", "list", "approve", "deny"}
    ReqIds = {r1}
    Procs = {p1, p2}
    Null = Null
    EmptyHalf = EmptyHalf
    ReplayWindow = 2
    RequestTTL = 1
    TicksPerSecond = 2
    MayFail = TRUE
    MaxTime = 3
    LastCreate = 1
    MaxCrashes = 1
SYMMETRY Symmetric
INVARIANTS NoEarlyExpiry PairProvenance DecisionsReported
PROPERTIES DecisionsFinal
