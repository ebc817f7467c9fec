\* Two concurrent calls on two requests, at one time; any statement may fail.
SPECIFICATION Spec
CONSTANTS
    Pubkeys <- mcPubkeys
    Raw <- mcRaw
    Halves <- mcTwoHalves
    Calls = {"create", "approve", "deny"}
    ReqIds = {r1, r2}
    Procs = {p1, p2}
    Null = Null
    EmptyHalf = EmptyHalf
    ReplayWindow = 4
    RequestTTL = 1
    TicksPerSecond = 2
    MayFail = TRUE
    MaxTime = 0
    LastCreate = 0
    MaxCrashes = 0
SYMMETRY Symmetric
INVARIANTS TypeOK ApprovedBacked DecisionsReported PairProvenance
PROPERTIES DecisionsFinal RegistrySpec
