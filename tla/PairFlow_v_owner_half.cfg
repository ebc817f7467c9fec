\* An approved poll without the owner half.
SPECIFICATION Spec
CONSTANTS
    Pubkeys <- mcPubkeys
    Raw <- mcRaw
    Halves <- mcTwoHalves
    Calls = {"create", "poll", "approve"}
    ReqIds = {r1, r2}
    Procs = {p1}
    Null = Null
    EmptyHalf = EmptyHalf
    ReplayWindow = 4
    RequestTTL = 1
    TicksPerSecond = 2
    MayFail = FALSE
    MaxTime = 0
    LastCreate = 0
    MaxCrashes = 0
SYMMETRY Symmetric
INVARIANTS ApprovedPollCarriesOwnerHalf
