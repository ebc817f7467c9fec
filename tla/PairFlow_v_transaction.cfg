\* A pair whose request was denied while it was being approved.
SPECIFICATION Spec
CONSTANTS
    Pubkeys <- mcPubkeys
    Raw <- mcRaw
    Halves <- mcTwoHalves
    Calls = {"create", "approve", "deny"}
    ReqIds = {r1}
    Procs = {p1, p2}
    Null = Null
    EmptyHalf = EmptyHalf
    ReplayWindow = 4
    RequestTTL = 1
    TicksPerSecond = 2
    MayFail = FALSE
    MaxTime = 0
    LastCreate = 0
    MaxCrashes = 0
SYMMETRY Symmetric
INVARIANTS PairHasApproval
