\* An envelope refused as a duplicate because another pair uses its id.
SPECIFICATION Spec
CONSTANTS
    Pubkeys <- mcPubkeys
    Raw <- mcRaw
    Paths = {"ab", "ac"}
    Activatable <- mcActivatable
    Null = Null
    Signers = {2, 3}
    MsgIds = {1}
    Mints <- mcMintsShared
    Timestamps = {0}
    Procs = {p1}
    Calls = {"put"}
    ReplayWindow = 2
    ListLimit = 1
    MaxAckBatch = 1
    EnvelopeMaxAge = 1
    TicksPerSecond = 2
    Disciplined = FALSE
    MayFail = FALSE
    MaxTime = 0
    LastPut = 1
    MaxCrashes = 0
INVARIANTS DuplicateOfPair
