\* A reader whose cursor passed an envelope that arrived late.
SPECIFICATION Spec
CONSTANTS
    Pubkeys <- mcPubkeys
    Raw <- mcRaw
    Paths = {"ab"}
    Activatable <- mcActivatable
    Null = Null
    Signers = {1, 2}
    MsgIds = {1, 2}
    Mints <- mcMintsOne
    Timestamps = {0}
    Procs = {p1, p2}
    Calls = {"put", "get"}
    ReplayWindow = 2
    ListLimit = 2
    MaxAckBatch = 1
    EnvelopeMaxAge = 1
    TicksPerSecond = 2
    Disciplined = FALSE
    MayFail = FALSE
    MaxTime = 0
    LastPut = 1
    MaxCrashes = 0
INVARIANTS CursorComplete
