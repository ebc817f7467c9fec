\* An ack whose delete removes an envelope of the other side's inbox.
SPECIFICATION Spec
CONSTANTS
    Pubkeys <- mcPubkeys
    Raw <- mcRaw
    Paths = {"ab"}
    Activatable <- mcActivatable
    Null = Null
    Signers = {1, 2}
    MsgIds = {1}
    Mints <- mcMintsShared
    Timestamps = {0}
    Procs = {p1, p2}
    Calls = {"put", "ack"}
    ReplayWindow = 2
    ListLimit = 1
    MaxAckBatch = 1
    EnvelopeMaxAge = 1
    TicksPerSecond = 2
    Disciplined = FALSE
    MayFail = FALSE
    MaxTime = 0
    LastPut = 1
    MaxCrashes = 0
INVARIANTS AckOwnInboxOnly
