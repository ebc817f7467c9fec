\* An ack of ids beyond the first page of the inbox.
SPECIFICATION Spec
CONSTANTS
    Pubkeys <- mcPubkeys
    Raw <- mcRaw
    Paths = {"ab"}
    Activatable <- mcActivatable
    Null = Null
    Signers = {1, 2}
    MsgIds = {1, 2}
    Mints <- mcMintsOne
    Timestamps = {0}
    Procs = {p1}
    Calls = {"put", "ack"}
    ReplayWindow = 2
    ListLimit = 1
    MaxAckBatch = 2
    EnvelopeMaxAge = 1
    TicksPerSecond = 2
    Disciplined = FALSE
    MayFail = FALSE
    MaxTime = 0
    LastPut = 1
    MaxCrashes = 0
INVARIANTS AckEvicts
