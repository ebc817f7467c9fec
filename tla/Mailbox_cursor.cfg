\* Readers walk limited pages while senders put, readers ack, the sweeper
\* evicts and a second pair uses the same ids.
SPECIFICATION Spec
CONSTANTS
    Pubkeys <- mcPubkeys
    Raw <- mcRaw
    Paths = {"ab", "ac"}
    Activatable <- mcActivatable
    Null = Null
    Signers = {1, 2, 3}
    MsgIds = {1, 2}
    Mints <- mcMintsTwoPairs
    Timestamps = {0}
    Procs = {p1, p2}
    Calls = {"put", "get", "ack"}
    ReplayWindow = 2
    ListLimit = 1
    MaxAckBatch = 1
    EnvelopeMaxAge = 0
    TicksPerSecond = 1
    Disciplined = TRUE
    MayFail = TRUE
    MaxTime = 1
    LastPut = 1
    MaxCrashes = 1
SYMMETRY Symmetric
INVARIANTS InboxIsolation CursorComplete
