\* Both sides, a stranger and an unknown path; arbitrary acks; time passes.
SPECIFICATION Spec
CONSTANTS
    Pubkeys <- mcPubkeys
    Raw <- mcRaw
    Paths = {"ab", "none"}
    Activatable <- mcActivatable
    Null = Null
    Signers = {1, 2, 3}
    MsgIds = {1, 2, 3}
    Mints <- mcMints
    Timestamps = {0, 9}
    Procs = {p1, p2}
    Calls = {"put", "ack"}
    ReplayWindow = 2
    ListLimit = 1
    MaxAckBatch = 2
    EnvelopeMaxAge = 1
    TicksPerSecond = 2
    Disciplined = FALSE
    MayFail = TRUE
    MaxTime = 3
    LastPut = 1
    MaxCrashes = 0
SYMMETRY Symmetric
INVARIANTS TypeOK DuplicateMeansStored
PROPERTIES EvictionAuthorised
