\* One call on each side, one sweep and a clock for both; statements fail, any
\* of them for ever.
SPECIFICATION FairSpec
CONSTANTS
    Pubkeys <- mcPubkeys
    Raw <- mcRaw
    ReplayWindow = 4
    Null = Null
    TicksPerSecond = 1
    MayFail = TRUE
    MaxTime = 2
    MaxCrashes = 1
    ReqIds = {r1}
    PairProcs = {p1}
    Halves <- mcForgedHalves
    PairCalls = {"create", "approve"}
    EmptyHalf = EmptyHalf
    RequestTTL = 1
    LastCreate = 0
    Signers = {1, 3}
    MsgIds = {1}
    Mints <- mcMints
    Timestamps = {0}
    MailProcs = {q1}
    MailCalls = {"put"}
    ListLimit = 1
    MaxAckBatch = 1
    EnvelopeMaxAge = 1
    Disciplined = FALSE
    LastPut = 0
INVARIANTS
    ApprovedUsable
    OnlyPairedMail
PROPERTIES
    PairingSpec
    MailboxSpec
    PendingResolves
    EventuallyEvicted
