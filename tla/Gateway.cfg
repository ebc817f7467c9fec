SPECIFICATION FairSpec
CONSTANTS
    Segments <- mcSegments
    Routes <- mcRoutes
    PublicPaths <- mcPublicPaths
    Modes = {TRUE, FALSE}
    OrgsLike = {"orgs"}
    Identities <- mcIdentities
    Requests <- mcRequests
    Forged = Forged
    Slots = {c1}
    ShutdownTimeout = 2
    Null = Null
INVARIANTS
    TypeOK
    IdentityVerified
    EntitledOnly
PROPERTIES
    GatewayStops
CHECK_DEADLOCK FALSE
