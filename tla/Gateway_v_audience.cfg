SPECIFICATION Spec
CONSTANTS
    Segments <- mcSegments
    Routes <- mcRoutes
    PublicPaths <- mcPublicPaths
    Modes = {TRUE, FALSE}
    OrgsLike = {"orgs"}
    Identities <- mcIdentities
    Requests <- mcRequests
    Forged = Forged
    Slots = {c1}
    ShutdownTimeout = 2
    Null = Null
INVARIANTS
    AudienceScoped
CHECK_DEADLOCK FALSE
