SPECIFICATION FairSpec
CONSTANTS
    Slots = {c1, c2}
    DrainWindow = 2
    Null = Null
INVARIANTS
    TypeOK
    CutOnlyAfterWindow
    WorkersStopFirst
PROPERTIES
    ShutsDown
CHECK_DEADLOCK FALSE
