SPECIFICATION FairSpec
CONSTANTS
    Occurrence = {o1, o2, o3}
    EventBuffer = 1
CHECK_DEADLOCK FALSE
INVARIANTS
    TypeOK
    Evidence
    GreenIsEarned
    NotFiredIsTrue
    OrderlyShutdown
PROPERTIES
    CancelEnds
